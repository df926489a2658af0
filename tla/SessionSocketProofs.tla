-------------------------- MODULE SessionSocketProofs --------------------------
(***************************************************************************)
(* Proofs about SessionSocket.tla, for any number of conversations, turns  *)
(* and handlers, and any order the handlers run in.                        *)
(*                                                                         *)
(* A handler that awaits finds the socket changed when it wakes up, so     *)
(* what a run checks of the socket rests on what each sleeping handler may *)
(* still rely on (Waits), on which handlers can sleep side by side         *)
(* (Beside), and on there being one handler that sees to each recorder     *)
(* that opens or stops, and one that awaits each awaited save (Tended,     *)
(* Queue).  Base is these facts for the handlers of the slots J: all of    *)
(* them between two steps, all but handler i while i runs on, which is how *)
(* the lemmas follow a handler through the calls it makes.                 *)
(*                                                                         *)
(* Usage is lost only when the socket closes, or a message comes, in the   *)
(* middle of a restart or of the close of a vendor's stream (crossed).     *)
(* Own is what holds besides until that happens.                           *)
(***************************************************************************)
EXTENDS SessionSocket, Integers, FiniteSetTheorems, SequenceTheorems,
        WellFoundedInduction, TLAPS

-----------------------------------------------------------------------------
(* The inductive invariant.                                                 *)

Live(x, c) == x.ses[c] \in {"starting", "live"}
NoLive(x)  == \A c \in Conv : ~Live(x, c)
NoDrain(x) == \A c \in Conv : x.ses[c] # "draining"

\* A "start" that has not created its session yet.
Undone(t) == t.kind = "start" /\ t.at \notin {"starting", "catchStop"}

\* A handler that waits for a recorder to stop.
StopsRec(t) == t.at \in {"recStop", "catchStop"}

\* What a handler may wait for, and who waits for it: finish() has its own slot.
Fits(i, t) ==
    /\ t.at = "idle" => t.kind = "none"
    /\ t.at = "arming" => t.kind = "arm"
    /\ t.at \in {"starting", "catchStop"} => t.kind = "start"
    /\ t.at = "saving" => t.kind \in {"start", "end", "finish"}
    /\ t.at \in {"closing", "recStop", "unlink"} =>
          t.kind \in {"start", "end", "stop", "finish"}
    /\ t.at # "idle" => t.conv \in Conv
    /\ i = FinishSlot => t.kind \in {"none", "finish"}
    /\ t.kind = "finish" => i = FinishSlot

\* What the socket holds.
Held(x) ==
    /\ x.conn = "open" => x.finished = "no"
    /\ x.session <= x.count /\ x.ledger <= x.count /\ x.recorder <= x.count
    /\ \A c \in Conv : Live(x, c) => x.session = c
    /\ x.session # None => x.ledger \in {None, x.session}
    /\ \A c \in Conv : x.turns[c] <= x.reported[c]
    /\ \A c \in Conv : x.ledger = c \/ c > x.count => x.turns[c] = x.reported[c]
    /\ \A c \in Conv : x.rec[c] \in {"opening", "on"} => x.recorder = c

\* The last save of a conversation in the queue is up to date.
Filed(x) ==
    \A c \in Conv :
      /\ \A k \in 1..Len(x.saves) :
           x.saves[k].conv = c /\ (\A m \in 1..Len(x.saves) : m > k => x.saves[m].conv # c)
             => x.saves[k].turns = x.turns[c]
      /\ (\A k \in 1..Len(x.saves) : x.saves[k].conv # c)
             => x.unsaved[c] \/ x.filed[c] = x.turns[c]

\* The socket has not moved on under a handler that sleeps.
Waits(x, i, t) ==
    /\ Fits(i, t)
    /\ t.conv <= x.count
    /\ t.kind = "finish" => x.finished = "running"
    /\ t.at = "closing" =>
          /\ NoLive(x)
          /\ x.ses[t.conv] \in {"draining", "closed"}
          /\ x.session \in {None, t.conv}
          /\ x.ledger \in {None, t.conv}
    /\ Undone(t) =>
          /\ x.count < MaxConvs
          /\ t.at # "closing" => x.session = None /\ x.recorder = None
    /\ t.at = "starting" =>
          /\ x.session \in {None, t.conv}
          /\ x.ses[t.conv] \notin {"live", "draining"}
    /\ t.at = "arming" => x.rec[t.conv] \in {"opening", "doomed"}
    /\ StopsRec(t) => x.rec[t.conv] = "stopping"
    /\ t.at = "catchStop" => x.recorder \in {None, t.conv}

\* Which handlers may sleep side by side.
Beside(t, u) ==
    /\ t.kind \in {"start", "end"} => u.kind \notin {"start", "end"}
    /\ t.at = "closing" => u.at # "closing"
    /\ Undone(t) => u.at # "closing"
    /\ t.conv = u.conv =>
          /\ ~(t.at = "arming" /\ u.at = "arming")
          /\ ~(StopsRec(t) /\ StopsRec(u))

\* A recorder that opens or stops has a handler that sees to it.
Tended(x, J) ==
    /\ \A c \in Conv : x.rec[c] \in {"opening", "doomed"} =>
          \E i \in J : x.tasks[i].at = "arming" /\ x.tasks[i].conv = c
    /\ \A c \in Conv : x.rec[c] = "stopping" =>
          \E i \in J : StopsRec(x.tasks[i]) /\ x.tasks[i].conv = c

\* An awaited save has one handler that sleeps until it has settled.
Queue(x, J) ==
    /\ \A k \in 1..Len(x.saves) : x.saves[k].awaited =>
          x.saves[k].slot \in J /\ x.tasks[x.saves[k].slot].at = "saving"
    /\ \A k, m \in 1..Len(x.saves) :
          k # m /\ x.saves[k].awaited /\ x.saves[m].awaited
             => x.saves[k].slot # x.saves[m].slot

\* The invariant, as far as the handlers of the slots J go.
Base(x, J) ==
    /\ x \in State
    /\ Held(x)
    /\ Filed(x)
    /\ \A i \in J : Waits(x, i, x.tasks[i])
    /\ \A i, j \in J : i # j => Beside(x.tasks[i], x.tasks[j])
    /\ Tended(x, J)
    /\ Queue(x, J)

\* What more there is to it when nothing interrupts a handler that puts a
\* conversation away.
HeldOwn(x) ==
    /\ \A c \in Conv : x.turns[c] = x.reported[c]
    /\ \A c \in Conv : Live(x, c) \/ x.ses[c] = "draining" => x.ledger = c
    /\ \A c \in Conv : x.told[c] # << >> =>
          /\ Len(x.told[c]) = 1 /\ x.told[c][1] = x.turns[c]
          /\ x.ledger # c /\ c <= x.count

WaitsOwn(x, t) ==
    /\ t.at \in {"recStop", "unlink", "saving"} => x.session = None /\ NoDrain(x)
    /\ t.at = "starting" => NoDrain(x)
    /\ t.at = "saving" /\ t.kind # "finish" =>
          t.sum = x.turns[t.conv] /\ x.told[t.conv] = << >>

BesideOwn(t, u) == Undone(t) => u.kind \in {"none", "arm"}

TendedOwn(x, J) ==
    \A c \in Conv : x.ses[c] = "draining" =>
          \E i \in J : x.tasks[i].at = "closing" /\ x.tasks[i].conv = c

Own(x, J) ==
    /\ HeldOwn(x)
    /\ \A i \in J : WaitsOwn(x, x.tasks[i])
    /\ \A i, j \in J : i # j => BesideOwn(x.tasks[i], x.tasks[j])
    /\ TendedOwn(x, J)

\* A recorder without a session is one that a failed "start" is still closing.
HasSession(x) ==
    x.recorder # None =>
        x.session # None \/ \E i \in Slot : x.tasks[i].at = "catchStop"

\* The lemmas follow one step, and Own as long as nothing has crossed at its end.
Crossed == crossed'

Inv(x) == Base(x, Slot) /\ HasSession(x) /\ (~Crossed => Own(x, Slot))

\* The inductive invariant: Inv, seen between two steps.
SocketInv ==
    /\ Base(s, Slot)
    /\ HasSession(s)
    /\ ~crossed => Own(s, Slot)
    /\ crossed \in BOOLEAN

SameHeld(x, y) ==
    /\ y.conn = x.conn /\ y.finished = x.finished /\ y.count = x.count
    /\ y.session = x.session /\ y.ledger = x.ledger /\ y.recorder = x.recorder
    /\ y.ses = x.ses /\ y.rec = x.rec /\ y.drains = x.drains

SameBooks(x, y) ==
    /\ y.reported = x.reported /\ y.turns = x.turns /\ y.told = x.told
    /\ y.saves = x.saves /\ y.filed = x.filed /\ y.unsaved = x.unsaved

LEMMA Sizes ==
    /\ MaxConvs \in Nat \ {0} /\ MaxTurns \in Nat \ {0} /\ MaxHandlers \in Nat \ {0}
    /\ FinishSlot \in Slot /\ FinishSlot = 0
    /\ None = 0 /\ None \notin Conv
    /\ \A c \in Conv : c \in Nat /\ c # None
BY SizeAssumption DEF FinishSlot, Slot, None, Conv

LEMMA NoTaskFacts ==
    /\ NoTask \in Task /\ NoTask.kind = "none" /\ NoTask.at = "idle"
    /\ NoTask.conv = None /\ NoTask.sum = 0
BY Sizes DEF NoTask, Task

\* The fields' types, one by one.
LEMMA Fields ==
    ASSUME NEW x \in State
    PROVE  /\ x.conn \in {"open", "closing", "closed"}
           /\ x.session \in Conv \cup {None} /\ x.ledger \in Conv \cup {None}
           /\ x.recorder \in Conv \cup {None}
           /\ x.finished \in {"no", "running", "done"}
           /\ x.tasks \in [Slot -> Task] /\ x.count \in 0..MaxConvs
           /\ x.ses \in [Conv -> {"none", "starting", "live", "failed", "draining", "closed"}]
           /\ x.rec \in [Conv -> {"none", "idle", "opening", "doomed", "on", "stopping", "done"}]
           /\ x.reported \in [Conv -> 0..MaxTurns] /\ x.turns \in [Conv -> 0..MaxTurns]
           /\ x.filed \in [Conv -> 0..MaxTurns] /\ x.unsaved \in [Conv -> BOOLEAN]
           /\ x.told \in [Conv -> Seq(0..MaxTurns)] /\ x.saves \in Seq(Save)
           /\ x.drains \in BOOLEAN
BY DEF State

LEMMA TaskFields ==
    ASSUME NEW t \in Task
    PROVE  /\ t.kind \in {"none", "start", "end", "stop", "finish", "arm"}
           /\ t.at \in {"idle", "closing", "recStop", "unlink", "saving", "starting",
                        "catchStop", "arming"}
           /\ t.conv \in Conv \cup {None} /\ t.sum \in 0..MaxTurns
BY DEF Task

LEMMA TaskSet ==
    ASSUME NEW x \in State, NEW i \in Slot, NEW t \in Task
    PROVE  /\ [x EXCEPT !.tasks[i] = t] \in State
           /\ [x EXCEPT !.tasks[i] = t].tasks = [x.tasks EXCEPT ![i] = t]
           /\ SameHeld(x, [x EXCEPT !.tasks[i] = t])
           /\ SameBooks(x, [x EXCEPT !.tasks[i] = t])
<1> DEFINE ts == [x.tasks EXCEPT ![i] = t]
<1>1. ts \in [Slot -> Task]
  BY Fields
<1> HIDE DEF ts
<1>2. [x EXCEPT !.tasks = ts] \in State
  BY <1>1 DEF State
<1>3. /\ [x EXCEPT !.tasks = ts].tasks = ts
      /\ SameHeld(x, [x EXCEPT !.tasks = ts])
      /\ SameBooks(x, [x EXCEPT !.tasks = ts])
  BY DEF State, SameHeld, SameBooks
<1> QED BY <1>2, <1>3 DEF ts

\* The invariant but for what the handlers see to.
Quiescent(x, J) ==
    /\ x \in State
    /\ Held(x)
    /\ Filed(x)
    /\ \A i \in J : Waits(x, i, x.tasks[i])
    /\ \A i, j \in J : i # j => Beside(x.tasks[i], x.tasks[j])

\* A handler's new task takes its place beside the others.
LEMMA SleepsBase ==
    ASSUME NEW x, NEW i \in Slot, NEW t \in Task, Quiescent(x, Slot \ {i}),
           NEW y, y = [x EXCEPT !.tasks[i] = t],
           Waits(x, i, t),
           \A j \in Slot \ {i} : Beside(t, x.tasks[j]) /\ Beside(x.tasks[j], t),
           Tended(y, Slot), Queue(y, Slot)
    PROVE  Base(y, Slot)
<1>1. /\ x \in State /\ y \in State /\ y.tasks = [x.tasks EXCEPT ![i] = t]
      /\ SameHeld(x, y) /\ SameBooks(x, y)
  BY TaskSet DEF Quiescent
<1>2. y.tasks[i] = t /\ \A j \in Slot \ {i} : y.tasks[j] = x.tasks[j]
  BY <1>1, Fields
<1>3. Held(y) /\ Filed(y)
  BY <1>1 DEF Quiescent, Held, Filed, SameHeld, SameBooks, Live
<1>4. \A j \in Slot : \A u : Waits(x, j, u) => Waits(y, j, u)
  BY <1>1 DEF Waits, SameHeld, NoLive, Live
<1>5. \A j \in Slot : Waits(y, j, y.tasks[j])
  BY <1>2, <1>4 DEF Quiescent
<1>6. \A j, k \in Slot : j # k => Beside(y.tasks[j], y.tasks[k])
  <2> SUFFICES ASSUME NEW j \in Slot, NEW k \in Slot, j # k
               PROVE  Beside(y.tasks[j], y.tasks[k])
    OBVIOUS
  <2>1. CASE j = i
    BY <1>2, <2>1
  <2>2. CASE k = i
    BY <1>2, <2>2
  <2>3. CASE j # i /\ k # i
    BY <1>2, <2>3 DEF Quiescent
  <2> QED BY <2>1, <2>2, <2>3
<1> QED BY <1>1, <1>3, <1>5, <1>6 DEF Base

LEMMA SleepsOwn ==
    ASSUME NEW x \in State, NEW i \in Slot, NEW t \in Task,
           HeldOwn(x),
           \A j \in Slot \ {i} : WaitsOwn(x, x.tasks[j]),
           \A j, k \in Slot \ {i} : j # k => BesideOwn(x.tasks[j], x.tasks[k]),
           NEW y, y = [x EXCEPT !.tasks[i] = t],
           WaitsOwn(x, t),
           \A j \in Slot \ {i} : BesideOwn(t, x.tasks[j]) /\ BesideOwn(x.tasks[j], t),
           TendedOwn(y, Slot)
    PROVE  Own(y, Slot)
<1>1. /\ y \in State /\ y.tasks = [x.tasks EXCEPT ![i] = t]
      /\ SameHeld(x, y) /\ SameBooks(x, y)
  BY TaskSet
<1>2. y.tasks[i] = t /\ \A j \in Slot \ {i} : y.tasks[j] = x.tasks[j]
  BY <1>1, Fields
<1>3. HeldOwn(y)
  BY <1>1 DEF HeldOwn, SameHeld, SameBooks, Live
<1>4. \A u : WaitsOwn(x, u) => WaitsOwn(y, u)
  BY <1>1 DEF WaitsOwn, SameHeld, SameBooks, NoDrain
<1>5. \A j \in Slot : WaitsOwn(y, y.tasks[j])
  BY <1>2, <1>4
<1>6. \A j, k \in Slot : j # k => BesideOwn(y.tasks[j], y.tasks[k])
  <2> SUFFICES ASSUME NEW j \in Slot, NEW k \in Slot, j # k
               PROVE  BesideOwn(y.tasks[j], y.tasks[k])
    OBVIOUS
  <2>1. CASE j = i
    BY <1>2, <2>1
  <2>2. CASE k = i
    BY <1>2, <2>2
  <2>3. CASE j # i /\ k # i
    BY <1>2, <2>3
  <2> QED BY <2>1, <2>2, <2>3
<1> QED BY <1>3, <1>5, <1>6 DEF Own

\* What the handlers see to is seen to when one more sleeps.
LEMMA StillTended ==
    ASSUME NEW x \in State, NEW i \in Slot, NEW t \in Task,
           NEW y, y = [x EXCEPT !.tasks[i] = t]
    PROVE  /\ Tended(x, Slot \ {i}) => Tended(y, Slot)
           /\ Queue(x, Slot \ {i}) => Queue(y, Slot)
           /\ TendedOwn(x, Slot \ {i}) => TendedOwn(y, Slot)
<1>1. /\ y \in State /\ y.tasks = [x.tasks EXCEPT ![i] = t]
      /\ SameHeld(x, y) /\ SameBooks(x, y)
  BY TaskSet
<1>2. \A j \in Slot \ {i} : y.tasks[j] = x.tasks[j]
  BY <1>1, Fields
<1>3. Tended(x, Slot \ {i}) => Tended(y, Slot)
  BY <1>1, <1>2 DEF Tended, SameHeld
<1>4. Queue(x, Slot \ {i}) => Queue(y, Slot)
  BY <1>1, <1>2 DEF Queue, SameBooks
<1>5. TendedOwn(x, Slot \ {i}) => TendedOwn(y, Slot)
  BY <1>1, <1>2 DEF TendedOwn, SameHeld
<1> QED BY <1>3, <1>4, <1>5

\* A handler returns.
LEMMA ReturnBase ==
    ASSUME NEW x, NEW i \in Slot, Base(x, Slot \ {i})
    PROVE  Base(Return(x, i), Slot)
<1> DEFINE y == [x EXCEPT !.tasks[i] = NoTask]
<1>1. x \in State /\ Quiescent(x, Slot \ {i}) /\ x.count \in Nat
  BY Fields DEF Base, Quiescent
<1>2. Tended(y, Slot) /\ Queue(y, Slot)
  BY <1>1, NoTaskFacts, StillTended DEF Base
<1>3. Waits(x, i, NoTask)
  BY <1>1, NoTaskFacts, Sizes DEF Waits, Fits, Undone, StopsRec
<1>4. \A j \in Slot \ {i} : Beside(NoTask, x.tasks[j]) /\ Beside(x.tasks[j], NoTask)
  BY NoTaskFacts DEF Beside, StopsRec, Undone
<1>5. Base(y, Slot)
  <2> HIDE DEF y
  <2> QED BY <1>1, <1>2, <1>3, <1>4, NoTaskFacts, SleepsBase DEF y
<1> QED BY <1>5 DEF Return

LEMMA ReturnOwn ==
    ASSUME NEW x \in State, NEW i \in Slot, Own(x, Slot \ {i})
    PROVE  Own(Return(x, i), Slot)
<1> DEFINE y == [x EXCEPT !.tasks[i] = NoTask]
<1>2. TendedOwn(y, Slot)
  BY NoTaskFacts, StillTended DEF Own
<1>3. WaitsOwn(x, NoTask)
  BY NoTaskFacts DEF WaitsOwn
<1>4. \A j \in Slot \ {i} : BesideOwn(NoTask, x.tasks[j]) /\ BesideOwn(x.tasks[j], NoTask)
  BY NoTaskFacts DEF BesideOwn, Undone
<1>5. /\ HeldOwn(x) /\ \A j \in Slot \ {i} : WaitsOwn(x, x.tasks[j])
      /\ \A j, k \in Slot \ {i} : j # k => BesideOwn(x.tasks[j], x.tasks[k])
  BY DEF Own
<1>6. Own(y, Slot)
  <2> HIDE DEF y
  <2> QED BY <1>2, <1>3, <1>4, <1>5, NoTaskFacts, SleepsOwn DEF y
<1> QED BY <1>6 DEF Return

-----------------------------------------------------------------------------
(* What a step may change under the handlers that sleep.                     *)

\* Sessions, ledger and recorder are let go of.
LEMMA LetGo ==
    ASSUME NEW x, NEW y \in State, NEW J \in SUBSET Slot, Base(x, J),
           y.tasks = x.tasks, y.count = x.count, y.finished = x.finished,
           y.conn = x.conn, SameBooks(x, y),
           y.session \in {x.session, None}, y.ledger \in {x.ledger, None},
           y.recorder \in {x.recorder, None},
           \A c \in Conv : \/ y.ses[c] = x.ses[c] \/ y.ses[c] = "closed"
                           \/ x.ses[c] = "starting" /\ y.ses[c] = "failed",
           \A c \in Conv : Live(y, c) => y.session = c,
           \A c \in Conv : \/ y.rec[c] = x.rec[c]
                           \/ x.rec[c] = "opening" /\ y.rec[c] = "doomed",
           \A c \in Conv : y.rec[c] \in {"opening", "on"} => y.recorder = c
    PROVE  Base(y, J)
<1>1. x \in State /\ \A i \in J : x.tasks[i] \in Task
  BY Fields DEF Base
<1>2. Held(y)
  <2>1. Held(x)
    BY DEF Base
  <2>2. /\ y.session <= y.count /\ y.ledger <= y.count /\ y.recorder <= y.count
    <3>1. x.count \in Nat /\ None = 0
      BY <1>1, Fields, Sizes
    <3>2. x.session <= x.count /\ x.ledger <= x.count /\ x.recorder <= x.count
      BY <2>1 DEF Held
    <3> QED BY <3>1, <3>2
  <2>3. \A c \in Conv : Live(y, c) => y.session = c
    OBVIOUS
  <2>4. y.session # None => y.ledger \in {None, y.session}
    BY <2>1 DEF Held
  <2>5. \A c \in Conv : y.ledger = c \/ c > y.count => y.turns[c] = y.reported[c]
    BY <2>1, Sizes DEF Held, SameBooks
  <2> QED BY <2>1, <2>2, <2>3, <2>4, <2>5 DEF Held, SameBooks
<1>3. Filed(y)
  BY DEF Base, Filed, SameBooks
<1>4. ASSUME NEW i \in J PROVE Waits(y, i, y.tasks[i])
  <2> DEFINE t == x.tasks[i]
  <2>1. Waits(x, i, t) /\ t \in Task
    BY <1>1 DEF Base
  <2> HIDE DEF t
  <2>2. Fits(i, t) /\ t.conv <= y.count /\ (t.kind = "finish" => y.finished = "running")
    BY <2>1 DEF Waits
  <2>3. t.at # "idle" => t.conv \in Conv
    BY <2>2 DEF Fits
  <2>4. t.at = "closing" =>
          /\ NoLive(y)
          /\ y.ses[t.conv] \in {"draining", "closed"}
          /\ y.session \in {None, t.conv}
          /\ y.ledger \in {None, t.conv}
    BY <2>1, <2>3 DEF Waits, NoLive, Live
  <2>5. Undone(t) =>
          /\ y.count < MaxConvs
          /\ t.at # "closing" => y.session = None /\ y.recorder = None
    BY <2>1 DEF Waits
  <2>6. t.at = "starting" =>
          /\ y.session \in {None, t.conv}
          /\ y.ses[t.conv] \notin {"live", "draining"}
    BY <2>1, <2>3 DEF Waits
  <2>7. /\ t.at = "arming" => y.rec[t.conv] \in {"opening", "doomed"}
        /\ StopsRec(t) => y.rec[t.conv] = "stopping"
        /\ t.at = "catchStop" => y.recorder \in {None, t.conv}
    BY <2>1, <2>3 DEF Waits, StopsRec
  <2>8. Waits(y, i, t)
    BY <2>2, <2>4, <2>5, <2>6, <2>7 DEF Waits
  <2> QED BY <2>8 DEF t
<1>5. Tended(y, J)
  BY DEF Base, Tended
<1>6. Queue(y, J)
  BY DEF Base, Queue, SameBooks
<1> QED BY <1>2, <1>3, <1>4, <1>5, <1>6 DEF Base

LEMMA LetGoOwn ==
    ASSUME NEW x \in State, NEW y \in State, NEW J \in SUBSET Slot, Own(x, J),
           y.tasks = x.tasks, y.count = x.count, SameBooks(x, y),
           y.session \in {x.session, None}, y.ledger \in {x.ledger, None},
           \A c \in Conv : \/ y.ses[c] = x.ses[c] \/ y.ses[c] = "closed"
                           \/ x.ses[c] = "starting" /\ y.ses[c] = "failed",
           \A c \in Conv : Live(y, c) \/ y.ses[c] = "draining" => y.ledger = c
    PROVE  Own(y, J)
<1>1. HeldOwn(y)
  BY Sizes DEF Own, HeldOwn, SameBooks
<1>2. NoDrain(x) => NoDrain(y)
  BY DEF NoDrain
<1>3. \A i \in J : WaitsOwn(y, y.tasks[i])
  BY <1>2 DEF Own, WaitsOwn, SameBooks
<1>4. TendedOwn(y, J)
  BY DEF Own, TendedOwn
<1> QED BY <1>1, <1>3, <1>4 DEF Own

-----------------------------------------------------------------------------
(* Turns and saves.                                                         *)

\* All but the saves and the turns.
SameRest(x, y) ==
    /\ SameHeld(x, y) /\ y.tasks = x.tasks
    /\ y.told = x.told /\ y.filed = x.filed /\ y.unsaved = x.unsaved

LEMMA EnqueueFacts ==
    ASSUME NEW x \in State, NEW i \in Slot, NEW b \in BOOLEAN, x.ledger # None
    PROVE  /\ Enqueue(x, b, i) \in State
           /\ SameRest(x, Enqueue(x, b, i))
           /\ Enqueue(x, b, i).reported = x.reported
           /\ Enqueue(x, b, i).turns = x.turns
           /\ x.ledger \in Conv
           /\ [conv |-> x.ledger, turns |-> x.turns[x.ledger],
               awaited |-> b, slot |-> i] \in Save
           /\ Enqueue(x, b, i).saves =
                Append(x.saves, [conv |-> x.ledger, turns |-> x.turns[x.ledger],
                                 awaited |-> b, slot |-> i])
<1> DEFINE e == [conv |-> x.ledger, turns |-> x.turns[x.ledger], awaited |-> b, slot |-> i]
           q == Append(x.saves, e)
<1>1. x.ledger \in Conv /\ x.turns[x.ledger] \in 0..MaxTurns
  BY Fields
<1>2. e \in Save
  BY <1>1 DEF Save
<1> HIDE DEF e
<1>3. q \in Seq(Save)
  BY <1>2, Fields
<1>4. Enqueue(x, b, i) = [x EXCEPT !.saves = q]
  BY DEF Enqueue, e
<1> HIDE DEF q
<1>5. [x EXCEPT !.saves = q] \in State
  BY <1>3 DEF State
<1>6. /\ [x EXCEPT !.saves = q].saves = q
      /\ [x EXCEPT !.saves = q].reported = x.reported
      /\ [x EXCEPT !.saves = q].turns = x.turns
      /\ SameRest(x, [x EXCEPT !.saves = q])
  BY DEF State, SameRest, SameHeld
<1> QED BY <1>1, <1>2, <1>4, <1>5, <1>6 DEF e, q

LEMMA FiledAppend ==
    ASSUME NEW x \in State, NEW y \in State, NEW e \in Save, Filed(x),
           y.saves = Append(x.saves, e), e.turns = y.turns[e.conv],
           \A c \in Conv : c # e.conv => y.turns[c] = x.turns[c],
           y.filed = x.filed, y.unsaved = x.unsaved
    PROVE  Filed(y)
<1> DEFINE n == Len(x.saves)
<1>1. /\ n \in Nat /\ Len(y.saves) = n + 1
      /\ \A k \in 1..n : y.saves[k] = x.saves[k]
      /\ y.saves[n + 1] = e
  BY Fields, AppendProperties
<1> HIDE DEF n
<1>2. \A k \in 1..(n + 1) : k \in 1..n \/ k = n + 1
  BY <1>1
<1>3. \A k \in 1..n : k \in 1..(n + 1) /\ k < n + 1
  BY <1>1
<1>4. n + 1 \in 1..(n + 1)
  BY <1>1
<1> SUFFICES ASSUME NEW c \in Conv
             PROVE  /\ \A k \in 1..(n + 1) :
                         y.saves[k].conv = c /\ (\A m \in 1..(n + 1) : m > k => y.saves[m].conv # c)
                           => y.saves[k].turns = y.turns[c]
                    /\ (\A k \in 1..(n + 1) : y.saves[k].conv # c)
                         => y.unsaved[c] \/ y.filed[c] = y.turns[c]
  BY <1>1 DEF Filed
<1>5. CASE c = e.conv
  <2>1. ASSUME NEW k \in 1..n PROVE ~(\A m \in 1..(n + 1) : m > k => y.saves[m].conv # c)
    BY <1>1, <1>3, <1>4, <1>5
  <2> QED BY <1>1, <1>2, <1>4, <1>5, <2>1
<1>6. CASE c # e.conv
  <2>1. /\ \A k \in 1..n :
             x.saves[k].conv = c /\ (\A m \in 1..n : m > k => x.saves[m].conv # c)
               => x.saves[k].turns = x.turns[c]
        /\ (\A k \in 1..n : x.saves[k].conv # c)
             => x.unsaved[c] \/ x.filed[c] = x.turns[c]
    BY DEF Filed, n
  <2>2. y.turns[c] = x.turns[c] /\ y.saves[n + 1].conv # c
    BY <1>1, <1>6
  <2>3. ASSUME NEW k \in 1..(n + 1), y.saves[k].conv = c,
               \A m \in 1..(n + 1) : m > k => y.saves[m].conv # c
        PROVE  y.saves[k].turns = y.turns[c]
    <3>1. k \in 1..n
      BY <1>2, <2>2, <2>3
    <3>2. \A m \in 1..n : m > k => x.saves[m].conv # c
      BY <1>1, <1>3, <2>3
    <3> QED BY <1>1, <2>1, <2>2, <2>3, <3>1, <3>2
  <2>4. (\A k \in 1..(n + 1) : y.saves[k].conv # c)
             => y.unsaved[c] \/ y.filed[c] = y.turns[c]
    BY <1>1, <1>3, <2>1, <2>2
  <2> QED BY <2>3, <2>4
<1> QED BY <1>5, <1>6

LEMMA QueueAppend ==
    ASSUME NEW x \in State, NEW y \in State, NEW e \in Save, NEW J, Queue(x, J),
           y.saves = Append(x.saves, e), y.tasks = x.tasks, ~e.awaited
    PROVE  Queue(y, J)
<1> DEFINE n == Len(x.saves)
<1>1. /\ n \in Nat /\ Len(y.saves) = n + 1
      /\ \A k \in 1..n : y.saves[k] = x.saves[k]
      /\ y.saves[n + 1] = e
  BY Fields, AppendProperties
<1>2. \A k \in 1..Len(y.saves) : y.saves[k].awaited =>
        k \in 1..Len(x.saves) /\ y.saves[k] = x.saves[k]
  BY <1>1
<1> QED BY <1>2 DEF Queue

\* persist() when nobody waits for it.
LEMMA PersistFacts ==
    ASSUME NEW x \in State
    PROVE  /\ Persist(x) \in State
           /\ SameRest(x, Persist(x))
           /\ Persist(x).reported = x.reported /\ Persist(x).turns = x.turns
           /\ Filed(x) => Filed(Persist(x))
           /\ \A J : Queue(x, J) => Queue(Persist(x), J)
<1>1. CASE Unbilled(x)
  BY <1>1 DEF Persist, SameRest, SameHeld
<1>2. CASE ~Unbilled(x)
  <2> DEFINE e == [conv |-> x.ledger, turns |-> x.turns[x.ledger],
                   awaited |-> FALSE, slot |-> FinishSlot]
             y == Enqueue(x, FALSE, FinishSlot)
  <2>1. x.ledger # None /\ Persist(x) = y
    BY <1>2 DEF Unbilled, Persist
  <2>2. y \in State /\ SameRest(x, y) /\ y.reported = x.reported /\ y.turns = x.turns
        /\ e \in Save /\ y.saves = Append(x.saves, e)
    BY <2>1, Sizes, EnqueueFacts
  <2>3. ~e.awaited /\ e.turns = x.turns[e.conv]
    OBVIOUS
  <2> HIDE DEF e, y
  <2>4. Filed(x) => Filed(y)
    BY <2>2, <2>3, FiledAppend DEF SameRest
  <2>5. \A J : Queue(x, J) => Queue(y, J)
    BY <2>2, <2>3, QueueAppend DEF SameRest
  <2> QED BY <2>1, <2>2, <2>4, <2>5
<1> QED BY <1>1, <1>2

\* A turn is reported, and booked and saved if there is a ledger.
LEMMA OnUsageFacts ==
    ASSUME NEW x \in State, NEW c \in Conv, x.reported[c] < MaxTurns,
           x.ledger \in {None, c}, \A d \in Conv : x.turns[d] <= x.reported[d]
    PROVE  /\ OnUsage(x, c) \in State
           /\ SameRest(x, OnUsage(x, c))
           /\ OnUsage(x, c).reported = [x.reported EXCEPT ![c] = @ + 1]
           /\ OnUsage(x, c).turns = IF x.ledger = None THEN x.turns
                                    ELSE [x.turns EXCEPT ![c] = @ + 1]
           /\ Filed(x) => Filed(OnUsage(x, c))
           /\ \A J : Queue(x, J) => Queue(OnUsage(x, c), J)
<1> DEFINE rp == [x.reported EXCEPT ![c] = @ + 1]
           tn == [x.turns EXCEPT ![c] = @ + 1]
           y == [x EXCEPT !.reported = rp]
           z == [y EXCEPT !.turns = tn]
<1>1. /\ x.reported[c] \in Nat /\ x.turns[c] \in Nat /\ x.turns[c] <= x.reported[c]
      /\ x.reported \in [Conv -> 0..MaxTurns] /\ x.turns \in [Conv -> 0..MaxTurns]
  BY Fields, Sizes
<1>2. x.reported[c] + 1 \in 0..MaxTurns /\ x.turns[c] + 1 \in 0..MaxTurns
  BY <1>1, Sizes
<1>3. rp \in [Conv -> 0..MaxTurns] /\ tn \in [Conv -> 0..MaxTurns]
  BY <1>1, <1>2
<1>4. /\ tn[c] = x.turns[c] + 1 /\ \A d \in Conv : d # c => tn[d] = x.turns[d]
  BY <1>1
<1>5. OnUsage(x, c) =
        IF y.ledger = None THEN y ELSE Persist([y EXCEPT !.turns[y.ledger] = @ + 1])
  BY DEF OnUsage
<1>6. y.ledger = c => [y EXCEPT !.turns[y.ledger] = @ + 1] =
        [y EXCEPT !.turns = [y.turns EXCEPT ![c] = @ + 1]]
  OBVIOUS
<1> HIDE DEF rp, tn
<1>7. /\ y \in State /\ y.reported = rp /\ y.turns = x.turns /\ SameRest(x, y)
      /\ y.saves = x.saves /\ y.ledger = x.ledger
  <2>1. y \in State
    BY <1>3 DEF State
  <2>2. /\ y.reported = rp /\ y.turns = x.turns /\ SameRest(x, y)
        /\ y.saves = x.saves /\ y.ledger = x.ledger
    BY DEF State, SameRest, SameHeld
  <2> QED BY <2>1, <2>2
<1>8. [y.turns EXCEPT ![c] = @ + 1] = tn
  BY <1>7 DEF tn
<1> HIDE DEF y
<1>9. /\ z \in State /\ z.reported = rp /\ z.turns = tn /\ SameRest(y, z)
      /\ z.saves = x.saves
  <2>1. z \in State
    BY <1>3, <1>7 DEF State
  <2>2. /\ z.reported = y.reported /\ z.turns = tn /\ SameRest(y, z) /\ z.saves = y.saves
    BY <1>7 DEF State, SameRest, SameHeld
  <2> QED BY <1>7, <2>1, <2>2
<1>10. SameRest(x, z)
  BY <1>7, <1>9 DEF SameRest, SameHeld
<1> HIDE DEF z
<1>11. CASE x.ledger = None
  <2>1. OnUsage(x, c) = y
    BY <1>5, <1>7, <1>11
  <2>2. Filed(x) => Filed(y)
    BY <1>7 DEF Filed, SameRest
  <2>3. \A J : Queue(x, J) => Queue(y, J)
    BY <1>7 DEF Queue, SameRest
  <2> QED BY <1>7, <1>11, <2>1, <2>2, <2>3 DEF rp
<1>12. CASE x.ledger = c
  <2> DEFINE e == [conv |-> z.ledger, turns |-> z.turns[z.ledger],
                   awaited |-> FALSE, slot |-> FinishSlot]
             w == Enqueue(z, FALSE, FinishSlot)
  <2>1. OnUsage(x, c) = Persist(z) /\ c # None
    BY <1>5, <1>6, <1>7, <1>8, <1>12, Sizes DEF z
  <2>2. z.ledger = c /\ ~Unbilled(z)
    <3>1. z.ledger = c /\ z.turns[c] = x.turns[c] + 1
      BY <1>4, <1>9, <1>10, <1>12 DEF SameRest, SameHeld
    <3> QED BY <1>1, <2>1, <3>1 DEF Unbilled
  <2>3. OnUsage(x, c) = w
    BY <2>1, <2>2 DEF Persist
  <2>4. w \in State /\ SameRest(z, w) /\ w.reported = rp /\ w.turns = tn
        /\ e \in Save /\ w.saves = Append(x.saves, e)
    <3>1. z \in State /\ z.ledger # None /\ FinishSlot \in Slot /\ FALSE \in BOOLEAN
      BY <1>9, <2>1, <2>2, Sizes
    <3>2. /\ w \in State /\ SameRest(z, w) /\ w.reported = z.reported /\ w.turns = z.turns
          /\ e \in Save /\ w.saves = Append(z.saves, e)
      BY <3>1, EnqueueFacts
    <3> QED BY <1>9, <3>2
  <2>5. ~e.awaited /\ e.turns = tn[e.conv] /\ e.conv = c
    BY <1>9, <2>2
  <2> HIDE DEF e, w
  <2>6. SameRest(x, w)
    BY <1>10, <2>4 DEF SameRest, SameHeld
  <2>7. Filed(x) => Filed(w)
    BY <1>4, <2>4, <2>5, <2>6, FiledAppend DEF SameRest
  <2>8. \A J : Queue(x, J) => Queue(w, J)
    BY <2>4, <2>5, <2>6, QueueAppend DEF SameRest
  <2>9. x.ledger # None
    BY <1>12, <2>1
  <2> QED BY <2>3, <2>4, <2>6, <2>7, <2>8, <2>9 DEF rp, tn
<1> QED BY <1>11, <1>12

\* The invariant of a state that agrees with x but in the books.
LEMMA RestBase ==
    ASSUME NEW x, NEW y \in State, NEW J, Base(x, J), SameRest(x, y),
           \A c \in Conv : y.turns[c] <= y.reported[c], Filed(y), Queue(y, J),
           \A c \in Conv : x.ledger = c \/ c > x.count => y.turns[c] = y.reported[c]
    PROVE  Base(y, J)
<1>1. Held(y)
  <2>1. Held(x) /\ SameHeld(x, y)
    BY DEF Base, SameRest
  <2>2. \A c \in Conv : y.ledger = c \/ c > y.count => y.turns[c] = y.reported[c]
    BY <2>1 DEF SameHeld
  <2> QED BY <2>1, <2>2 DEF Held, SameHeld, Live
<1>2. \A i \in J : Waits(y, i, y.tasks[i])
  BY DEF Base, Waits, SameRest, SameHeld, NoLive, Live
<1>3. Tended(y, J)
  BY DEF Base, Tended, SameRest, SameHeld
<1> QED BY <1>1, <1>2, <1>3 DEF Base, SameRest

LEMMA OnUsageBase ==
    ASSUME NEW x, NEW J, Base(x, J), NEW c \in Conv, x.reported[c] < MaxTurns,
           x.ledger \in {None, c}, c <= x.count
    PROVE  /\ Base(OnUsage(x, c), J) /\ SameRest(x, OnUsage(x, c))
           /\ OnUsage(x, c).reported = [x.reported EXCEPT ![c] = @ + 1]
<1> DEFINE y == OnUsage(x, c)
<1>1. x \in State /\ \A d \in Conv : x.turns[d] <= x.reported[d]
  BY DEF Base, Held
<1>2. /\ y \in State /\ SameRest(x, y) /\ Filed(y) /\ Queue(y, J)
      /\ y.reported = [x.reported EXCEPT ![c] = @ + 1]
      /\ y.turns = IF x.ledger = None THEN x.turns
                                    ELSE [x.turns EXCEPT ![c] = @ + 1]
  BY <1>1, OnUsageFacts DEF Base
<1> HIDE DEF y
<1>3. \A d \in Conv : y.turns[d] <= y.reported[d]
  <2>1. \A d \in Conv : x.turns[d] \in Nat /\ x.reported[d] \in Nat
    BY <1>1, Fields, Sizes
  <2>2. x.turns \in [Conv -> 0..MaxTurns] /\ x.reported \in [Conv -> 0..MaxTurns]
    BY <1>1, Fields
  <2>3. y.reported[c] = x.reported[c] + 1 /\ \A d \in Conv : d # c => y.reported[d] = x.reported[d]
    BY <1>2, <2>2
  <2>4. (y.turns[c] = x.turns[c] + 1 \/ y.turns[c] = x.turns[c])
        /\ \A d \in Conv : d # c => y.turns[d] = x.turns[d]
    BY <1>2, <2>2
  <2> QED BY <1>1, <2>1, <2>3, <2>4
<1>4. \A d \in Conv : x.ledger = d \/ d > x.count => y.turns[d] = y.reported[d]
  <2>1. x.turns \in [Conv -> 0..MaxTurns] /\ x.reported \in [Conv -> 0..MaxTurns]
        /\ x.count \in Nat /\ c \in Nat /\ c # None
    BY <1>1, Fields, Sizes
  <2>2. y.reported[c] = x.reported[c] + 1 /\ \A d \in Conv : d # c => y.reported[d] = x.reported[d]
    BY <1>2, <2>1
  <2>3. \A d \in Conv : x.ledger = d \/ d > x.count => x.turns[d] = x.reported[d]
    BY DEF Base, Held
  <2>4. \A d \in Conv : d # c => y.turns[d] = x.turns[d]
    BY <1>2, <2>1
  <2>5. CASE x.ledger = None
    <3>1. \A d \in Conv : x.ledger = d \/ d > x.count => d # c
      BY <2>1, <2>5, Sizes
    <3> QED BY <2>2, <2>3, <2>4, <3>1
  <2>6. CASE x.ledger = c
    <3>1. y.turns[c] = x.turns[c] + 1
      BY <1>2, <2>1, <2>6
    <3>2. y.turns[c] = y.reported[c]
      BY <2>2, <2>3, <2>6, <3>1
    <3>3. \A d \in Conv : d # c /\ (x.ledger = d \/ d > x.count) => y.turns[d] = y.reported[d]
      BY <2>2, <2>3, <2>4
    <3> QED BY <3>2, <3>3
  <2> QED BY <2>5, <2>6
<1>5. Base(y, J)
  BY <1>2, <1>3, <1>4, RestBase
<1> QED BY <1>2, <1>5 DEF y

\* The turn that is booked is that of the session's own conversation, and nobody
\* holds a summary of it.
LEMMA OnUsageOwn ==
    ASSUME NEW x, NEW J, Base(x, J), Own(x, J), NEW c \in Conv,
           x.reported[c] < MaxTurns, Live(x, c) \/ x.ses[c] = "draining"
    PROVE  Own(OnUsage(x, c), J)
<1> DEFINE y == OnUsage(x, c)
<1>1. x \in State /\ \A d \in Conv : x.turns[d] <= x.reported[d]
  BY DEF Base, Held
<1>2. x.ledger = c /\ c # None
  BY Sizes DEF Own, HeldOwn
<1>3. /\ y \in State /\ SameRest(x, y)
      /\ y.reported = [x.reported EXCEPT ![c] = @ + 1]
      /\ y.turns = [x.turns EXCEPT ![c] = @ + 1]
  BY <1>1, <1>2, OnUsageFacts
<1> HIDE DEF y
<1>4. x.turns = x.reported
  <2>1. x.turns \in [Conv -> 0..MaxTurns] /\ x.reported \in [Conv -> 0..MaxTurns]
    BY <1>1, Fields
  <2> QED BY <2>1 DEF Own, HeldOwn
<1>5. \A d \in Conv : d # c => y.turns[d] = x.turns[d]
  BY <1>1, <1>3, Fields
<1>6. HeldOwn(y)
  BY <1>2, <1>3, <1>4, <1>5 DEF Own, HeldOwn, SameRest, SameHeld, Live
<1>7. \A i \in J : WaitsOwn(y, y.tasks[i])
  <2>1. x.session # None \/ ~NoDrain(x)
    BY <1>2 DEF Base, Held, NoDrain
  <2>2. \A i \in J : x.tasks[i].at \notin {"recStop", "unlink", "saving"}
    BY <2>1 DEF Own, WaitsOwn
  <2> QED BY <1>3, <2>2 DEF Own, WaitsOwn, SameRest, SameHeld, NoDrain
<1>8. \A i, j \in J : i # j => BesideOwn(y.tasks[i], y.tasks[j])
  BY <1>3 DEF Own, SameRest
<1>9. TendedOwn(y, J)
  BY <1>3 DEF Own, TendedOwn, SameRest, SameHeld
<1> QED BY <1>6, <1>7, <1>8, <1>9 DEF Own, y

-----------------------------------------------------------------------------
(* A handler at work.                                                       *)

\* Handler i, of kind k, may run on from x.
Runs(x, i, k) ==
    /\ i \in Slot /\ k \in {"start", "end", "stop", "finish"}
    /\ k = "finish" <=> i = FinishSlot
    /\ k = "finish" => x.finished = "running"
    /\ k \in {"start", "end"} =>
          \A j \in Slot \ {i} : x.tasks[j].kind \notin {"start", "end"}
    /\ k = "start" =>
          /\ x.count < MaxConvs
          /\ \A j \in Slot \ {i} : x.tasks[j].at # "closing"
          /\ ~Crossed => \A j \in Slot \ {i} : x.tasks[j].kind \in {"none", "arm"}
    /\ \/ Crossed
       \/ k = "stop" /\ x.recorder = None
       \/ \A j \in Slot \ {i} : ~Undone(x.tasks[j])

\* The session is put away, and handler i goes on.
Clear(x, i, k) ==
    /\ Base(x, Slot \ {i})
    /\ Runs(x, i, k)
    /\ k = "start" => x.session = None
    /\ ~Crossed => Own(x, Slot \ {i}) /\ NoDrain(x) /\ x.session = None

\* The recorder is let go of, or it is one that somebody else will.
Parted(x, i, k) ==
    /\ k = "start" => x.recorder = None
    /\ x.recorder # None =>
          x.session # None \/ \E j \in Slot \ {i} : x.tasks[j].at = "catchStop"

LEMMA NobodyLive ==
    ASSUME NEW x, Held(x), x.session = None
    PROVE  NoLive(x)
BY Sizes DEF Held, NoLive

\* createSession(), once the old conversation is put away.
LEMMA CreateInv ==
    ASSUME NEW x, NEW i, Clear(x, i, "start"), x.recorder = None
    PROVE  Inv(CreateSession(x, i))
<1> DEFINE c == x.count + 1
           ss == [x.ses EXCEPT ![c] = "starting"]
           rr == [x.rec EXCEPT ![c] = "idle"]
           y == [x EXCEPT !.count = c, !.session = c, !.ledger = c, !.recorder = c,
                          !.ses = ss, !.rec = rr]
           t == [kind |-> "start", at |-> "starting", conv |-> c, sum |-> 0]
           J == Slot \ {i}
<1>1. /\ x \in State /\ Runs(x, i, "start") /\ i \in Slot /\ x.count \in Nat
      /\ x.count < MaxConvs /\ NoLive(x) /\ J \in SUBSET Slot
      /\ \A j \in J : x.tasks[j] \in Task
      /\ \A j \in J : x.tasks[j].kind \notin {"start", "end"} /\ x.tasks[j].at # "closing"
      /\ ~Crossed => \A j \in J : x.tasks[j].kind \in {"none", "arm"}
  <2>1. x \in State /\ Runs(x, i, "start")
    BY DEF Clear, Base
  <2>2. NoLive(x)
    BY NobodyLive DEF Clear, Base
  <2> QED BY <2>1, <2>2, Fields DEF Runs
<1>2. c \in Conv /\ c \in 0..MaxConvs /\ c # None /\ c = x.count + 1
  BY <1>1, Sizes DEF Conv
<1>3. CreateSession(x, i) = [y EXCEPT !.tasks[i] = t]
  BY DEF CreateSession, Sleep
<1>4. t \in Task /\ t.kind = "start" /\ t.at = "starting" /\ t.conv = c
  BY <1>2, Sizes DEF Task
<1> HIDE DEF c, t
<1>5. /\ ss \in [Conv -> {"none", "starting", "live", "failed", "draining", "closed"}]
      /\ rr \in [Conv -> {"none", "idle", "opening", "doomed", "on", "stopping", "done"}]
      /\ ss[c] = "starting" /\ rr[c] = "idle"
      /\ \A d \in Conv : d # c => ss[d] = x.ses[d] /\ rr[d] = x.rec[d]
  BY <1>1, <1>2, Fields
<1> HIDE DEF ss, rr
<1>6. y \in State
  <2>1. c \in Conv \cup {None}
    BY <1>2
  <2> DEFINE a == [x EXCEPT !.count = c, !.session = c, !.ledger = c, !.recorder = c]
  <2>2. a \in State
    <3> DEFINE b == [x EXCEPT !.count = c, !.session = c]
    <3>1. x \in State /\ c \in 0..MaxConvs
      BY <1>1, <1>2
    <3>2. b \in State
      BY <2>1, <3>1 DEF State
    <3>3. a = [b EXCEPT !.ledger = c, !.recorder = c]
      BY <3>1 DEF State
    <3> HIDE DEF a, b
    <3>4. [b EXCEPT !.ledger = c, !.recorder = c] \in State
      BY <2>1, <3>2 DEF State
    <3> QED BY <3>3, <3>4
  <2>3. y = [a EXCEPT !.ses = ss, !.rec = rr]
    BY <1>1 DEF State
  <2> HIDE DEF a, y
  <2>4. [a EXCEPT !.ses = ss, !.rec = rr] \in State
    BY <1>5, <2>2 DEF State
  <2> QED BY <2>3, <2>4
<1>7. /\ y.count = c /\ y.session = c /\ y.ledger = c /\ y.recorder = c
      /\ y.ses = ss /\ y.rec = rr /\ y.tasks = x.tasks
      /\ y.conn = x.conn /\ y.finished = x.finished /\ SameBooks(x, y)
  BY <1>1 DEF State, SameBooks
<1> HIDE DEF y
<1>8. \A j \in J : x.tasks[j].conv <= x.count /\ x.tasks[j].conv # c /\ Waits(x, j, x.tasks[j])
  <2>1. \A j \in J : Waits(x, j, x.tasks[j]) /\ x.tasks[j].conv \in Nat
    BY <1>1, TaskFields, Sizes DEF Clear, Base
  <2> QED BY <1>1, <1>2, <2>1 DEF Waits
<1>9. Held(y)
  <2>1. Held(x)
    BY DEF Clear, Base
  <2>2. c <= c
    BY <1>1, <1>2
  <2>3. \A d \in Conv : Live(y, d) => d = c
    BY <1>1, <1>5, <1>7 DEF NoLive, Live
  <2>4. \A d \in Conv : y.rec[d] \notin {"opening", "on"}
    BY <1>5, <1>7, <2>1, Sizes DEF Held
  <2>5. \A d \in Conv : d = c \/ d > c => y.turns[d] = y.reported[d]
    <3>1. \A d \in Conv : d = c \/ d > c => d > x.count
      BY <1>1, <1>2, Sizes
    <3>2. \A d \in Conv : d > x.count => x.turns[d] = x.reported[d]
      BY <2>1 DEF Held
    <3> QED BY <1>7, <3>1, <3>2 DEF SameBooks
  <2>6. \A d \in Conv : y.turns[d] <= y.reported[d]
    BY <1>7, <2>1 DEF Held, SameBooks
  <2> QED BY <1>7, <2>2, <2>3, <2>4, <2>1, <2>5, <2>6 DEF Held
<1>10. Filed(y)
  BY <1>7 DEF Clear, Base, Filed, SameBooks
<1>11. ASSUME NEW j \in J PROVE Waits(y, j, y.tasks[j])
  <2> DEFINE u == x.tasks[j]
  <2>1. /\ Waits(x, j, u) /\ u.conv # c /\ u.kind # "start" /\ u.at # "closing"
        /\ u.conv <= c /\ u \in Task
    <3>1. u.conv \in Nat /\ u.conv <= x.count
      BY <1>1, <1>8, TaskFields, Sizes
    <3> QED BY <1>1, <1>2, <1>8, <3>1
  <2> HIDE DEF u
  <2>2. Fits(j, u) /\ (u.at # "idle" => u.conv \in Conv)
    BY <2>1 DEF Waits, Fits
  <2>3. u.at \notin {"starting", "catchStop"} /\ ~Undone(u)
    BY <2>1, <2>2 DEF Fits, Undone
  <2>4. u.at \in {"arming", "recStop"} => y.rec[u.conv] = x.rec[u.conv]
    BY <1>5, <1>7, <2>1, <2>2
  <2>5. Waits(y, j, u)
    BY <1>7, <2>1, <2>2, <2>3, <2>4 DEF Waits, StopsRec
  <2> QED BY <1>7, <2>5 DEF u
<1>12. Quiescent(y, J)
  BY <1>6, <1>7, <1>9, <1>10, <1>11 DEF Clear, Base, Quiescent
<1>13. Tended(y, J) /\ Queue(y, J)
  <2>1. Tended(x, J) /\ Queue(x, J)
    BY DEF Clear, Base
  <2>2. \A d \in Conv : y.rec[d] = x.rec[d] \/ y.rec[d] = "idle"
    BY <1>5, <1>7
  <2>3. Tended(y, J)
    BY <1>7, <2>1, <2>2 DEF Tended
  <2> QED BY <1>7, <2>1, <2>3 DEF Queue, SameBooks
<1>14. Waits(y, i, t)
  <2>1. Fits(i, t) /\ ~Undone(t) /\ ~StopsRec(t)
    BY <1>1, <1>2, <1>4 DEF Fits, Runs, Undone, StopsRec
  <2> QED BY <1>1, <1>2, <1>4, <1>5, <1>7, <2>1 DEF Waits
<1>15. \A j \in J : Beside(t, x.tasks[j]) /\ Beside(x.tasks[j], t)
  BY <1>1, <1>4 DEF Beside, Undone, StopsRec
<1> DEFINE z == [y EXCEPT !.tasks[i] = t]
<1>16. Tended(z, Slot) /\ Queue(z, Slot)
  BY <1>1, <1>4, <1>6, <1>13, StillTended
<1>17. Base(z, Slot)
  <2> HIDE DEF z
  <2> QED BY <1>1, <1>4, <1>7, <1>12, <1>14, <1>15, <1>16, SleepsBase DEF z
<1>18. HasSession(z)
  <2>1. z.session = c
    BY <1>1, <1>4, <1>6, <1>7, TaskSet DEF SameHeld
  <2> QED BY <1>2, <2>1 DEF HasSession
<1>19. ASSUME ~Crossed PROVE Own(z, Slot)
  <2>1. Own(x, J) /\ NoDrain(x)
    BY <1>19 DEF Clear
  <2>2. NoDrain(y)
    BY <1>5, <1>7, <2>1 DEF NoDrain
  <2>3. HeldOwn(y)
    <3>1. \A d \in Conv : Live(y, d) => d = c
      BY <1>1, <1>5, <1>7 DEF NoLive, Live
    <3>2. \A d \in Conv : d <= x.count => d # c /\ d <= c
      BY <1>1, <1>2, Sizes
    <3> QED BY <1>7, <2>1, <2>2, <3>1, <3>2 DEF HeldOwn, Own, NoDrain, SameBooks
  <2>4. \A j \in J : x.tasks[j].at \in {"idle", "arming"}
    BY <1>1, <1>8, <1>19, TaskFields DEF Waits, Fits
  <2>5. \A j \in J : WaitsOwn(y, y.tasks[j])
    BY <1>7, <2>4 DEF WaitsOwn
  <2>6. \A j, k \in J : j # k => BesideOwn(y.tasks[j], y.tasks[k])
    BY <1>7, <2>1 DEF Own
  <2>7. WaitsOwn(y, t)
    BY <1>4, <2>2 DEF WaitsOwn
  <2>8. \A j \in J : BesideOwn(t, y.tasks[j]) /\ BesideOwn(y.tasks[j], t)
    BY <1>1, <1>4, <1>7, <1>19 DEF BesideOwn, Undone
  <2>9. TendedOwn(z, Slot)
    <3>1. TendedOwn(y, J)
      BY <2>2 DEF TendedOwn, NoDrain
    <3> QED BY <1>1, <1>4, <1>6, <3>1, StillTended
  <2> HIDE DEF z
  <2> QED BY <1>1, <1>4, <1>6, <2>3, <2>5, <2>6, <2>7, <2>8, <2>9, SleepsOwn DEF z
<1> QED BY <1>3, <1>17, <1>18, <1>19 DEF Inv, z, y, ss, rr

\* All but the recorder's state.
LEMMA StopRecorderFacts ==
    ASSUME NEW x \in State, NEW c \in Conv
    PROVE  /\ StopRecorder(x, c) \in State
           /\ StopRecorder(x, c).tasks = x.tasks
           /\ StopRecorder(x, c).count = x.count
           /\ StopRecorder(x, c).finished = x.finished
           /\ StopRecorder(x, c).conn = x.conn
           /\ StopRecorder(x, c).session = x.session
           /\ StopRecorder(x, c).ledger = x.ledger
           /\ StopRecorder(x, c).recorder = x.recorder
           /\ StopRecorder(x, c).ses = x.ses
           /\ SameBooks(x, StopRecorder(x, c))
           /\ StopRecorder(x, c).rec[c] = (CASE x.rec[c] = "on"      -> "stopping"
                                             [] x.rec[c] = "opening" -> "doomed"
                                             [] OTHER                -> x.rec[c])
           /\ \A d \in Conv : d # c => StopRecorder(x, c).rec[d] = x.rec[d]
<1> DEFINE v == CASE x.rec[c] = "on"      -> "stopping"
                  [] x.rec[c] = "opening" -> "doomed"
                  [] OTHER                -> x.rec[c]
           rr == [x.rec EXCEPT ![c] = v]
<1>1. v \in {"none", "idle", "opening", "doomed", "on", "stopping", "done"}
  <2>1. x.rec[c] \in {"none", "idle", "opening", "doomed", "on", "stopping", "done"}
    BY Fields
  <2> QED BY <2>1
<1>2. StopRecorder(x, c) = [x EXCEPT !.rec = rr]
  BY DEF StopRecorder
<1> HIDE DEF v
<1>3. /\ rr \in [Conv -> {"none", "idle", "opening", "doomed", "on", "stopping", "done"}]
      /\ rr[c] = v /\ \A d \in Conv : d # c => rr[d] = x.rec[d]
  BY <1>1, Fields
<1> HIDE DEF rr
<1>4. [x EXCEPT !.rec = rr] \in State
  BY <1>3 DEF State
<1>5. /\ [x EXCEPT !.rec = rr].rec = rr
      /\ [x EXCEPT !.rec = rr].tasks = x.tasks /\ [x EXCEPT !.rec = rr].count = x.count
      /\ [x EXCEPT !.rec = rr].finished = x.finished /\ [x EXCEPT !.rec = rr].conn = x.conn
      /\ [x EXCEPT !.rec = rr].session = x.session /\ [x EXCEPT !.rec = rr].ledger = x.ledger
      /\ [x EXCEPT !.rec = rr].recorder = x.recorder /\ [x EXCEPT !.rec = rr].ses = x.ses
      /\ SameBooks(x, [x EXCEPT !.rec = rr])
  BY DEF State, SameBooks
<1> QED BY <1>2, <1>3, <1>4, <1>5 DEF v

\* The recorder is told to stop and has files to close: handler i waits for them.
LEMMA RecStopBase ==
    ASSUME NEW x, NEW i \in Slot, Base(x, Slot \ {i}), x.recorder # None,
           x.rec[x.recorder] = "on", NEW y, NEW t \in Task,
           \/ y = StopRecorder(x, x.recorder)
           \/ y = StopRecorder([x EXCEPT !.recorder = None], x.recorder),
           StopsRec(t), t.conv = x.recorder, Fits(i, t),
           t.kind = "finish" => x.finished = "running",
           Undone(t) => x.count < MaxConvs /\ y.session = None /\ y.recorder = None,
           t.kind \in {"start", "end"} =>
             \A j \in Slot \ {i} : x.tasks[j].kind \notin {"start", "end"},
           Undone(t) => \A j \in Slot \ {i} : x.tasks[j].at # "closing",
           y.recorder = None \/ \A j \in Slot \ {i} : x.tasks[j].kind # "start"
    PROVE  Base([y EXCEPT !.tasks[i] = t], Slot) /\ y \in State
<1> DEFINE c == x.recorder
           x1 == [x EXCEPT !.recorder = None]
           J == Slot \ {i}
<1>1. x \in State /\ c \in Conv
  BY Fields DEF Base
<1>2. /\ x1 \in State /\ x1.recorder = None /\ x1.session = x.session /\ x1.ledger = x.ledger
      /\ x1.tasks = x.tasks /\ x1.count = x.count /\ x1.finished = x.finished
      /\ x1.conn = x.conn /\ x1.ses = x.ses /\ x1.rec = x.rec /\ SameBooks(x, x1)
  <2>1. x1 \in State
    BY <1>1 DEF State
  <2> QED BY <1>1, <2>1 DEF State, SameBooks
<1> HIDE DEF x1
<1>3. y = StopRecorder(x, c) \/ y = StopRecorder(x1, c)
  BY DEF x1
<1> HIDE DEF c
<1>4. /\ y \in State /\ y.tasks = x.tasks /\ y.count = x.count /\ y.finished = x.finished
      /\ y.conn = x.conn /\ y.session = x.session /\ y.ledger = x.ledger /\ y.ses = x.ses
      /\ y.recorder \in {c, None} /\ SameBooks(x, y)
      /\ y.rec[c] = "stopping" /\ \A d \in Conv : d # c => y.rec[d] = x.rec[d]
  <2>1. x.rec[c] = "on" /\ x.recorder = c
    BY DEF c
  <2>2. CASE y = StopRecorder(x, c)
    BY <1>1, <2>1, <2>2, StopRecorderFacts DEF SameBooks
  <2>3. CASE y = StopRecorder(x1, c)
    BY <1>1, <1>2, <2>1, <2>3, StopRecorderFacts DEF SameBooks
  <2> QED BY <1>3, <2>2, <2>3
<1>5. x.recorder = c /\ x.rec[c] = "on"
  BY DEF c
<1>6. Held(y)
  <2>1. Held(x) /\ x.count \in Nat /\ None = 0
    BY <1>1, Fields, Sizes DEF Base
  <2>2. \A d \in Conv : y.rec[d] \notin {"opening", "on"}
    BY <1>4, <1>5, <2>1 DEF Held
  <2>3. y.recorder <= y.count
    BY <1>4, <1>5, <2>1 DEF Held
  <2> QED BY <1>4, <2>1, <2>2, <2>3 DEF Held, Live, SameBooks
<1>7. Filed(y)
  BY <1>4 DEF Base, Filed, SameBooks
<1>8. ASSUME NEW j \in J PROVE Waits(y, j, y.tasks[j])
  <2> DEFINE u == x.tasks[j]
  <2>1. Waits(x, j, u) /\ u \in Task
    BY <1>1, Fields DEF Base
  <2> HIDE DEF u
  <2>2. Fits(j, u) /\ (u.at # "idle" => u.conv \in Conv)
    BY <2>1 DEF Waits, Fits
  <2>3. u.at = "arming" => y.rec[u.conv] = x.rec[u.conv]
    BY <1>4, <1>5, <2>1, <2>2 DEF Waits
  <2>4. StopsRec(u) => y.rec[u.conv] = x.rec[u.conv]
    BY <1>4, <1>5, <2>1, <2>2 DEF Waits, StopsRec
  <2>5. Undone(u) => x.recorder = None \/ u.at = "closing"
    BY <2>1 DEF Waits
  <2>6. Undone(u) => u.at = "closing"
    BY <1>1, <1>5, <2>5, Sizes
  <2>7. u.at = "catchStop" => y.recorder \in {None, u.conv}
    BY <1>4, <1>5, <2>1 DEF Waits
  <2>8. NoLive(x) => NoLive(y)
    BY <1>4 DEF NoLive, Live
  <2>9. Waits(y, j, u)
    BY <1>4, <2>1, <2>2, <2>3, <2>4, <2>6, <2>7, <2>8 DEF Waits
  <2> QED BY <1>4, <2>9 DEF u
<1>9. Quiescent(y, J)
  BY <1>4, <1>6, <1>7, <1>8 DEF Base, Quiescent
<1>10. \A j \in J : ~(StopsRec(x.tasks[j]) /\ x.tasks[j].conv = c)
  BY <1>5 DEF Base, Waits
<1>11. \A j \in J : Beside(t, y.tasks[j]) /\ Beside(y.tasks[j], t)
  BY <1>4, <1>5, <1>10 DEF Beside, Undone, StopsRec
<1>12. Waits(y, i, t)
  <2>1. c <= y.count
    BY <1>4, <1>5 DEF Base, Held
  <2>2. t.at # "closing" /\ t.at # "starting" /\ t.at # "arming" /\ t.conv = c
    BY <1>5 DEF StopsRec
  <2>3. t.kind = "finish" => y.finished = "running"
    BY <1>4
  <2>4. Undone(t) => y.count < MaxConvs /\ y.session = None /\ y.recorder = None
    BY <1>4
  <2>5. t.at = "catchStop" => y.recorder \in {None, t.conv}
    BY <1>4, <2>2
  <2>6. StopsRec(t) => y.rec[t.conv] = "stopping"
    BY <1>4, <2>2
  <2> QED BY <2>1, <2>2, <2>3, <2>4, <2>5, <2>6 DEF Waits
<1> DEFINE z == [y EXCEPT !.tasks[i] = t]
<1>13. /\ z \in State /\ z.tasks = [x.tasks EXCEPT ![i] = t] /\ SameHeld(y, z) /\ SameBooks(y, z)
  BY <1>4, TaskSet
<1> HIDE DEF z
<1>14. z.tasks[i] = t /\ \A j \in J : z.tasks[j] = x.tasks[j]
  BY <1>1, <1>13, Fields
<1>15. Tended(z, Slot)
  <2>1. Tended(x, J)
    BY DEF Base
  <2>2. z.rec[c] = "stopping" /\ \A d \in Conv : d # c => z.rec[d] = x.rec[d]
    BY <1>4, <1>13 DEF SameHeld
  <2>3. t.conv = c
    BY <1>5
  <2> QED BY <1>14, <2>1, <2>2, <2>3 DEF Tended
<1>16. Queue(z, Slot)
  BY <1>4, <1>13, <1>14 DEF Base, Queue, SameBooks
<1>17. Base(z, Slot)
  BY <1>4, <1>9, <1>11, <1>12, <1>15, <1>16, SleepsBase DEF z
<1> QED BY <1>4, <1>17 DEF z

LEMMA RecStopOwn ==
    ASSUME NEW x \in State, NEW i \in Slot, Own(x, Slot \ {i}), x.recorder # None,
           NEW y, NEW t \in Task,
           \/ y = StopRecorder(x, x.recorder)
           \/ y = StopRecorder([x EXCEPT !.recorder = None], x.recorder),
           StopsRec(t), WaitsOwn(x, t),
           \A j \in Slot \ {i} : BesideOwn(t, x.tasks[j]) /\ BesideOwn(x.tasks[j], t)
    PROVE  Own([y EXCEPT !.tasks[i] = t], Slot)
<1> DEFINE c == x.recorder
           x1 == [x EXCEPT !.recorder = None]
           J == Slot \ {i}
<1>1. c \in Conv
  BY Fields
<1>2. /\ x1 \in State /\ x1.session = x.session /\ x1.ledger = x.ledger
      /\ x1.tasks = x.tasks /\ x1.count = x.count /\ x1.ses = x.ses /\ SameBooks(x, x1)
  <2>1. x1 \in State
    BY <1>1 DEF State
  <2> QED BY <1>1, <2>1 DEF State, SameBooks
<1> HIDE DEF x1
<1>3. y = StopRecorder(x, c) \/ y = StopRecorder(x1, c)
  BY DEF x1
<1> HIDE DEF c
<1>4. /\ y \in State /\ y.tasks = x.tasks /\ y.count = x.count
      /\ y.session = x.session /\ y.ledger = x.ledger /\ y.ses = x.ses /\ SameBooks(x, y)
  BY <1>1, <1>2, <1>3, StopRecorderFacts DEF SameBooks
<1>5. HeldOwn(y)
  BY <1>4 DEF Own, HeldOwn, Live, SameBooks
<1>6. \A u : WaitsOwn(x, u) => WaitsOwn(y, u)
  BY <1>4 DEF WaitsOwn, NoDrain, SameBooks
<1>7. \A j \in J : WaitsOwn(y, y.tasks[j])
  BY <1>4, <1>6 DEF Own
<1>8. \A j, k \in J : j # k => BesideOwn(y.tasks[j], y.tasks[k])
  BY <1>4 DEF Own
<1>9. TendedOwn(y, J)
  BY <1>4 DEF Own, TendedOwn
<1>10. TendedOwn([y EXCEPT !.tasks[i] = t], Slot)
  BY <1>4, <1>9, StillTended
<1>11. WaitsOwn(y, t) /\ \A j \in J : BesideOwn(t, y.tasks[j]) /\ BesideOwn(y.tasks[j], t)
  BY <1>4, <1>6
<1> DEFINE z == [y EXCEPT !.tasks[i] = t]
<1>12. TendedOwn(z, Slot)
  BY <1>10
<1>13. Own(z, Slot)
  <2> HIDE DEF z
  <2> QED BY <1>4, <1>5, <1>7, <1>8, <1>11, <1>12, SleepsOwn DEF z
<1> QED BY <1>13

\* A recorder that has no files to close is let go of.
LEMMA LoseRecorder ==
    ASSUME NEW x, NEW J \in SUBSET Slot, Base(x, J), x.recorder # None,
           x.rec[x.recorder] # "on",
           NEW y, \/ y = [StopRecorder(x, x.recorder) EXCEPT !.recorder = None]
                  \/ y = StopRecorder([x EXCEPT !.recorder = None], x.recorder)
    PROVE  /\ Base(y, J) /\ y.recorder = None /\ y.session = x.session
           /\ y.tasks = x.tasks /\ y.count = x.count /\ y.finished = x.finished
           /\ y.ses = x.ses
           /\ Own(x, J) => Own(y, J)
<1> DEFINE c == x.recorder
           x1 == [x EXCEPT !.recorder = None]
           x2 == StopRecorder(x, c)
<1>1. x \in State /\ c \in Conv
  BY Fields DEF Base
<1>2. /\ x1 \in State /\ x1.recorder = None /\ x1.session = x.session /\ x1.ledger = x.ledger
      /\ x1.tasks = x.tasks /\ x1.count = x.count /\ x1.finished = x.finished
      /\ x1.conn = x.conn /\ x1.ses = x.ses /\ x1.rec = x.rec /\ SameBooks(x, x1)
  <2>1. x1 \in State
    BY <1>1 DEF State
  <2> QED BY <1>1, <2>1 DEF State, SameBooks
<1> HIDE DEF x1
<1>3. y = [x2 EXCEPT !.recorder = None] \/ y = StopRecorder(x1, c)
  BY DEF x1
<1>4. x.recorder = c /\ x.rec[c] # "on"
  OBVIOUS
<1> HIDE DEF c
<1>5. /\ x2 \in State /\ x2.recorder = c /\ x2.session = x.session /\ x2.ledger = x.ledger
      /\ x2.tasks = x.tasks /\ x2.count = x.count /\ x2.finished = x.finished
      /\ x2.conn = x.conn /\ x2.ses = x.ses /\ SameBooks(x, x2)
      /\ \/ x2.rec[c] = x.rec[c] /\ x.rec[c] # "opening"
         \/ x.rec[c] = "opening" /\ x2.rec[c] = "doomed"
      /\ \A d \in Conv : d # c => x2.rec[d] = x.rec[d]
  BY <1>1, <1>4, StopRecorderFacts
<1> HIDE DEF x2
<1>6. /\ y \in State /\ y.recorder = None /\ y.session = x.session /\ y.ledger = x.ledger
      /\ y.tasks = x.tasks /\ y.count = x.count /\ y.finished = x.finished
      /\ y.conn = x.conn /\ y.ses = x.ses /\ SameBooks(x, y)
      /\ \/ y.rec[c] = x.rec[c] /\ x.rec[c] # "opening"
         \/ x.rec[c] = "opening" /\ y.rec[c] = "doomed"
      /\ \A d \in Conv : d # c => y.rec[d] = x.rec[d]
  <2>1. CASE y = [x2 EXCEPT !.recorder = None]
    <3>1. y \in State
      BY <1>5, <2>1 DEF State
    <3>2. /\ y.recorder = None /\ y.session = x2.session /\ y.ledger = x2.ledger
          /\ y.tasks = x2.tasks /\ y.count = x2.count /\ y.finished = x2.finished
          /\ y.conn = x2.conn /\ y.ses = x2.ses /\ y.rec = x2.rec /\ SameBooks(x2, y)
      BY <1>5, <2>1 DEF State, SameBooks
    <3> QED BY <1>5, <3>1, <3>2 DEF SameBooks
  <2>2. CASE y = StopRecorder(x1, c)
    BY <1>1, <1>2, <1>4, <2>2, StopRecorderFacts DEF SameBooks
  <2> QED BY <1>3, <2>1, <2>2
<1>7. Held(x)
  BY DEF Base
<1>8. \A d \in Conv : y.rec[d] \notin {"opening", "on"}
  BY <1>4, <1>6, <1>7 DEF Held
<1>9. \A d \in Conv : Live(y, d) => y.session = d
  BY <1>6, <1>7 DEF Held, Live
<1>10. Base(y, J)
  BY <1>4, <1>6, <1>8, <1>9, LetGo
<1>11. ASSUME Own(x, J) PROVE Own(y, J)
  <2>1. \A d \in Conv : Live(y, d) \/ y.ses[d] = "draining" => y.ledger = d
    BY <1>6, <1>11 DEF Own, HeldOwn, Live
  <2> QED BY <1>1, <1>6, <1>11, <2>1, LetGoOwn
<1> QED BY <1>6, <1>10, <1>11

\* The catch of "start": what it created is dropped.
LEMMA StartFailsInv ==
    ASSUME NEW x, NEW i \in Slot \ {FinishSlot}, Base(x, Slot \ {i}), NoLive(x),
           \A j \in Slot \ {i} : x.tasks[j].kind \notin {"start", "end"},
           ~Crossed => Own(x, Slot \ {i}) /\ NoDrain(x)
    PROVE  Inv(StartFails(x, i))
<1> DEFINE J == Slot \ {i}
           y == [x EXCEPT !.session = None, !.ledger = None]
           c == y.recorder
           t == [kind |-> "start", at |-> "catchStop", conv |-> c, sum |-> 0]
           z == StopRecorder(y, c)
           w == [z EXCEPT !.recorder = None]
<1>1. x \in State
  BY DEF Base
<1>2. /\ y \in State /\ y.session = None /\ y.ledger = None /\ y.recorder = x.recorder
      /\ y.tasks = x.tasks /\ y.count = x.count /\ y.finished = x.finished
      /\ y.conn = x.conn /\ y.ses = x.ses /\ y.rec = x.rec /\ SameBooks(x, y)
  <2>1. y \in State
    BY <1>1 DEF State
  <2> QED BY <1>1, <2>1 DEF State, SameBooks
<1>3. StartFails(x, i) =
        IF y.recorder = None THEN Return(y, i)
        ELSE IF Stopping(y) THEN [z EXCEPT !.tasks[i] = t]
        ELSE Return(w, i)
  BY DEF StartFails, Sleep
<1> HIDE DEF y
<1>4. Base(y, J)
  <2>1. \A d \in Conv : ~Live(y, d)
    BY <1>2 DEF NoLive, Live
  <2>2. \A d \in Conv : y.rec[d] \in {"opening", "on"} => y.recorder = d
    BY <1>2 DEF Base, Held
  <2> QED BY <1>2, <2>1, <2>2, LetGo
<1>5. ~Crossed => Own(y, J)
  <2>1. ~Crossed => \A d \in Conv : ~(Live(y, d) \/ y.ses[d] = "draining")
    BY <1>2 DEF NoLive, NoDrain, Live
  <2> QED BY <1>1, <1>2, <2>1, LetGoOwn
<1>6. i \in Slot /\ \A j \in J : y.tasks[j].kind \notin {"start", "end"}
  BY <1>2
<1>7. CASE y.recorder = None
  <2>1. Base(Return(y, i), Slot)
    BY <1>4, <1>6, ReturnBase
  <2>2. ~Crossed => Own(Return(y, i), Slot)
    BY <1>2, <1>5, <1>6, ReturnOwn
  <2>3. Return(y, i).recorder = None
    BY <1>2, <1>6, <1>7, NoTaskFacts, TaskSet DEF Return, SameHeld
  <2>4. Inv(Return(y, i))
    BY <2>1, <2>2, <2>3 DEF Inv, HasSession
  <2> QED BY <1>3, <1>7, <2>4
<1>8. CASE y.recorder # None /\ Stopping(y)
  <2>1. c \in Conv /\ y.rec[c] = "on" /\ c # None
    BY <1>2, <1>8, Fields DEF Stopping
  <2>2. /\ t \in Task /\ t.kind = "start" /\ t.at = "catchStop" /\ t.conv = c
        /\ StopsRec(t) /\ ~Undone(t) /\ Fits(i, t)
    BY <1>6, <2>1, Sizes DEF Task, StopsRec, Undone, Fits
  <2> HIDE DEF t
  <2>3. Base([z EXCEPT !.tasks[i] = t], Slot) /\ z \in State
    <3> HIDE DEF z
    <3>1. z = StopRecorder(y, y.recorder)
      BY DEF z
    <3> QED BY <1>4, <1>6, <1>8, <2>1, <2>2, <3>1, RecStopBase
  <2>4. ASSUME ~Crossed PROVE Own([z EXCEPT !.tasks[i] = t], Slot)
    <3>1. WaitsOwn(y, t) /\ \A j \in J : BesideOwn(t, y.tasks[j]) /\ BesideOwn(y.tasks[j], t)
      BY <1>6, <2>2 DEF WaitsOwn, BesideOwn, Undone
    <3> HIDE DEF z
    <3>2. z = StopRecorder(y, y.recorder)
      BY DEF z
    <3> QED BY <1>2, <1>5, <1>6, <1>8, <2>2, <2>4, <3>1, <3>2, RecStopOwn
  <2>5. HasSession([z EXCEPT !.tasks[i] = t])
    <3>1. [z EXCEPT !.tasks[i] = t].tasks[i] = t
      BY <1>6, <2>2, <2>3, TaskSet, Fields
    <3> QED BY <1>6, <2>2, <3>1 DEF HasSession
  <2> QED BY <1>3, <1>8, <2>3, <2>4, <2>5 DEF Inv
<1>9. CASE y.recorder # None /\ ~Stopping(y)
  <2>1. y.rec[y.recorder] # "on" /\ w = [StopRecorder(y, y.recorder) EXCEPT !.recorder = None]
    BY <1>9 DEF Stopping
  <2> HIDE DEF w
  <2>2. Base(w, J) /\ w.recorder = None /\ (Own(y, J) => Own(w, J))
    BY <1>4, <1>9, <2>1, LoseRecorder
  <2>3. Base(Return(w, i), Slot)
    BY <1>6, <2>2, ReturnBase
  <2>4. ~Crossed => Own(Return(w, i), Slot)
    BY <1>5, <1>6, <2>2, ReturnOwn DEF Base
  <2>5. Return(w, i).recorder = None
    BY <1>6, <2>2, NoTaskFacts, TaskSet DEF Return, SameHeld, Base
  <2>6. Inv(Return(w, i))
    BY <2>3, <2>4, <2>5 DEF Inv, HasSession
  <2> QED BY <1>3, <1>9, <2>6
<1> QED BY <1>7, <1>8, <1>9

\* A handler that has nothing more to do returns.
LEMMA ReturnInv ==
    ASSUME NEW x, NEW i \in Slot, NEW k, Base(x, Slot \ {i}), Parted(x, i, k),
           ~Crossed => Own(x, Slot \ {i})
    PROVE  Inv(Return(x, i))
<1>1. Base(Return(x, i), Slot)
  BY ReturnBase
<1>2. ~Crossed => Own(Return(x, i), Slot)
  BY ReturnOwn DEF Base
<1>3. SameHeld(x, Return(x, i))
  BY NoTaskFacts, TaskSet DEF Return, Base
<1>4. \A j \in Slot \ {i} : Return(x, i).tasks[j] = x.tasks[j]
  BY NoTaskFacts, TaskSet, Fields DEF Return, Base
<1> QED BY <1>1, <1>2, <1>3, <1>4 DEF Inv, HasSession, Parted, SameHeld

LEMMA AfterFinalizeInv ==
    ASSUME NEW x, NEW i, NEW k \in {"start", "end"}, NEW b \in BOOLEAN,
           Clear(x, i, k), Parted(x, i, k)
    PROVE  Inv(AfterFinalize(x, i, k, b))
<1>1. /\ i \in Slot \ {FinishSlot} /\ (k = "start" => NoLive(x))
      /\ \A j \in Slot \ {i} : x.tasks[j].kind \notin {"start", "end"}
  BY NobodyLive DEF Clear, Base, Runs
<1>2. CASE k = "end"
  BY <1>1, <1>2, ReturnInv DEF Clear, AfterFinalize
<1>3. CASE k = "start" /\ b
  BY <1>3, CreateInv DEF AfterFinalize, Parted
<1>4. CASE k = "start" /\ ~b
  BY <1>1, <1>4, StartFailsInv DEF Clear, AfterFinalize
<1> QED BY <1>2, <1>3, <1>4

\* The report is sent, and nothing is added to the conversation after it.
LEMMA SendSummaryInv ==
    ASSUME NEW x, NEW i, NEW k \in {"start", "end"}, NEW b \in BOOLEAN,
           NEW c \in Conv, NEW n \in 0..MaxTurns,
           Clear(x, i, k), Parted(x, i, k),
           ~Crossed => x.told[c] = << >> /\ n = x.turns[c] /\ c <= x.count
    PROVE  Inv(SendSummary(x, i, k, c, n, b))
<1> DEFINE J == Slot \ {i}
           td == [x.told EXCEPT ![c] = IF x.conn = "open" THEN Append(x.told[c], n)
                                       ELSE x.told[c]]
           y == [x EXCEPT !.told = td, !.ledger = None]
<1>1. /\ x \in State /\ (~Crossed => NoLive(x)) /\ Runs(x, i, k) /\ Base(x, J)
  BY NobodyLive DEF Clear, Base
<1>2. SendSummary(x, i, k, c, n, b) = AfterFinalize(y, i, k, b)
  BY DEF SendSummary
<1>3. x.told[c] \in Seq(0..MaxTurns) /\ Append(x.told[c], n) \in Seq(0..MaxTurns)
  BY <1>1, Fields, AppendProperties
<1>4. /\ td \in [Conv -> Seq(0..MaxTurns)]
      /\ \A d \in Conv : d # c => td[d] = x.told[d]
      /\ td[c] = x.told[c] \/ td[c] = Append(x.told[c], n)
  BY <1>1, <1>3, Fields
<1> HIDE DEF td
<1>5. y \in State
  BY <1>1, <1>4 DEF State
<1>6. /\ y.told = td /\ y.ledger = None /\ y.session = x.session /\ y.recorder = x.recorder
      /\ y.tasks = x.tasks /\ y.count = x.count /\ y.finished = x.finished
      /\ y.conn = x.conn /\ y.ses = x.ses /\ y.rec = x.rec
      /\ y.turns = x.turns /\ y.reported = x.reported /\ y.saves = x.saves
      /\ y.filed = x.filed /\ y.unsaved = x.unsaved
  BY <1>1 DEF State
<1> HIDE DEF y
<1>7. Base(y, J)
  <2>1. Held(y)
    <3>1. None <= y.count
      BY <1>5, Fields, Sizes
    <3>2. \A d \in Conv : y.ledger = d \/ d > y.count => y.turns[d] = y.reported[d]
      BY <1>1, <1>6, Sizes DEF Base, Held
    <3> QED BY <1>1, <1>6, <3>1, <3>2 DEF Base, Held, Live
  <2>2. Filed(y)
    BY <1>1, <1>6 DEF Base, Filed
  <2>3. \A j \in J : Waits(y, j, y.tasks[j])
    BY <1>1, <1>6 DEF Base, Waits, NoLive, Live
  <2>4. Tended(y, J) /\ Queue(y, J)
    BY <1>1, <1>6 DEF Base, Tended, Queue
  <2> QED BY <1>1, <1>5, <1>6, <2>1, <2>2, <2>3, <2>4 DEF Base
<1>8. Runs(y, i, k)
  BY <1>1, <1>6 DEF Runs
<1>9. ASSUME ~Crossed PROVE Own(y, J) /\ NoDrain(y)
  <2>1. Own(x, J) /\ NoDrain(x) /\ x.told[c] = << >> /\ n = x.turns[c] /\ c <= x.count
    BY <1>9 DEF Clear
  <2>2. NoDrain(y)
    BY <1>6, <2>1 DEF NoDrain
  <2>3. y.told[c] = << >> \/ (Len(y.told[c]) = 1 /\ y.told[c][1] = y.turns[c])
    <3> DEFINE a == Append(x.told[c], n)
    <3>1. Len(a) = Len(x.told[c]) + 1 /\ a[Len(x.told[c]) + 1] = n
      BY <1>3, AppendProperties
    <3>2. Len(x.told[c]) = 0
      BY <2>1
    <3> HIDE DEF a
    <3>3. Len(a) = 1 /\ a[1] = n
      BY <3>1, <3>2
    <3>4. td[c] = << >> \/ td[c] = a
      BY <1>4, <2>1 DEF a
    <3> QED BY <1>6, <2>1, <3>3, <3>4
  <2>4. HeldOwn(y)
    <3>1. \A d \in Conv : ~Live(y, d) /\ y.ses[d] # "draining"
      BY <1>1, <1>6, <1>9, <2>2 DEF NoLive, NoDrain, Live
    <3>2. \A d \in Conv : y.told[d] # << >> => Len(y.told[d]) = 1 /\ y.told[d][1] = y.turns[d]
                                              /\ d <= y.count
      BY <1>4, <1>6, <2>1, <2>3 DEF Own, HeldOwn
    <3> QED BY <1>6, <2>1, <3>1, <3>2, Sizes DEF Own, HeldOwn
  <2>5. \A j \in J : WaitsOwn(y, y.tasks[j])
    <3>1. \A j \in J : x.tasks[j].kind \notin {"start", "end"}
      BY <1>1 DEF Runs
    <3>2. \A j \in J : x.tasks[j].at = "saving" => x.tasks[j].kind = "finish"
      BY <1>1, <3>1 DEF Base, Waits, Fits
    <3> QED BY <1>6, <2>1, <2>2, <3>2 DEF Own, WaitsOwn
  <2>6. TendedOwn(y, J)
    BY <2>2 DEF TendedOwn, NoDrain
  <2> QED BY <1>6, <2>1, <2>2, <2>4, <2>5, <2>6 DEF Own
<1>10. Clear(y, i, k)
  BY <1>6, <1>7, <1>8, <1>9 DEF Clear
<1>11. Parted(y, i, k)
  BY <1>6 DEF Parted
<1> QED BY <1>2, <1>10, <1>11, AfterFinalizeInv

\* A save that is awaited goes to the end of the queue.
LEMMA AwaitedQueue ==
    ASSUME NEW x \in State, NEW y \in State, NEW i \in Slot, NEW e \in Save,
           Queue(x, Slot \ {i}), y.saves = Append(x.saves, e), e.slot = i,
           \A j \in Slot \ {i} : y.tasks[j] = x.tasks[j],
           y.tasks[i].at = "saving"
    PROVE  Queue(y, Slot)
<1> DEFINE n == Len(x.saves)
<1>1. /\ n \in Nat /\ Len(y.saves) = n + 1
      /\ \A k \in 1..n : y.saves[k] = x.saves[k]
      /\ y.saves[n + 1] = e
  BY Fields, AppendProperties
<1>2. /\ \A k \in 1..n : x.saves[k].awaited =>
           x.saves[k].slot \in Slot \ {i} /\ x.tasks[x.saves[k].slot].at = "saving"
      /\ \A k, m \in 1..n : k # m /\ x.saves[k].awaited /\ x.saves[m].awaited
             => x.saves[k].slot # x.saves[m].slot
  BY DEF Queue
<1> HIDE DEF n
<1>3. \A k \in 1..(n + 1) : k \in 1..n \/ k = n + 1
  BY <1>1
<1>4. \A k \in 1..n : y.saves[k].awaited =>
        y.saves[k].slot \in Slot \ {i} /\ y.tasks[y.saves[k].slot].at = "saving"
  BY <1>1, <1>2
<1>5. \A k \in 1..(n + 1) : y.saves[k].awaited =>
        y.saves[k].slot \in Slot /\ y.tasks[y.saves[k].slot].at = "saving"
  BY <1>1, <1>3, <1>4
<1>6. ASSUME NEW k \in 1..(n + 1), NEW m \in 1..(n + 1), k # m,
             y.saves[k].awaited, y.saves[m].awaited
      PROVE  y.saves[k].slot # y.saves[m].slot
  <2>1. CASE k \in 1..n /\ m \in 1..n
    BY <1>1, <1>2, <1>6, <2>1
  <2>2. CASE k = n + 1 /\ m \in 1..n
    BY <1>1, <1>4, <1>6, <2>2
  <2>3. CASE m = n + 1 /\ k \in 1..n
    BY <1>1, <1>4, <1>6, <2>3
  <2> QED BY <1>3, <1>6, <2>1, <2>2, <2>3
<1> QED BY <1>1, <1>5, <1>6 DEF Queue

\* A handler enqueues the record and sleeps until the save has settled.
LEMMA SavesInv ==
    ASSUME NEW x, NEW i, NEW k \in {"start", "end", "finish"}, NEW n \in 0..MaxTurns,
           Clear(x, i, k), Parted(x, i, k), x.ledger # None,
           ~Crossed /\ k # "finish" => n = x.turns[x.ledger]
    PROVE  Inv(Sleep(Enqueue(x, TRUE, i), i, k, "saving", x.ledger, n))
<1> DEFINE J == Slot \ {i}
           c == x.ledger
           e == [conv |-> x.ledger, turns |-> x.turns[x.ledger], awaited |-> TRUE, slot |-> i]
           y == Enqueue(x, TRUE, i)
           t == [kind |-> k, at |-> "saving", conv |-> c, sum |-> n]
           z == [y EXCEPT !.tasks[i] = t]
<1>1. /\ x \in State /\ Runs(x, i, k) /\ Base(x, J) /\ i \in Slot
      /\ k = "start" => x.session = None /\ x.recorder = None
  BY DEF Parted, Clear, Base, Runs
<1>2. /\ y \in State /\ SameRest(x, y) /\ y.reported = x.reported /\ y.turns = x.turns
      /\ c \in Conv /\ e \in Save /\ y.saves = Append(x.saves, e)
  BY <1>1, EnqueueFacts
<1>3. e.slot = i /\ e.turns = x.turns[e.conv]
  OBVIOUS
<1>4. Sleep(y, i, k, "saving", c, n) = z
  BY DEF Sleep
<1>5. /\ t \in Task /\ t.kind = k /\ t.at = "saving" /\ t.conv = c /\ t.sum = n
  BY <1>2, Sizes DEF Task
<1>6. c \in Conv /\ c <= x.count /\ x.ledger = c
  BY <1>1, <1>2 DEF Base, Held
<1> HIDE DEF e, y, t, z, c
<1>7. Filed(y)
  BY <1>1, <1>2, <1>3, FiledAppend DEF Base, SameRest
<1>8. /\ z \in State /\ z.tasks = [y.tasks EXCEPT ![i] = t] /\ SameHeld(y, z) /\ SameBooks(y, z)
  BY <1>1, <1>2, <1>5, TaskSet DEF z
<1>9. z.tasks[i] = t /\ \A j \in J : z.tasks[j] = x.tasks[j]
  <2>1. y.tasks = x.tasks /\ x.tasks \in [Slot -> Task] /\ i \in Slot
    BY <1>1, <1>2, Fields DEF SameRest
  <2> QED BY <1>8, <2>1
<1>10. Quiescent(y, J)
  <2>1. Held(y)
    BY <1>1, <1>2 DEF Base, Held, SameRest, SameHeld, Live
  <2>2. \A j \in J : Waits(y, j, y.tasks[j])
    BY <1>1, <1>2 DEF Base, Waits, SameRest, SameHeld, NoLive, Live
  <2> QED BY <1>1, <1>2, <1>7, <2>1, <2>2 DEF Base, Quiescent, SameRest
<1>11. Tended(z, Slot)
  <2>1. Tended(y, J)
    BY <1>1, <1>2 DEF Base, Tended, SameRest, SameHeld
  <2> QED BY <1>1, <1>2, <1>5, <2>1, StillTended DEF z
<1>12. Queue(z, Slot)
  <2>1. Queue(x, J) /\ z.saves = Append(x.saves, e) /\ z.tasks[i].at = "saving"
    BY <1>1, <1>2, <1>5, <1>8, <1>9 DEF Base, SameBooks
  <2> QED BY <1>1, <1>2, <1>3, <1>8, <1>9, <2>1, AwaitedQueue
<1>13. Waits(y, i, t)
  <2>1. Fits(i, t)
    BY <1>1, <1>5, <1>6, Sizes DEF Fits, Runs
  <2>2. /\ y.count = x.count /\ y.finished = x.finished
        /\ y.session = x.session /\ y.recorder = x.recorder
    BY <1>1, <1>2 DEF SameRest, SameHeld
  <2> QED BY <1>1, <1>5, <1>6, <2>1, <2>2 DEF Waits, Runs, Undone, StopsRec
<1>14. \A j \in J : Beside(t, y.tasks[j]) /\ Beside(y.tasks[j], t)
  <2>1. y.tasks = x.tasks
    BY <1>2 DEF SameRest
  <2> QED BY <1>1, <1>5, <2>1 DEF Beside, Runs, Undone, StopsRec
<1>15. Base(z, Slot)
  BY <1>1, <1>5, <1>10, <1>11, <1>12, <1>13, <1>14, SleepsBase DEF z
<1>16. HasSession(z)
  <2>1. z.recorder = x.recorder /\ z.session = x.session
    BY <1>2, <1>8 DEF SameRest, SameHeld
  <2> QED BY <1>9, <2>1 DEF HasSession, Parted
<1>17. ASSUME ~Crossed PROVE Own(z, Slot)
  <2>1. Own(x, J) /\ NoDrain(x) /\ x.session = None /\ (k # "finish" => n = x.turns[c])
    BY <1>17 DEF Clear, c
  <2>2. HeldOwn(y)
    BY <1>2, <2>1 DEF Own, HeldOwn, SameRest, SameHeld, Live
  <2>3. \A u : WaitsOwn(x, u) => WaitsOwn(y, u)
    BY <1>2 DEF WaitsOwn, SameRest, SameHeld, NoDrain
  <2>4. \A j \in J : WaitsOwn(y, y.tasks[j])
    BY <1>2, <2>1, <2>3 DEF Own, SameRest
  <2>5. \A j, m \in J : j # m => BesideOwn(y.tasks[j], y.tasks[m])
    BY <1>2, <2>1 DEF Own, SameRest
  <2>6. WaitsOwn(x, t)
    <3>1. x.told[c] = << >>
      BY <1>6, <2>1 DEF Own, HeldOwn
    <3> QED BY <1>1, <1>5, <2>1, <3>1 DEF WaitsOwn
  <2>7. \A j \in J : BesideOwn(t, x.tasks[j]) /\ BesideOwn(x.tasks[j], t)
    BY <1>1, <1>5, <1>17 DEF BesideOwn, Undone, Runs
  <2>8. TendedOwn(z, Slot)
    <3>1. TendedOwn(y, J)
      BY <1>2, <2>1 DEF TendedOwn, NoDrain, SameRest, SameHeld
    <3> QED BY <1>1, <1>2, <1>5, <3>1, StillTended DEF z
  <2>9. WaitsOwn(y, t) /\ \A j \in J : BesideOwn(t, y.tasks[j]) /\ BesideOwn(y.tasks[j], t)
    BY <1>2, <2>3, <2>6, <2>7 DEF SameRest
  <2> QED BY <1>1, <1>2, <1>5, <2>2, <2>4, <2>5, <2>8, <2>9, SleepsOwn DEF z
<1> QED BY <1>4, <1>15, <1>16, <1>17 DEF Inv, c, y

LEMMA FileRecordInv ==
    ASSUME NEW x, NEW i, NEW k \in {"start", "end"}, NEW b \in BOOLEAN,
           Clear(x, i, k), Parted(x, i, k)
    PROVE  Inv(FileRecord(x, i, k, b))
<1> DEFINE c == x.ledger
<1>1. CASE c = None
  BY <1>1, AfterFinalizeInv DEF FileRecord
<1>2. CASE c # None
  <2>1. x \in State /\ Held(x) /\ c \in Conv /\ c <= x.count /\ x.turns[c] \in 0..MaxTurns
    <3>1. x \in State /\ Held(x)
      BY DEF Clear, Base
    <3>2. c \in Conv /\ c <= x.count
      BY <1>2, <3>1, Fields DEF Held
    <3> QED BY <3>1, <3>2, Fields
  <2>2. CASE x.turns[c] = 0
    <3>1. ~Crossed => x.told[c] = << >>
      BY <2>1 DEF Clear, Own, HeldOwn
    <3>2. 0 \in 0..MaxTurns /\ 0 = x.turns[c]
      BY <2>1, <2>2
    <3>3. FileRecord(x, i, k, b) = SendSummary(x, i, k, c, 0, b)
      BY <1>2, <2>2 DEF FileRecord
    <3> HIDE DEF c
    <3> QED BY <2>1, <3>1, <3>2, <3>3, SendSummaryInv
  <2>3. CASE x.turns[c] # 0
    <3>1. FileRecord(x, i, k, b) = Sleep(Enqueue(x, TRUE, i), i, k, "saving", x.ledger, x.turns[c])
      BY <1>2, <2>3 DEF FileRecord
    <3>2. x.turns[c] \in 0..MaxTurns /\ x.turns[c] = x.turns[x.ledger] /\ x.ledger # None
      BY <1>2, <2>1
    <3> DEFINE n == x.turns[c]
    <3> HIDE DEF n
    <3>3. Inv(Sleep(Enqueue(x, TRUE, i), i, k, "saving", x.ledger, n))
      BY <3>2, SavesInv DEF n
    <3> QED BY <3>1, <3>3 DEF n
  <2> QED BY <2>2, <2>3
<1> QED BY <1>1, <1>2

\* finish() is done: the socket holds nothing any more.
LEMMA FinishDoneInv ==
    ASSUME NEW x, Clear(x, FinishSlot, "finish"),
           Parted(x, FinishSlot, "finish")
    PROVE  Inv(FinishDone(x))
<1> DEFINE y == Return(x, FinishSlot)
           z == [y EXCEPT !.ledger = None, !.finished = "done"]
           J == Slot \ {FinishSlot}
<1>1. x \in State /\ (~Crossed => NoLive(x)) /\ Base(x, J) /\ FinishSlot \in Slot
      /\ x.finished = "running"
  BY NobodyLive, Sizes DEF Clear, Base, Runs
<1>2. Base(y, Slot)
  BY <1>1, ReturnBase
<1>3. ~Crossed => Own(y, Slot) /\ NoDrain(x)
  BY <1>1, ReturnOwn DEF Clear
<1>4. SameHeld(x, y) /\ SameBooks(x, y) /\ y.tasks[FinishSlot] = NoTask
  BY <1>1, NoTaskFacts, TaskSet, Fields DEF Return
<1>5. FinishDone(x) = z
  BY DEF FinishDone
<1> HIDE DEF y
<1>6. y \in State
  BY <1>2 DEF Base
<1>7. z \in State
  BY <1>6 DEF State
<1>8. /\ z.ledger = None /\ z.finished = "done" /\ z.session = x.session /\ z.recorder = x.recorder
      /\ z.tasks = y.tasks /\ z.count = y.count /\ z.conn = y.conn
      /\ z.ses = y.ses /\ z.rec = y.rec /\ SameBooks(y, z)
      /\ y.session = x.session /\ y.recorder = x.recorder /\ y.finished = "running"
      /\ y.ses = x.ses
  <2>1. /\ z.ledger = None /\ z.finished = "done" /\ z.session = y.session
        /\ z.recorder = y.recorder
        /\ z.tasks = y.tasks /\ z.count = y.count /\ z.conn = y.conn
        /\ z.ses = y.ses /\ z.rec = y.rec /\ SameBooks(y, z)
    BY <1>6 DEF State, SameBooks
  <2> QED BY <1>1, <1>4, <2>1 DEF SameHeld
<1> HIDE DEF z
<1>9. Held(z)
  <2>1. Held(y) /\ y.conn # "open" /\ y.count \in Nat
    BY <1>2, <1>6, <1>8, Fields DEF Base, Held
  <2>2. \A d \in Conv : Live(z, d) => z.session = d
    BY <1>8, <2>1 DEF Held, Live
  <2> QED BY <1>8, <2>1, <2>2, Sizes DEF Held, SameBooks
<1>10. Filed(z)
  BY <1>2, <1>8 DEF Base, Filed, SameBooks
<1>11. ASSUME NEW j \in Slot PROVE Waits(z, j, z.tasks[j])
  <2>1. Waits(y, j, y.tasks[j])
    BY <1>2 DEF Base
  <2>2. y.tasks[j].kind # "finish"
    BY <1>4, <2>1, NoTaskFacts DEF Waits, Fits
  <2> QED BY <1>8, <2>1, <2>2 DEF Waits, NoLive, Live
<1>12. Tended(z, Slot) /\ Queue(z, Slot)
  BY <1>2, <1>8 DEF Base, Tended, Queue, SameBooks
<1>13. Base(z, Slot)
  BY <1>2, <1>7, <1>8, <1>9, <1>10, <1>11, <1>12 DEF Base
<1>14. ASSUME ~Crossed PROVE Own(z, Slot)
  <2>1. \A c \in Conv : \/ z.ses[c] = y.ses[c] \/ z.ses[c] = "closed"
                        \/ y.ses[c] = "starting" /\ z.ses[c] = "failed"
    BY <1>8
  <2>2. \A c \in Conv : ~(Live(z, c) \/ z.ses[c] = "draining")
    BY <1>1, <1>3, <1>8, <1>14 DEF NoLive, NoDrain, Live
  <2> QED BY <1>3, <1>6, <1>7, <1>8, <1>14, <2>1, <2>2, LetGoOwn
<1>15. HasSession(z)
  <2>1. \A j \in J : z.tasks[j] = x.tasks[j]
    BY <1>1, <1>8, NoTaskFacts, TaskSet, Fields DEF Return, y
  <2> QED BY <1>8, <2>1 DEF HasSession, Parted
<1> QED BY <1>5, <1>13, <1>14, <1>15 DEF Inv

\* What comes after the recording is closed.
LEMMA AfterRecordingInv ==
    ASSUME NEW x, NEW i, NEW k, NEW b \in BOOLEAN, Clear(x, i, k), Parted(x, i, k)
    PROVE  Inv(AfterRecording(x, i, k, b))
<1>1. Runs(x, i, k) /\ k \in {"start", "end", "stop", "finish"} /\ i \in Slot /\ x \in State
      /\ Base(x, Slot \ {i}) /\ (~Crossed => NoLive(x))
  BY NobodyLive DEF Clear, Runs, Base
<1>2. CASE k = "stop"
  <2> DEFINE y == Persist(x)
             z == [y EXCEPT !.ledger = None]
             J == Slot \ {i}
  <2>1. AfterRecording(x, i, k, b) = Return(z, i)
    BY <1>2 DEF AfterRecording
  <2>2. /\ y \in State /\ SameRest(x, y) /\ y.reported = x.reported /\ y.turns = x.turns
        /\ Filed(y) /\ Queue(y, J)
    BY <1>1, PersistFacts DEF Base
  <2> HIDE DEF y
  <2>3. Base(y, J)
    <3>1. /\ \A c \in Conv : y.turns[c] <= y.reported[c]
          /\ \A c \in Conv : x.ledger = c \/ c > x.count => y.turns[c] = y.reported[c]
      BY <1>1, <2>2 DEF Base, Held
    <3> QED BY <1>1, <2>2, <3>1, RestBase
  <2>4. /\ z \in State /\ z.ledger = None /\ z.session = x.session /\ z.recorder = x.recorder
        /\ z.tasks = y.tasks /\ z.count = y.count /\ z.finished = y.finished
        /\ z.conn = y.conn /\ z.ses = y.ses /\ z.rec = y.rec /\ SameBooks(y, z)
        /\ y.session = x.session /\ y.recorder = x.recorder /\ y.ses = x.ses
    <3>1. z \in State
      BY <2>2 DEF State
    <3>2. /\ z.ledger = None /\ z.session = y.session /\ z.recorder = y.recorder
          /\ z.tasks = y.tasks /\ z.count = y.count /\ z.finished = y.finished
          /\ z.conn = y.conn /\ z.ses = y.ses /\ z.rec = y.rec /\ SameBooks(y, z)
      BY <2>2 DEF State, SameBooks
    <3> QED BY <2>2, <3>1, <3>2 DEF SameRest, SameHeld
  <2> HIDE DEF z
  <2>5. Base(z, J)
    <3>1. \A c \in Conv : Live(z, c) => z.session = c
      BY <2>3, <2>4 DEF Base, Held, Live
    <3>2. \A c \in Conv : z.rec[c] \in {"opening", "on"} => z.recorder = c
      BY <2>3, <2>4 DEF Base, Held
    <3> QED BY <2>3, <2>4, <3>1, <3>2, LetGo
  <2>6. ASSUME ~Crossed PROVE Own(z, J)
    <3>1. Own(x, J) /\ NoDrain(x)
      BY <2>6 DEF Clear
    <3>2. Own(y, J)
      <4>1. HeldOwn(y)
        BY <2>2, <3>1 DEF Own, HeldOwn, SameRest, SameHeld, Live
      <4>2. \A j \in J : WaitsOwn(y, y.tasks[j])
        BY <2>2, <3>1 DEF Own, WaitsOwn, SameRest, SameHeld, NoDrain
      <4>3. TendedOwn(y, J)
        BY <2>2, <3>1 DEF Own, TendedOwn, SameRest, SameHeld
      <4> QED BY <2>2, <3>1, <4>1, <4>2, <4>3 DEF Own, SameRest
    <3>3. \A c \in Conv : ~(Live(z, c) \/ z.ses[c] = "draining")
      BY <1>1, <2>4, <2>6, <3>1 DEF NoLive, NoDrain, Live
    <3> QED BY <2>2, <2>4, <3>2, <3>3, LetGoOwn
  <2>7. Parted(z, i, k) /\ z.tasks = x.tasks
    <3>1. z.tasks = x.tasks
      BY <2>2, <2>4 DEF SameRest
    <3> QED BY <2>4, <3>1 DEF Parted
  <2> QED BY <1>1, <2>1, <2>5, <2>6, <2>7, ReturnInv
<1>3. CASE k = "finish"
  <2>1. i = FinishSlot
    BY <1>1, <1>3 DEF Runs
  <2>2. CASE Unbilled(x)
    BY <1>3, <2>1, <2>2, FinishDoneInv DEF AfterRecording
  <2>3. CASE ~Unbilled(x)
    <3>1. AfterRecording(x, i, k, b) = Sleep(Enqueue(x, TRUE, i), i, k, "saving", x.ledger, 0)
      BY <1>3, <2>3 DEF AfterRecording
    <3>2. x.ledger # None /\ 0 \in 0..MaxTurns
      BY <2>3, Sizes DEF Unbilled
    <3> QED BY <1>3, <3>1, <3>2, SavesInv
  <2> QED BY <2>2, <2>3
<1>4. CASE k \in {"start", "end"}
  BY <1>4, FileRecordInv DEF AfterRecording
<1> QED BY <1>1, <1>2, <1>3, <1>4

\* closeRecording() and what follows it.
LEMMA CloseRecordingInv ==
    ASSUME NEW x, NEW i, NEW k, NEW b \in BOOLEAN, Clear(x, i, k), x.session = None
    PROVE  Inv(CloseRecording(x, i, k, b))
<1> DEFINE c == x.recorder
           x1 == [x EXCEPT !.recorder = None]
           y == StopRecorder(x1, c)
           J == Slot \ {i}
           t == [kind |-> k, at |-> "recStop", conv |-> c, sum |-> 0]
           z == [y EXCEPT !.tasks[i] = t]
<1>1. Runs(x, i, k) /\ k \in {"start", "end", "stop", "finish"} /\ i \in Slot /\ x \in State
      /\ Base(x, J) /\ x.session = None
  BY DEF Clear, Runs, Base
<1>2. CASE c = None
  <2>1. Parted(x, i, k)
    BY <1>2 DEF Parted
  <2> QED BY <1>2, <2>1, AfterRecordingInv DEF CloseRecording
<1>3. CASE c # None /\ ~Stopping(x)
  <2>1. CloseRecording(x, i, k, b) = AfterRecording(y, i, k, b)
    BY <1>3 DEF CloseRecording
  <2>2. x.recorder # None /\ x.rec[x.recorder] # "on" /\ J \in SUBSET Slot
    BY <1>3 DEF Stopping
  <2>3. y = StopRecorder([x EXCEPT !.recorder = None], x.recorder)
    OBVIOUS
  <2> HIDE DEF y
  <2>4. /\ Base(y, J) /\ y.recorder = None /\ y.session = x.session
        /\ y.tasks = x.tasks /\ y.count = x.count /\ y.finished = x.finished
        /\ y.ses = x.ses /\ (Own(x, J) => Own(y, J))
    BY <1>1, <2>2, <2>3, LoseRecorder
  <2>5. Runs(y, i, k)
    BY <1>1, <2>4 DEF Runs
  <2>6. ~Crossed => Own(y, J) /\ NoDrain(y) /\ y.session = None
    BY <1>1, <2>4 DEF Clear, NoDrain
  <2>7. Clear(y, i, k)
    BY <1>1, <2>4, <2>5, <2>6 DEF Clear
  <2>8. Parted(y, i, k)
    BY <2>4 DEF Parted
  <2> QED BY <2>1, <2>7, <2>8, AfterRecordingInv
<1>4. CASE c # None /\ Stopping(x)
  <2>1. CloseRecording(x, i, k, b) = z
    BY <1>4 DEF CloseRecording, Sleep
  <2>2. x.recorder # None /\ x.rec[x.recorder] = "on" /\ c \in Conv
    BY <1>1, <1>4, Fields DEF Stopping
  <2>3. /\ t \in Task /\ t.kind = k /\ t.at = "recStop" /\ t.conv = c
    BY <1>1, <2>2, Sizes DEF Task
  <2>4. /\ StopsRec(t) /\ (Undone(t) <=> k = "start") /\ Fits(i, t)
    BY <1>1, <2>2, <2>3, Sizes DEF StopsRec, Undone, Fits, Runs
  <2>5. /\ y.recorder = None /\ y.session = None
        /\ y = StopRecorder([x EXCEPT !.recorder = None], x.recorder)
        /\ t.conv = x.recorder /\ y.tasks = x.tasks
    <3>1. x1 \in State /\ x1.recorder = None /\ x1.session = None /\ x1.tasks = x.tasks
      <4>1. x1 \in State
        BY <1>1, Sizes DEF State
      <4> QED BY <1>1, <4>1 DEF State
    <3> HIDE DEF x1
    <3>2. y.recorder = None /\ y.session = None /\ y.tasks = x.tasks
      BY <2>2, <3>1, StopRecorderFacts
    <3> QED BY <2>3, <3>2 DEF x1
  <2> HIDE DEF t, y
  <2>6. /\ t.kind = "finish" => x.finished = "running"
        /\ Undone(t) => x.count < MaxConvs
        /\ t.kind \in {"start", "end"} =>
             \A j \in Slot \ {i} : x.tasks[j].kind \notin {"start", "end"}
        /\ Undone(t) => \A j \in Slot \ {i} : x.tasks[j].at # "closing"
    BY <1>1, <2>3, <2>4 DEF Runs
  <2>7. Base(z, Slot) /\ y \in State
    BY <1>1, <2>2, <2>3, <2>4, <2>5, <2>6, RecStopBase
  <2>8. z.recorder = None
    BY <1>1, <2>3, <2>5, <2>7, TaskSet DEF SameHeld
  <2>9. ASSUME ~Crossed PROVE Own(z, Slot)
    <3>1. Own(x, J) /\ WaitsOwn(x, t)
      BY <1>1, <2>3, <2>9 DEF Clear, WaitsOwn
    <3>2. \A j \in J : BesideOwn(t, x.tasks[j]) /\ BesideOwn(x.tasks[j], t)
      BY <1>1, <2>2, <2>3, <2>4, <2>9 DEF BesideOwn, Runs
    <3> QED BY <1>1, <2>2, <2>3, <2>4, <2>5, <3>1, <3>2, RecStopOwn
  <2> QED BY <2>1, <2>7, <2>8, <2>9 DEF Inv, HasSession
<1> QED BY <1>2, <1>3, <1>4

\* A session that resolves at once is closed and forgotten.
LEMMA CloseSessionClear ==
    ASSUME NEW x, NEW i, NEW k, Base(x, Slot \ {i}), Runs(x, i, k),
           NEW report \in MayReport(x),
           ~Crossed => Own(x, Slot \ {i}) /\ NoDrain(x)
    PROVE  Clear(CloseSession(x, report), i, k) /\ CloseSession(x, report).session = None
<1> DEFINE J == Slot \ {i}
           c == x.session
           y == IF report THEN OnUsage(x, c) ELSE x
           z == CloseSession(x, report)
<1>1. x \in State /\ Held(x) /\ J \in SUBSET Slot /\ report \in BOOLEAN
  BY DEF Base, MayReport
<1>2. Closable(x) <=> c # None /\ x.ses[c] \in {"starting", "live"}
  BY DEF Closable
<1>3. report => Closable(x) /\ x.ses[c] = "live" /\ x.reported[c] < MaxTurns /\ c \in Conv
  BY <1>1, <1>2, Fields DEF MayReport
<1>4. Base(y, J) /\ y.tasks = x.tasks /\ SameHeld(x, y) /\ (~Crossed => Own(y, J))
  <2>1. CASE report
    <3>1. c \in Conv /\ x.reported[c] < MaxTurns /\ x.ledger \in {None, c} /\ Live(x, c)
          /\ c # None /\ c <= x.count
      BY <1>1, <1>3, <2>1, Sizes DEF Held, Live
    <3> HIDE DEF c
    <3>2. Base(OnUsage(x, c), J) /\ SameRest(x, OnUsage(x, c))
      BY <3>1, OnUsageBase
    <3>3. ~Crossed => Own(OnUsage(x, c), J)
      BY <3>1, OnUsageOwn
    <3> QED BY <2>1, <3>2, <3>3 DEF SameRest
  <2>2. CASE ~report
    BY <2>2 DEF SameHeld
  <2> QED BY <1>1, <2>1, <2>2
<1>5. z = IF Closable(x) THEN [y EXCEPT !.ses[c] = "closed", !.session = None]
          ELSE [x EXCEPT !.session = None]
  BY DEF CloseSession
<1>6. ~Closable(x) => y = x
  BY <1>1, <1>3
<1> HIDE DEF z, y
<1> DEFINE ss == [y.ses EXCEPT ![c] = "closed"]
<1>7. y \in State
  BY <1>4 DEF Base
<1>8. /\ z \in State /\ z.session = None
      /\ z.ses = (IF Closable(x) THEN ss ELSE y.ses)
      /\ z.tasks = y.tasks /\ z.count = y.count /\ z.finished = y.finished
      /\ z.conn = y.conn /\ z.ledger = y.ledger /\ z.recorder = y.recorder
      /\ z.rec = y.rec /\ SameBooks(y, z)
  <2>1. CASE Closable(x)
    <3>1. ss \in [Conv -> {"none", "starting", "live", "failed", "draining", "closed"}]
      BY <1>7, Fields
    <3>2. z = [y EXCEPT !.ses = ss, !.session = None]
      BY <1>5, <2>1
    <3> HIDE DEF ss
    <3>3. z \in State
      BY <1>7, <3>1, <3>2 DEF State
    <3>4. /\ z.session = None /\ z.ses = ss
          /\ z.tasks = y.tasks /\ z.count = y.count /\ z.finished = y.finished
          /\ z.conn = y.conn /\ z.ledger = y.ledger /\ z.recorder = y.recorder
          /\ z.rec = y.rec /\ SameBooks(y, z)
      BY <1>7, <3>2 DEF State, SameBooks
    <3> QED BY <2>1, <3>3, <3>4
  <2>2. CASE ~Closable(x)
    <3>1. z = [y EXCEPT !.session = None]
      BY <1>5, <1>6, <2>2
    <3>2. z \in State
      BY <1>7, <3>1 DEF State
    <3>3. /\ z.session = None /\ z.ses = y.ses
          /\ z.tasks = y.tasks /\ z.count = y.count /\ z.finished = y.finished
          /\ z.conn = y.conn /\ z.ledger = y.ledger /\ z.recorder = y.recorder
          /\ z.rec = y.rec /\ SameBooks(y, z)
      BY <1>7, <3>1 DEF State, SameBooks
    <3> QED BY <2>2, <3>2, <3>3
  <2> QED BY <2>1, <2>2
<1>9. \A d \in Conv : z.ses[d] = y.ses[d] \/ z.ses[d] = "closed"
  BY <1>7, <1>8, Fields
<1>10. \A d \in Conv : ~Live(z, d)
  <2> SUFFICES ASSUME NEW d \in Conv, Live(z, d) PROVE FALSE
    OBVIOUS
  <2>1. Live(y, d) /\ z.ses[d] = y.ses[d]
    BY <1>9 DEF Live
  <2>2. Live(x, d) /\ d = c /\ d # None
    BY <1>1, <1>4, <2>1, Sizes DEF SameHeld, Live, Held
  <2>3. Closable(x)
    BY <1>2, <2>2 DEF Live
  <2>4. z.ses[d] = "closed"
    BY <1>7, <1>8, <2>2, <2>3, Fields
  <2> QED BY <2>4 DEF Live
<1>11. Base(z, J)
  <2>1. \A d \in Conv : z.rec[d] \in {"opening", "on"} => z.recorder = d
    BY <1>4, <1>8 DEF Base, Held
  <2> QED BY <1>4, <1>8, <1>9, <1>10, <2>1, LetGo
<1>12. ~Crossed => Own(z, J) /\ NoDrain(z)
  <2>1. ~Crossed => NoDrain(z)
    BY <1>4, <1>9 DEF NoDrain, SameHeld
  <2>2. ~Crossed => \A d \in Conv : ~(Live(z, d) \/ z.ses[d] = "draining")
    BY <1>10, <2>1 DEF NoDrain
  <2> QED BY <1>4, <1>7, <1>8, <1>9, <2>1, <2>2, LetGoOwn
<1>13. Runs(z, i, k)
  BY <1>4, <1>8 DEF Runs, SameHeld
<1> QED BY <1>8, <1>11, <1>12, <1>13 DEF Clear, z

\* The vendor's stream is to be drained first, and handler i waits for it.
LEMMA AwaitVendorInv ==
    ASSUME NEW x, NEW i, NEW k, Base(x, Slot \ {i}), Runs(x, i, k), Closable(x),
           ~Crossed => Own(x, Slot \ {i}) /\ NoDrain(x)
    PROVE  Inv(AwaitVendor(x, i, k))
<1> DEFINE J == Slot \ {i}
           c == x.session
           v == IF x.ses[c] = "live" THEN "draining" ELSE "closed"
           ss == [x.ses EXCEPT ![c] = v]
           y == [x EXCEPT !.ses = ss]
           t == [kind |-> k, at |-> "closing", conv |-> c, sum |-> 0]
           z == [y EXCEPT !.tasks[i] = t]
<1>1. x \in State /\ Held(x) /\ i \in Slot
  BY DEF Base, Runs
<1>2. c \in Conv /\ c # None /\ x.ses[c] \in {"starting", "live"} /\ c <= x.count
      /\ x.ledger \in {None, c} /\ Live(x, c) /\ x.session = c
  BY <1>1, Fields DEF Closable, Held, Live
<1>3. AwaitVendor(x, i, k) = z
  BY DEF AwaitVendor, Sleep
<1>4. t \in Task /\ t.kind = k /\ t.at = "closing" /\ t.conv = c
  BY <1>2, Sizes DEF Task, Runs
<1>5. v \in {"draining", "closed"} /\ (v = "draining" <=> x.ses[c] = "live")
  OBVIOUS
<1> HIDE DEF c, v, t
<1>6. /\ ss \in [Conv -> {"none", "starting", "live", "failed", "draining", "closed"}]
      /\ ss[c] = v /\ \A d \in Conv : d # c => ss[d] = x.ses[d]
  BY <1>1, <1>2, <1>5, Fields
<1> HIDE DEF ss
<1>7. /\ y \in State /\ y.ses = ss /\ y.tasks = x.tasks /\ y.count = x.count
      /\ y.finished = x.finished /\ y.conn = x.conn /\ y.session = c /\ y.ledger = x.ledger
      /\ y.recorder = x.recorder /\ y.rec = x.rec /\ SameBooks(x, y)
  <2>1. y \in State
    BY <1>1, <1>6 DEF State
  <2> QED BY <1>1, <1>2, <2>1 DEF State, SameBooks
<1> HIDE DEF y
<1>8. NoLive(y)
  BY <1>1, <1>2, <1>5, <1>6, <1>7 DEF NoLive, Live, Held
<1>9. \A j \in J : x.tasks[j].at # "closing" /\ ~Undone(x.tasks[j]) /\ x.tasks[j] \in Task
  BY <1>1, <1>2, Fields DEF Base, Waits, NoLive
<1>10. ASSUME NEW j \in J PROVE Waits(y, j, y.tasks[j])
  <2> DEFINE u == x.tasks[j]
  <2>1. Waits(x, j, u) /\ u.at # "closing" /\ ~Undone(u)
    BY <1>9 DEF Base
  <2> HIDE DEF u
  <2>2. u.at = "starting" => u.conv \in Conv /\ y.ses[u.conv] \notin {"live", "draining"}
    BY <1>2, <1>5, <1>6, <1>7, <2>1 DEF Waits, Fits
  <2>3. Waits(y, j, u)
    BY <1>2, <1>7, <2>1, <2>2 DEF Waits
  <2> QED BY <1>7, <2>3 DEF u
<1>11. Quiescent(y, J)
  <2>1. Held(y)
    BY <1>1, <1>2, <1>7, <1>8 DEF Held, NoLive, SameBooks
  <2>2. Filed(y)
    BY <1>7 DEF Base, Filed, SameBooks
  <2> QED BY <1>7, <1>10, <2>1, <2>2 DEF Base, Quiescent
<1>12. Waits(y, i, t)
  <2>1. Fits(i, t)
    BY <1>2, <1>4 DEF Fits, Runs
  <2> QED BY <1>2, <1>4, <1>5, <1>6, <1>7, <1>8, <2>1 DEF Waits, Runs, Undone, StopsRec
<1>13. \A j \in J : Beside(t, y.tasks[j]) /\ Beside(y.tasks[j], t)
  BY <1>4, <1>7, <1>9 DEF Beside, StopsRec, Runs
<1>14. Tended(z, Slot) /\ Queue(z, Slot)
  <2>1. Tended(y, J) /\ Queue(y, J)
    BY <1>7 DEF Base, Tended, Queue, SameBooks
  <2> QED BY <1>1, <1>4, <1>7, <2>1, StillTended
<1>15. /\ z \in State /\ z.tasks = [x.tasks EXCEPT ![i] = t] /\ SameHeld(y, z) /\ SameBooks(y, z)
  BY <1>1, <1>4, <1>7, TaskSet
<1> HIDE DEF z
<1>16. Base(z, Slot)
  BY <1>1, <1>4, <1>11, <1>12, <1>13, <1>14, SleepsBase DEF z
<1>17. z.session # None
  BY <1>2, <1>7, <1>15 DEF SameHeld
<1>18. ASSUME ~Crossed PROVE Own(z, Slot)
  <2>1. Own(x, J) /\ NoDrain(x)
    BY <1>18
  <2>2. HeldOwn(y)
    <3>1. \A d \in Conv : Live(y, d) \/ y.ses[d] = "draining" => d = c
      BY <1>6, <1>7, <1>8, <2>1 DEF NoLive, NoDrain
    <3>2. x.ledger = c
      BY <1>2, <2>1 DEF Own, HeldOwn
    <3> QED BY <1>7, <2>1, <3>1, <3>2 DEF Own, HeldOwn, SameBooks
  <2>3. \A j \in J : x.tasks[j].at = "starting" => NoDrain(y)
    <3> SUFFICES ASSUME NEW j \in J, x.tasks[j].at = "starting" PROVE NoDrain(y)
      OBVIOUS
    <3>1. x.tasks[j].conv = c /\ x.ses[c] # "live"
      BY <1>2, Sizes DEF Base, Waits
    <3> QED BY <1>5, <1>6, <1>7, <2>1, <3>1 DEF NoDrain
  <2>4. \A j \in J : WaitsOwn(y, y.tasks[j])
    BY <1>2, <1>7, <2>1, <2>3 DEF Own, WaitsOwn
  <2>5. \A j, m \in J : j # m => BesideOwn(y.tasks[j], y.tasks[m])
    BY <1>7, <2>1 DEF Own
  <2>6. WaitsOwn(y, t)
    BY <1>4 DEF WaitsOwn
  <2>7. \A j \in J : BesideOwn(t, y.tasks[j]) /\ BesideOwn(y.tasks[j], t)
    BY <1>4, <1>7, <1>9, <1>18 DEF BesideOwn, Undone, Runs
  <2>8. TendedOwn(z, Slot)
    <3>1. z.tasks[i] = t
      BY <1>1, <1>4, <1>15, Fields
    <3>2. \A d \in Conv : z.ses[d] = "draining" => d = c
      BY <1>6, <1>7, <1>15, <2>1 DEF NoDrain, SameHeld
    <3> QED BY <1>1, <1>4, <3>1, <3>2 DEF TendedOwn
  <2> QED BY <1>1, <1>4, <1>7, <2>2, <2>4, <2>5, <2>6, <2>7, <2>8, SleepsOwn DEF z
<1> QED BY <1>3, <1>16, <1>17, <1>18 DEF Inv, HasSession, z

LEMMA WindUpInv ==
    ASSUME NEW x, NEW i, NEW k, NEW b \in BOOLEAN, Base(x, Slot \ {i}), Runs(x, i, k),
           NEW report \in MayReport(x),
           ~Crossed => Own(x, Slot \ {i}) /\ NoDrain(x)
    PROVE  Inv(WindUp(x, i, k, report, b))
<1>1. CASE x.drains /\ Closable(x)
  BY <1>1, AwaitVendorInv DEF WindUp
<1>2. CASE ~(x.drains /\ Closable(x))
  BY <1>2, CloseSessionClear, CloseRecordingInv DEF WindUp
<1> QED BY <1>1, <1>2

-----------------------------------------------------------------------------
(* The actions.                                                             *)

\* A handler's slot is left out of the count while it runs on.
LEMMA DropBase ==
    ASSUME NEW x, NEW i \in Slot, Base(x, Slot),
           x.tasks[i].at \in {"idle", "unlink", "starting", "closing"}
    PROVE  Base(x, Slot \ {i})
<1>1. Tended(x, Slot \ {i})
  <2>1. x.tasks[i].at # "arming" /\ ~StopsRec(x.tasks[i])
    BY DEF StopsRec
  <2>2. Tended(x, Slot)
    BY DEF Base
  <2> QED BY <2>1, <2>2 DEF Tended
<1>2. Queue(x, Slot \ {i})
  BY DEF Base, Queue
<1> QED BY <1>1, <1>2 DEF Base

LEMMA DropOwn ==
    ASSUME NEW x, NEW i \in Slot, Own(x, Slot), x.tasks[i].at # "closing"
    PROVE  Own(x, Slot \ {i})
BY DEF Own, TendedOwn

\* A handler that is not there waits for nothing.
LEMMA IdleAt ==
    ASSUME NEW x, Base(x, Slot), NEW i \in Slot
    PROVE  /\ x.tasks[i] \in Task /\ Waits(x, i, x.tasks[i]) /\ Fits(i, x.tasks[i])
           /\ x.tasks[i].kind = "none" <=> x.tasks[i].at = "idle"
           /\ x.tasks[i].kind = "arm" <=> x.tasks[i].at = "arming"
           /\ x.tasks[i].at # "idle" => x.tasks[i].conv \in Conv
<1> DEFINE t == x.tasks[i]
<1>1. t \in Task /\ Waits(x, i, t)
  BY Fields DEF Base
<1>2. Fits(i, t)
  BY <1>1 DEF Waits
<1> HIDE DEF t
<1>3. (t.kind = "none" <=> t.at = "idle") /\ (t.kind = "arm" <=> t.at = "arming")
      /\ (t.at # "idle" => t.conv \in Conv)
  BY <1>1, <1>2, TaskFields DEF Fits
<1> QED BY <1>1, <1>2, <1>3 DEF t

\* A message finds a slot.
LEMMA NextSlotFree ==
    ASSUME Base(s, Slot), Free # {}
    PROVE  /\ NextSlot \in Slot \ {FinishSlot} /\ s.tasks[NextSlot].kind = "none"
           /\ s.tasks[NextSlot].at = "idle"
<1>1. Free \subseteq Nat
  BY Sizes DEF Free, Slot
<1>2. \E i \in Free : \A j \in Free : <<j, i>> \notin OpToRel(<, Nat)
  BY <1>1, NatLessThanWellFounded, WFMin
<1>3. \A j, i \in Nat : <<j, i>> \notin OpToRel(<, Nat) => i <= j
  BY DEF OpToRel
<1>4. NextSlot \in Free
  BY <1>1, <1>2, <1>3 DEF NextSlot
<1>5. NextSlot \in Slot \ {FinishSlot} /\ s.tasks[NextSlot].kind = "none"
  BY <1>4 DEF Free
<1> QED BY <1>5, IdleAt

LEMMA NoDrainWhen ==
    ASSUME Inv(s), ~Crossed, \A i \in Slot : s.tasks[i].at # "closing"
    PROVE  NoDrain(s)
BY DEF Inv, Own, TendedOwn, NoDrain

LEMMA StartInv ==
    ASSUME Inv(s), Start
    PROVE  Inv(s')
<1> DEFINE i == NextSlot
           J == Slot \ {i}
<1>1. PICK report \in MayReport(s), b \in BOOLEAN :
        s' = IF s.session # None \/ s.ledger # None
             THEN WindUp(s, i, "start", report, b) ELSE AfterFinalize(s, i, "start", b)
  BY DEF Start
<1>2. Base(s, Slot) /\ HasSession(s) /\ (~Crossed => Own(s, Slot)) /\ s \in State
      /\ s.conn = "open" /\ s.finished = "no" /\ s.count < MaxConvs
  BY DEF Inv, Start, Base, Held
<1>3. i \in Slot \ {FinishSlot} /\ s.tasks[i].at = "idle"
  BY <1>2, NextSlotFree DEF Start, Receives
<1> HIDE DEF i
<1>4. \A j \in Slot : s.tasks[j].kind \in {"none", "arm"} /\ s.tasks[j].at \in {"idle", "arming"}
  <2> SUFFICES ASSUME NEW j \in Slot
               PROVE s.tasks[j].kind \in {"none", "arm"} /\ s.tasks[j].at \in {"idle", "arming"}
    OBVIOUS
  <2>1. s.tasks[j].kind \notin {"start", "end", "stop"}
    BY DEF Start, Asleep
  <2>2. s.tasks[j].kind # "finish"
    BY <1>2, IdleAt DEF Waits
  <2>3. s.tasks[j].kind \in {"none", "arm"}
    BY <1>2, <2>1, <2>2, IdleAt, TaskFields
  <2> QED BY <1>2, <2>3, IdleAt
<1>5. ~Crossed => NoDrain(s) /\ Own(s, J)
  BY <1>2, <1>3, <1>4, NoDrainWhen, DropOwn
<1>6. Base(s, J)
  BY <1>2, <1>3, DropBase
<1>7. Runs(s, i, "start")
  BY <1>2, <1>3, <1>4, Sizes DEF Runs, Undone
<1>8. CASE s.session # None \/ s.ledger # None
  BY <1>1, <1>5, <1>6, <1>7, <1>8, WindUpInv
<1>9. CASE s.session = None /\ s.ledger = None
  <2>1. s.recorder = None
    BY <1>2, <1>4, <1>9 DEF HasSession
  <2>2. Clear(s, i, "start") /\ Parted(s, i, "start")
    BY <1>5, <1>6, <1>7, <1>9, <2>1 DEF Clear, Parted
  <2> QED BY <1>1, <1>9, <2>2, AfterFinalizeInv
<1> QED BY <1>8, <1>9

LEMMA EndInv ==
    ASSUME Inv(s), EndConversation
    PROVE  Inv(s')
<1> DEFINE i == NextSlot
           J == Slot \ {i}
<1>1. PICK report \in MayReport(s) : s' = WindUp(s, i, "end", report, TRUE)
  BY DEF EndConversation
<1>2. Base(s, Slot) /\ (~Crossed => Own(s, Slot))
  BY DEF Inv
<1>3. i \in Slot \ {FinishSlot} /\ s.tasks[i].at = "idle"
  BY <1>2, NextSlotFree DEF EndConversation, Receives
<1> HIDE DEF i
<1>4. \A j \in Slot : s.tasks[j].kind \notin {"start", "end"}
  BY DEF EndConversation, Asleep
<1>5. ~Crossed => NoDrain(s) /\ Own(s, J)
  BY <1>2, <1>3, NoDrainWhen, DropOwn DEF EndConversation, Draining, Crossing, Crossed
<1>6. Runs(s, i, "end")
  BY <1>3, <1>4, Sizes DEF Runs, Undone
<1> QED BY <1>1, <1>2, <1>3, <1>5, <1>6, DropBase, WindUpInv

LEMMA StopInv ==
    ASSUME Inv(s), Stop
    PROVE  Inv(s')
<1> DEFINE i == NextSlot
           J == Slot \ {i}
<1>1. PICK report \in MayReport(s) : s' = WindUp(s, i, "stop", report, TRUE)
  BY DEF Stop
<1>2. Base(s, Slot) /\ (~Crossed => Own(s, Slot))
  BY DEF Inv
<1>3. i \in Slot \ {FinishSlot} /\ s.tasks[i].at = "idle"
  BY <1>2, NextSlotFree DEF Stop, Receives
<1> HIDE DEF i
<1>4. ~Crossed => NoDrain(s) /\ Own(s, J) /\ \A j \in Slot : s.tasks[j].at # "closing"
  BY <1>2, <1>3, NoDrainWhen, DropOwn DEF Stop, Draining, Crossing, Crossed
<1>5. \/ Crossed \/ s.recorder = None \/ \A j \in J : ~Undone(s.tasks[j])
  BY <1>2, <1>4 DEF Base, Waits
<1>6. Runs(s, i, "stop")
  BY <1>3, <1>5, Sizes DEF Runs
<1> QED BY <1>1, <1>2, <1>3, <1>4, <1>6, DropBase, WindUpInv

\* The handler that saw to a recorder runs on, and the recorder is at rest.
LEMMA RecDone ==
    ASSUME NEW x, NEW i \in Slot, Base(x, Slot), NEW y \in State, NEW c,
           c = x.tasks[i].conv,
           x.tasks[i].at = "arming" \/ StopsRec(x.tasks[i]),
           y.rec[c] \in {"on", "done"}, \A d \in Conv : d # c => y.rec[d] = x.rec[d],
           y.recorder \in {x.recorder, None},
           \A d \in Conv : x.rec[d] \in {"opening", "on"} /\ d # c => y.recorder = d,
           y.rec[c] = "on" => y.recorder = c,
           y.tasks = x.tasks, y.count = x.count, y.finished = x.finished,
           y.conn = x.conn, y.session = x.session, y.ledger = x.ledger,
           y.ses = x.ses, SameBooks(x, y)
    PROVE  /\ c \in Conv /\ Base(y, Slot \ {i})
           /\ Own(x, Slot) => Own(y, Slot \ {i})
<1> DEFINE J == Slot \ {i}
<1>1. x \in State /\ Held(x) /\ c \in Conv /\ x.count \in Nat
  <2>1. x \in State /\ Held(x)
    BY DEF Base
  <2> QED BY <2>1, IdleAt, Fields DEF StopsRec
<1>2. \A j \in J : /\ x.tasks[j].at = "arming" => x.tasks[j].conv # c
                   /\ StopsRec(x.tasks[j]) => x.tasks[j].conv # c
  <2> SUFFICES ASSUME NEW j \in J, x.tasks[j].conv = c
               PROVE  x.tasks[j].at # "arming" /\ ~StopsRec(x.tasks[j])
    OBVIOUS
  <2>1. Beside(x.tasks[i], x.tasks[j]) /\ Waits(x, i, x.tasks[i]) /\ Waits(x, j, x.tasks[j])
    BY DEF Base
  <2>2. CASE x.tasks[i].at = "arming"
    <3>1. x.rec[c] \in {"opening", "doomed"} /\ x.tasks[j].at # "arming"
      BY <2>1, <2>2 DEF Waits, Beside
    <3> QED BY <2>1, <3>1 DEF Waits
  <2>3. CASE StopsRec(x.tasks[i])
    <3>1. x.rec[c] = "stopping" /\ ~StopsRec(x.tasks[j])
      BY <2>1, <2>3 DEF Waits, Beside
    <3> QED BY <2>1, <3>1 DEF Waits
  <2> QED BY <2>2, <2>3
<1>3. Held(y)
  <2>1. y.recorder <= y.count
    BY <1>1, Sizes DEF Held
  <2>2. \A d \in Conv : y.rec[d] \in {"opening", "on"} => y.recorder = d
    OBVIOUS
  <2> QED BY <1>1, <2>1, <2>2 DEF Held, Live, SameBooks
<1>4. Filed(y)
  BY DEF Base, Filed, SameBooks
<1>5. ASSUME NEW j \in J PROVE Waits(y, j, y.tasks[j])
  <2> DEFINE u == x.tasks[j]
  <2>1. Waits(x, j, u) /\ (u.at # "idle" => u.conv \in Conv)
        /\ (u.at = "arming" => u.conv # c) /\ (StopsRec(u) => u.conv # c)
    BY <1>2, IdleAt
  <2> HIDE DEF u
  <2>2. /\ u.at = "arming" => y.rec[u.conv] \in {"opening", "doomed"}
        /\ StopsRec(u) => y.rec[u.conv] = "stopping"
    BY <2>1 DEF Waits, StopsRec
  <2>3. /\ Undone(u) /\ u.at # "closing" => y.session = None /\ y.recorder = None
        /\ u.at = "catchStop" => y.recorder \in {None, u.conv}
    BY <2>1 DEF Waits
  <2>4. NoLive(x) => NoLive(y)
    BY DEF NoLive, Live
  <2>5. Waits(y, j, u)
    BY <2>1, <2>2, <2>3, <2>4 DEF Waits
  <2> QED BY <2>5 DEF u
<1>6. Tended(y, J)
  <2>1. Tended(x, Slot)
    BY DEF Base
  <2>2. \A d \in Conv : y.rec[d] \in {"opening", "doomed", "stopping"} =>
                        d # c /\ y.rec[d] = x.rec[d]
    BY <1>1
  <2> QED BY <2>1, <2>2 DEF Tended
<1>7. Queue(y, J)
  <2>1. x.tasks[i].at # "saving"
    BY DEF StopsRec
  <2> QED BY <2>1 DEF Base, Queue, SameBooks
<1>8. Base(y, J)
  BY <1>3, <1>4, <1>5, <1>6, <1>7 DEF Base
<1>9. ASSUME Own(x, Slot) PROVE Own(y, J)
  <2>1. HeldOwn(y)
    BY <1>9 DEF Own, HeldOwn, Live, SameBooks
  <2>2. \A j \in J : WaitsOwn(y, y.tasks[j])
    BY <1>9 DEF Own, WaitsOwn, NoDrain, SameBooks
  <2>3. TendedOwn(y, J)
    <3>1. x.tasks[i].at # "closing"
      BY DEF StopsRec
    <3> QED BY <1>9, <3>1 DEF Own, TendedOwn
  <2> QED BY <1>9, <2>1, <2>2, <2>3 DEF Own
<1> QED BY <1>1, <1>8, <1>9

LEMMA StartRecordingInv ==
    ASSUME Inv(s), StartRecording
    PROVE  Inv(s')
<1> DEFINE i == NextSlot
           J == Slot \ {i}
           c == s.recorder
           y == [s EXCEPT !.rec[c] = "opening"]
           t == [kind |-> "arm", at |-> "arming", conv |-> c, sum |-> 0]
           z == [y EXCEPT !.tasks[i] = t]
<1>1. Base(s, Slot) /\ HasSession(s) /\ (~Crossed => Own(s, Slot)) /\ s \in State /\ Held(s)
  BY DEF Inv, Base
<1>2. i \in Slot \ {FinishSlot} /\ s.tasks[i].at = "idle"
  BY <1>1, NextSlotFree DEF StartRecording, Receives
<1>3. s' = z
  BY DEF StartRecording, Sleep
<1>4. c \in Conv /\ c # None /\ s.rec[c] = "idle" /\ c <= s.count /\ s.recorder = c
  BY <1>1, Fields DEF StartRecording, Held
<1>5. t \in Task /\ t.kind = "arm" /\ t.at = "arming" /\ t.conv = c
  BY <1>4, Sizes DEF Task
<1> DEFINE rr == [s.rec EXCEPT ![c] = "opening"]
<1>6. y = [s EXCEPT !.rec = rr]
  OBVIOUS
<1> HIDE DEF i, c, t, y
<1>7. /\ y \in State /\ y.rec[c] = "opening" /\ \A d \in Conv : d # c => y.rec[d] = s.rec[d]
      /\ y.recorder = c /\ y.tasks = s.tasks /\ y.count = s.count
      /\ y.finished = s.finished /\ y.conn = s.conn /\ y.session = s.session
      /\ y.ledger = s.ledger /\ y.ses = s.ses /\ SameBooks(s, y)
  <2>1. /\ rr \in [Conv -> {"none", "idle", "opening", "doomed", "on", "stopping", "done"}]
        /\ rr[c] = "opening" /\ \A d \in Conv : d # c => rr[d] = s.rec[d]
    BY <1>1, <1>4, Fields
  <2> HIDE DEF rr
  <2>2. y \in State
    BY <1>1, <1>6, <2>1 DEF State
  <2>3. /\ y.rec = rr /\ y.recorder = s.recorder /\ y.tasks = s.tasks /\ y.count = s.count
        /\ y.finished = s.finished /\ y.conn = s.conn /\ y.session = s.session
        /\ y.ledger = s.ledger /\ y.ses = s.ses /\ SameBooks(s, y)
    BY <1>1, <1>6 DEF State, SameBooks
  <2> QED BY <1>4, <2>1, <2>2, <2>3
<1> HIDE DEF rr
<1>8. \A j \in J : /\ s.tasks[j].at = "arming" \/ StopsRec(s.tasks[j]) => s.tasks[j].conv # c
                   /\ Undone(s.tasks[j]) => s.tasks[j].at = "closing"
                   /\ Waits(s, j, s.tasks[j])
                   /\ s.tasks[j].at # "idle" => s.tasks[j].conv \in Conv
  BY <1>1, <1>4, IdleAt DEF Waits
<1>9. ASSUME NEW j \in J PROVE Waits(y, j, y.tasks[j])
  <2> DEFINE u == s.tasks[j]
  <2>1. /\ u.at = "arming" \/ StopsRec(u) => u.conv # c
        /\ Undone(u) => u.at = "closing"
        /\ Waits(s, j, u) /\ (u.at # "idle" => u.conv \in Conv)
    BY <1>8
  <2> HIDE DEF u
  <2>2. /\ u.at = "arming" => y.rec[u.conv] \in {"opening", "doomed"}
        /\ StopsRec(u) => y.rec[u.conv] = "stopping"
    BY <1>7, <2>1 DEF Waits, StopsRec
  <2>3. NoLive(s) => NoLive(y)
    BY <1>7 DEF NoLive, Live
  <2>4. Waits(y, j, u)
    BY <1>4, <1>7, <2>1, <2>2, <2>3 DEF Waits
  <2> QED BY <1>7, <2>4 DEF u
<1>10. Quiescent(y, J)
  <2>1. Held(y)
    BY <1>1, <1>4, <1>7 DEF Held, Live, SameBooks
  <2>2. Filed(y)
    BY <1>1, <1>7 DEF Base, Filed, SameBooks
  <2> QED BY <1>1, <1>7, <1>9, <2>1, <2>2 DEF Base, Quiescent
<1>11. Waits(y, i, t)
  <2>1. Fits(i, t)
    BY <1>2, <1>4, <1>5 DEF Fits
  <2> QED BY <1>4, <1>5, <1>7, <2>1 DEF Waits, Undone, StopsRec
<1>12. \A j \in J : Beside(t, y.tasks[j]) /\ Beside(y.tasks[j], t)
  BY <1>5, <1>7, <1>8 DEF Beside, Undone, StopsRec
<1>13. /\ z \in State /\ z.tasks = [y.tasks EXCEPT ![i] = t] /\ SameHeld(y, z) /\ SameBooks(y, z)
  BY <1>2, <1>5, <1>7, TaskSet
<1>14. z.tasks[i] = t /\ \A j \in J : z.tasks[j] = s.tasks[j]
  <2>1. y.tasks = s.tasks /\ s.tasks \in [Slot -> Task] /\ i \in Slot
    BY <1>1, <1>2, <1>7, Fields
  <2> QED BY <1>13, <2>1
<1> HIDE DEF z
<1>15. Tended(z, Slot)
  <2>1. \A d \in Conv : d # c => z.rec[d] = s.rec[d]
    BY <1>7, <1>13 DEF SameHeld
  <2>2. z.rec[c] = "opening"
    BY <1>7, <1>13 DEF SameHeld
  <2>3. Tended(s, Slot) /\ s.tasks[i].at # "arming" /\ ~StopsRec(s.tasks[i])
    BY <1>1, <1>2 DEF Base, StopsRec
  <2> QED BY <1>2, <1>5, <1>14, <2>1, <2>2, <2>3 DEF Tended
<1>16. Queue(z, Slot)
  <2>1. Queue(s, Slot) /\ s.tasks[i].at # "saving" /\ z.saves = s.saves
    BY <1>1, <1>2, <1>7, <1>13 DEF Base, SameBooks
  <2> QED BY <1>14, <2>1 DEF Queue
<1>17. Base(z, Slot)
  BY <1>2, <1>5, <1>10, <1>11, <1>12, <1>15, <1>16, SleepsBase DEF z
<1>18. HasSession(z)
  <2>1. z.session = s.session
    BY <1>7, <1>13 DEF SameHeld
  <2>2. s.session # None \/ \E j \in J : s.tasks[j].at = "catchStop"
    BY <1>1, <1>2, <1>4 DEF HasSession
  <2> QED BY <1>14, <2>1, <2>2 DEF HasSession
<1>19. ASSUME ~Crossed PROVE Own(z, Slot)
  <2>1. Own(s, Slot)
    BY <1>1, <1>19
  <2>2. HeldOwn(y)
    BY <1>7, <2>1 DEF Own, HeldOwn, Live, SameBooks
  <2>3. \A j \in J : WaitsOwn(y, y.tasks[j])
    BY <1>7, <2>1 DEF Own, WaitsOwn, NoDrain, SameBooks
  <2>4. \A j, m \in J : j # m => BesideOwn(y.tasks[j], y.tasks[m])
    BY <1>7, <2>1 DEF Own
  <2>5. WaitsOwn(y, t) /\ \A j \in J : BesideOwn(t, y.tasks[j]) /\ BesideOwn(y.tasks[j], t)
    BY <1>5 DEF WaitsOwn, BesideOwn, Undone
  <2>6. TendedOwn(z, Slot)
    <3>1. TendedOwn(s, Slot) /\ z.ses = s.ses
      BY <1>7, <1>13, <2>1 DEF Own, SameHeld
    <3> QED BY <1>2, <1>14, <3>1 DEF TendedOwn
  <2> QED BY <1>2, <1>5, <1>7, <2>2, <2>3, <2>4, <2>5, <2>6, SleepsOwn DEF z
<1> QED BY <1>3, <1>17, <1>18, <1>19 DEF Inv

LEMMA UsageInv ==
    ASSUME Inv(s), NEW c \in Conv, Usage(c)
    PROVE  Inv(s')
<1> DEFINE y == OnUsage(s, c)
<1>1. Base(s, Slot) /\ HasSession(s) /\ (~Crossed => Own(s, Slot)) /\ Held(s)
  BY DEF Inv, Base
<1>2. Live(s, c) /\ s.reported[c] < MaxTurns /\ s' = y
  BY DEF Usage, Live
<1>3. s.ledger \in {None, c} /\ c <= s.count
  BY <1>1, <1>2, Sizes DEF Held
<1>4. Base(y, Slot) /\ SameRest(s, y)
  BY <1>1, <1>2, <1>3, OnUsageBase
<1>5. ~Crossed => Own(y, Slot)
  BY <1>1, <1>2, OnUsageOwn
<1> HIDE DEF y
<1>6. HasSession(y)
  BY <1>1, <1>4 DEF HasSession, SameRest, SameHeld
<1> QED BY <1>2, <1>4, <1>5, <1>6 DEF Inv

\* Who waits for the start of a session is the one "start" there is.
LEMMA StartingFacts ==
    ASSUME Inv(s), NEW i \in Slot, s.tasks[i].at = "starting"
    PROVE  /\ s.tasks[i].conv \in Conv /\ i \in Slot \ {FinishSlot}
           /\ \A j \in Slot \ {i} : s.tasks[j].kind \notin {"start", "end"}
           /\ s.ses[s.tasks[i].conv] \notin {"live", "draining"}
           /\ s.session \in {None, s.tasks[i].conv}
           /\ Base(s, Slot \ {i}) /\ s \in State /\ Held(s) /\ HasSession(s)
           /\ ~Crossed => Own(s, Slot \ {i}) /\ NoDrain(s)
<1>1. Base(s, Slot) /\ HasSession(s) /\ (~Crossed => Own(s, Slot)) /\ s \in State /\ Held(s)
  BY DEF Inv, Base
<1>2. Waits(s, i, s.tasks[i]) /\ Fits(i, s.tasks[i]) /\ s.tasks[i].conv \in Conv
  BY <1>1, IdleAt
<1>3. s.tasks[i].kind = "start" /\ i # FinishSlot
  BY <1>2 DEF Fits
<1>4. \A j \in Slot \ {i} : Beside(s.tasks[i], s.tasks[j])
  BY <1>1 DEF Base
<1>5. ~Crossed => NoDrain(s)
  BY <1>1 DEF Own, WaitsOwn
<1> QED BY <1>1, <1>2, <1>3, <1>4, <1>5, DropBase, DropOwn DEF Waits, Beside

LEMMA StartedInv ==
    ASSUME Inv(s), NEW i \in Slot, Started(i)
    PROVE  Inv(s')
<1> DEFINE J == Slot \ {i}
           c == s.tasks[i].conv
           v == IF s.ses[c] = "starting" THEN "live" ELSE s.ses[c]
           ss == [s.ses EXCEPT ![c] = v]
           y == [s EXCEPT !.ses = ss]
<1>1. /\ c \in Conv /\ i \in Slot \ {FinishSlot} /\ s.tasks[i].at = "starting"
      /\ \A j \in J : s.tasks[j].kind \notin {"start", "end"}
      /\ s.ses[c] \notin {"live", "draining"} /\ s.session \in {None, c}
      /\ Base(s, J) /\ s \in State /\ Held(s) /\ HasSession(s)
      /\ ~Crossed => Own(s, J) /\ NoDrain(s)
  BY StartingFacts DEF Started, Wakes
<1>2. s' = IF s.session = None THEN StartFails(y, i) ELSE Return(y, i)
  BY DEF Started
<1> HIDE DEF c
<1>3. v = s.ses[c] \/ (s.ses[c] = "starting" /\ v = "live")
  OBVIOUS
<1> HIDE DEF v
<1>4. /\ ss \in [Conv -> {"none", "starting", "live", "failed", "draining", "closed"}]
      /\ ss[c] = v /\ \A d \in Conv : d # c => ss[d] = s.ses[d]
  <2>1. v \in {"none", "starting", "live", "failed", "draining", "closed"}
    BY <1>1, <1>3, Fields
  <2> QED BY <1>1, <2>1, Fields
<1> HIDE DEF ss
<1>5. y \in State
  BY <1>1, <1>4 DEF State
<1>6. /\ y.ses = ss /\ y.tasks = s.tasks /\ y.count = s.count
      /\ y.finished = s.finished /\ y.conn = s.conn /\ y.session = s.session
      /\ y.ledger = s.ledger /\ y.recorder = s.recorder /\ y.rec = s.rec /\ SameBooks(s, y)
  BY <1>1 DEF State, SameBooks
<1> HIDE DEF y
<1>7. \A d \in Conv : /\ Live(y, d) <=> Live(s, d)
                      /\ y.ses[d] = s.ses[d] \/ (s.ses[d] = "starting" /\ y.ses[d] = "live")
  BY <1>3, <1>4, <1>6 DEF Live
<1>8. Base(y, J)
  <2>1. Held(y)
    BY <1>1, <1>6, <1>7 DEF Held, SameBooks
  <2>2. Filed(y)
    BY <1>1, <1>6 DEF Base, Filed, SameBooks
  <2>3. ASSUME NEW j \in J PROVE Waits(y, j, y.tasks[j])
    <3> DEFINE u == s.tasks[j]
    <3>1. Waits(s, j, u) /\ u.kind # "start" /\ Fits(j, u)
      BY <1>1 DEF Base, Waits
    <3> HIDE DEF u
    <3>2. u.at # "starting" /\ (u.at = "closing" => u.conv \in Conv)
      BY <3>1 DEF Fits
    <3>3. NoLive(s) => NoLive(y)
      BY <1>7 DEF NoLive
    <3>4. u.at = "closing" => y.ses[u.conv] \in {"draining", "closed"}
      BY <1>7, <3>1, <3>2 DEF Waits
    <3>5. Waits(y, j, u)
      BY <1>6, <3>1, <3>2, <3>3, <3>4 DEF Waits
    <3> QED BY <1>6, <3>5 DEF u
  <2>4. Tended(y, J) /\ Queue(y, J)
    BY <1>1, <1>6 DEF Base, Tended, Queue, SameBooks
  <2> QED BY <1>1, <1>5, <1>6, <2>1, <2>2, <2>3, <2>4 DEF Base
<1>9. ASSUME ~Crossed PROVE Own(y, J) /\ NoDrain(y)
  <2>1. Own(s, J) /\ NoDrain(s)
    BY <1>1, <1>9
  <2>2. NoDrain(y)
    BY <1>7, <2>1 DEF NoDrain
  <2>3. HeldOwn(y)
    BY <1>6, <1>7, <2>1, <2>2 DEF Own, HeldOwn, NoDrain, SameBooks
  <2>4. \A j \in J : WaitsOwn(y, y.tasks[j])
    BY <1>6, <2>1, <2>2 DEF Own, WaitsOwn, SameBooks
  <2>5. TendedOwn(y, J)
    BY <2>2 DEF TendedOwn, NoDrain
  <2> QED BY <1>6, <2>1, <2>2, <2>3, <2>4, <2>5 DEF Own
<1>10. CASE s.session = None
  <2>1. NoLive(y)
    BY <1>1, <1>7, <1>10, NobodyLive DEF NoLive
  <2> QED BY <1>1, <1>2, <1>6, <1>8, <1>9, <1>10, <2>1, StartFailsInv
<1>11. CASE s.session # None
  <2>1. Parted(y, i, "end")
    BY <1>6, <1>11 DEF Parted
  <2> QED BY <1>1, <1>2, <1>8, <1>9, <1>11, <2>1, ReturnInv
<1> QED BY <1>10, <1>11

LEMMA StartRejectedInv ==
    ASSUME Inv(s), NEW i \in Slot, StartRejected(i)
    PROVE  Inv(s')
<1> DEFINE J == Slot \ {i}
           c == s.tasks[i].conv
           v == IF s.ses[c] = "starting" THEN "failed" ELSE s.ses[c]
           ss == [s.ses EXCEPT ![c] = v]
           y == [s EXCEPT !.ses = ss]
<1>1. /\ c \in Conv /\ i \in Slot \ {FinishSlot} /\ s.tasks[i].at = "starting"
      /\ \A j \in J : s.tasks[j].kind \notin {"start", "end"}
      /\ s.ses[c] \notin {"live", "draining"} /\ s.session \in {None, c}
      /\ Base(s, J) /\ s \in State /\ Held(s) /\ J \in SUBSET Slot
      /\ ~Crossed => Own(s, J) /\ NoDrain(s)
  BY StartingFacts DEF StartRejected, Wakes
<1>2. s' = StartFails(y, i)
  BY DEF StartRejected
<1> HIDE DEF c
<1>3. v = s.ses[c] \/ (s.ses[c] = "starting" /\ v = "failed")
  OBVIOUS
<1>4. v # "starting"
  OBVIOUS
<1> HIDE DEF v
<1>5. /\ ss \in [Conv -> {"none", "starting", "live", "failed", "draining", "closed"}]
      /\ ss[c] = v /\ \A d \in Conv : d # c => ss[d] = s.ses[d]
  <2>1. v \in {"none", "starting", "live", "failed", "draining", "closed"}
    BY <1>1, <1>3, Fields
  <2> QED BY <1>1, <2>1, Fields
<1> HIDE DEF ss
<1>6. y \in State
  BY <1>1, <1>5 DEF State
<1>7. /\ y.ses = ss /\ y.tasks = s.tasks /\ y.count = s.count
      /\ y.finished = s.finished /\ y.conn = s.conn /\ y.session = s.session
      /\ y.ledger = s.ledger /\ y.recorder = s.recorder /\ y.rec = s.rec /\ SameBooks(s, y)
  BY <1>1 DEF State, SameBooks
<1> HIDE DEF y
<1>8. /\ \A d \in Conv : \/ y.ses[d] = s.ses[d] \/ y.ses[d] = "closed"
                         \/ s.ses[d] = "starting" /\ y.ses[d] = "failed"
      /\ \A d \in Conv : Live(y, d) => d # c /\ Live(s, d)
  BY <1>1, <1>3, <1>4, <1>5, <1>7 DEF Live
<1>9. NoLive(y)
  BY <1>1, <1>8, Sizes DEF NoLive, Held
<1>10. Base(y, J)
  <2>1. \A d \in Conv : y.rec[d] \in {"opening", "on"} => y.recorder = d
    BY <1>1, <1>7 DEF Held
  <2>2. \A d \in Conv : Live(y, d) => y.session = d
    BY <1>9 DEF NoLive
  <2> QED BY <1>1, <1>6, <1>7, <1>8, <2>1, <2>2, LetGo
<1>11. ASSUME ~Crossed PROVE Own(y, J) /\ NoDrain(y)
  <2>1. Own(s, J) /\ NoDrain(s)
    BY <1>1, <1>11
  <2>2. NoDrain(y)
    BY <1>8, <2>1 DEF NoDrain
  <2>3. \A d \in Conv : ~(Live(y, d) \/ y.ses[d] = "draining")
    BY <1>9, <2>2 DEF NoLive, NoDrain
  <2> QED BY <1>1, <1>6, <1>7, <1>8, <2>1, <2>2, <2>3, LetGoOwn
<1> QED BY <1>1, <1>2, <1>7, <1>9, <1>10, <1>11, StartFailsInv

LEMMA VendorClosedInv ==
    ASSUME Inv(s), NEW i \in Slot, VendorClosed(i)
    PROVE  Inv(s')
<1> DEFINE J == Slot \ {i}
           t == s.tasks[i]
           c == t.conv
<1>1. PICK report \in BOOLEAN, b \in BOOLEAN :
        /\ report => s.ses[c] = "draining" /\ s.reported[c] < MaxTurns
        /\ s' = CloseRecording([(IF report THEN OnUsage(s, c) ELSE s)
                                  EXCEPT !.ses[c] = "closed", !.session = None], i, t.kind, b)
  BY DEF VendorClosed
<1> DEFINE y == IF report THEN OnUsage(s, c) ELSE s
           ss == [y.ses EXCEPT ![c] = "closed"]
           a == [y EXCEPT !.ses = ss]
           z == [a EXCEPT !.session = None]
<1>2. Base(s, Slot) /\ (~Crossed => Own(s, Slot)) /\ t.at = "closing"
  BY DEF Inv, VendorClosed, Wakes
<1>3. s' = CloseRecording(z, i, t.kind, b)
  BY <1>1
<1>4. /\ Waits(s, i, t) /\ Fits(i, t) /\ c \in Conv
      /\ NoLive(s) /\ s.session \in {None, c} /\ s.ledger \in {None, c} /\ c <= s.count
  <2>1. Waits(s, i, t) /\ Fits(i, t) /\ c \in Conv
    BY <1>2, IdleAt
  <2> HIDE DEF t
  <2> QED BY <1>2, <2>1 DEF Waits
<1>5. \A j \in J : Beside(t, s.tasks[j]) /\ Beside(s.tasks[j], t)
  BY <1>2 DEF Base
<1>6. ~Crossed => \A j \in J : BesideOwn(t, s.tasks[j])
  BY <1>2 DEF Own
<1>7. s.tasks[i] = t
  OBVIOUS
<1>8. Base(y, Slot) /\ y.tasks = s.tasks /\ SameHeld(s, y) /\ (~Crossed => Own(y, Slot))
  <2>1. CASE report
    <3>1. c \in Conv /\ s.reported[c] < MaxTurns /\ s.ledger \in {None, c} /\ c <= s.count
          /\ (Live(s, c) \/ s.ses[c] = "draining")
      BY <1>1, <1>4, <2>1
    <3> HIDE DEF c
    <3>2. Base(OnUsage(s, c), Slot) /\ SameRest(s, OnUsage(s, c))
      BY <1>2, <3>1, OnUsageBase
    <3>3. ~Crossed => Own(OnUsage(s, c), Slot)
      BY <1>2, <3>1, OnUsageOwn
    <3> QED BY <2>1, <3>2, <3>3 DEF SameRest
  <2>2. CASE ~report
    BY <1>2, <2>2 DEF SameHeld
  <2> QED BY <2>1, <2>2
<1> HIDE DEF y
<1>9. y \in State
  BY <1>8 DEF Base
<1> HIDE DEF c
<1>10. /\ ss \in [Conv -> {"none", "starting", "live", "failed", "draining", "closed"}]
       /\ ss[c] = "closed" /\ \A d \in Conv : d # c => ss[d] = y.ses[d]
  BY <1>4, <1>9, Fields
<1> HIDE DEF ss
<1>11. a \in State
  BY <1>9, <1>10 DEF State
<1>12. /\ a.ses = ss /\ a.tasks = y.tasks /\ a.count = y.count /\ a.finished = y.finished
       /\ a.conn = y.conn /\ a.ledger = y.ledger /\ a.recorder = y.recorder
       /\ a.rec = y.rec /\ SameBooks(y, a)
  BY <1>9 DEF State, SameBooks
<1> HIDE DEF a
<1>13. /\ z \in State /\ z.ses = ss /\ z.tasks = s.tasks /\ z.count = s.count
       /\ z.finished = s.finished /\ z.conn = s.conn /\ z.ledger = s.ledger
       /\ z.recorder = s.recorder /\ z.rec = s.rec /\ SameBooks(y, z) /\ z.session = None
       /\ y.ses = s.ses /\ y.session = s.session
  <2>1. z \in State
    BY <1>11 DEF State
  <2>2. /\ z.ses = a.ses /\ z.tasks = a.tasks /\ z.count = a.count /\ z.finished = a.finished
        /\ z.conn = a.conn /\ z.ledger = a.ledger /\ z.recorder = a.recorder
        /\ z.rec = a.rec /\ SameBooks(a, z) /\ z.session = None
    BY <1>11 DEF State, SameBooks
  <2> QED BY <1>8, <1>12, <2>1, <2>2 DEF SameHeld, SameBooks
<1> HIDE DEF z, t
<1>14. Base(y, J)
  BY <1>2, <1>7, <1>8, DropBase
<1>15. \A d \in Conv : /\ z.ses[d] = y.ses[d] \/ z.ses[d] = "closed"
                       /\ ~Live(z, d)
  BY <1>4, <1>10, <1>13 DEF NoLive, Live
<1>16. Base(z, J)
  <2>1. \A d \in Conv : z.rec[d] \in {"opening", "on"} => z.recorder = d
    BY <1>2, <1>13 DEF Base, Held
  <2> QED BY <1>8, <1>13, <1>14, <1>15, <2>1, LetGo DEF SameHeld
<1>17. t.kind \in {"start", "end", "stop", "finish"} /\ Runs(z, i, t.kind)
  <2>1. /\ t.kind \in {"start", "end", "stop", "finish"}
        /\ t.kind = "finish" <=> i = FinishSlot
        /\ t.kind = "finish" => z.finished = "running"
        /\ t.kind = "start" => z.count < MaxConvs /\ Undone(t)
    BY <1>2, <1>4, <1>13 DEF Waits, Fits, Undone
  <2>2. /\ t.kind \in {"start", "end"} => \A j \in J : z.tasks[j].kind \notin {"start", "end"}
        /\ \A j \in J : z.tasks[j].at # "closing" /\ ~Undone(z.tasks[j])
    BY <1>2, <1>5, <1>13 DEF Beside
  <2>3. ~Crossed /\ t.kind = "start" => \A j \in J : z.tasks[j].kind \in {"none", "arm"}
    BY <1>6, <1>13, <2>1 DEF BesideOwn
  <2> QED BY <2>1, <2>2, <2>3 DEF Runs
<1>18. ASSUME ~Crossed PROVE Own(z, J) /\ NoDrain(z)
  <2>1. Own(y, Slot) /\ Own(s, Slot)
    BY <1>2, <1>8, <1>18
  <2>2. NoDrain(z)
    <3>1. \A d \in Conv : s.ses[d] = "draining" => d = c
      <4>1. \A d \in Conv : s.ses[d] = "draining" =>
               \E j \in Slot : s.tasks[j].at = "closing" /\ s.tasks[j].conv = d
        BY <2>1 DEF Own, TendedOwn
      <4>2. \A j \in J : s.tasks[j].at # "closing"
        BY <1>2, <1>5 DEF Beside
      <4> QED BY <1>7, <4>1, <4>2 DEF c
    <3> QED BY <1>10, <1>13, <3>1 DEF NoDrain
  <2>3. HeldOwn(z)
    BY <1>8, <1>13, <1>15, <2>1, <2>2 DEF Own, HeldOwn, NoDrain, SameBooks, SameHeld
  <2>4. \A j \in J : WaitsOwn(z, z.tasks[j])
    <3>1. \A j \in J : WaitsOwn(y, y.tasks[j])
      BY <2>1 DEF Own
    <3> QED BY <1>8, <1>13, <2>2, <3>1 DEF WaitsOwn, SameBooks
  <2>5. TendedOwn(z, J)
    BY <2>2 DEF TendedOwn, NoDrain
  <2>6. \A j, m \in J : j # m => BesideOwn(z.tasks[j], z.tasks[m])
    BY <1>13, <2>1 DEF Own
  <2> QED BY <2>2, <2>3, <2>4, <2>5, <2>6 DEF Own
<1>19. Clear(z, i, t.kind)
  BY <1>13, <1>16, <1>17, <1>18 DEF Clear
<1> QED BY <1>3, <1>13, <1>19, CloseRecordingInv

LEMMA RecorderOpensInv ==
    ASSUME Inv(s), NEW i \in Slot, RecorderOpens(i)
    PROVE  Inv(s')
<1> DEFINE J == Slot \ {i}
           c == s.tasks[i].conv
           v == IF s.rec[c] = "doomed" THEN "done" ELSE "on"
           rr == [s.rec EXCEPT ![c] = v]
           y == [s EXCEPT !.rec = rr]
<1>1. Base(s, Slot) /\ HasSession(s) /\ (~Crossed => Own(s, Slot)) /\ s \in State /\ Held(s)
  BY DEF Inv, Base
<1>2. s.tasks[i].at = "arming" /\ s' = Return(y, i)
  BY DEF RecorderOpens, Wakes
<1>3. c \in Conv /\ s.rec[c] \in {"opening", "doomed"}
  BY <1>1, <1>2, IdleAt DEF Waits
<1>4. c = s.tasks[i].conv
  OBVIOUS
<1> HIDE DEF c
<1>5. v \in {"on", "done"} /\ (v = "on" => s.rec[c] = "opening")
  BY <1>3
<1> HIDE DEF v
<1>6. /\ rr \in [Conv -> {"none", "idle", "opening", "doomed", "on", "stopping", "done"}]
      /\ rr[c] = v /\ \A d \in Conv : d # c => rr[d] = s.rec[d]
  BY <1>1, <1>3, <1>5, Fields
<1> HIDE DEF rr
<1>7. y \in State
  BY <1>1, <1>6 DEF State
<1>8. /\ y.rec = rr /\ y.recorder = s.recorder /\ y.tasks = s.tasks /\ y.count = s.count
      /\ y.finished = s.finished /\ y.conn = s.conn /\ y.session = s.session
      /\ y.ledger = s.ledger /\ y.ses = s.ses /\ SameBooks(s, y)
  BY <1>1 DEF State, SameBooks
<1> HIDE DEF y
<1>9. Base(y, J) /\ (Own(s, Slot) => Own(y, J))
  <2>1. /\ \A d \in Conv : s.rec[d] \in {"opening", "on"} /\ d # c => y.recorder = d
        /\ y.rec[c] = "on" => y.recorder = c
        /\ y.rec[c] \in {"on", "done"} /\ \A d \in Conv : d # c => y.rec[d] = s.rec[d]
    BY <1>1, <1>3, <1>5, <1>6, <1>8 DEF Held
  <2> QED BY <1>1, <1>2, <1>4, <1>7, <1>8, <2>1, RecDone
<1>10. Parted(y, i, "stop")
  BY <1>1, <1>2, <1>8 DEF HasSession, Parted
<1> QED BY <1>1, <1>2, <1>9, <1>10, ReturnInv

LEMMA RecorderFailsInv ==
    ASSUME Inv(s), NEW i \in Slot, RecorderFailsToOpen(i)
    PROVE  Inv(s')
<1> DEFINE J == Slot \ {i}
           c == s.tasks[i].conv
           rr == [s.rec EXCEPT ![c] = "done"]
           r == IF s.recorder = c THEN None ELSE s.recorder
           a == [s EXCEPT !.rec = rr]
           y == [a EXCEPT !.recorder = r]
<1>1. Base(s, Slot) /\ HasSession(s) /\ (~Crossed => Own(s, Slot)) /\ s \in State /\ Held(s)
  BY DEF Inv, Base
<1>2. s.tasks[i].at = "arming" /\ s' = Return(y, i)
  <2>1. s' = Return([s EXCEPT !.rec[c] = "done",
                           !.recorder = IF s.recorder = c THEN None ELSE s.recorder], i)
    BY DEF RecorderFailsToOpen
  <2>2. [s EXCEPT !.rec[c] = "done", !.recorder = IF s.recorder = c THEN None ELSE s.recorder] = y
    BY <1>1 DEF State
  <2> HIDE DEF y
  <2> QED BY <2>1, <2>2 DEF RecorderFailsToOpen, Wakes
<1>3. c \in Conv /\ s.rec[c] \in {"opening", "doomed"}
  BY <1>1, <1>2, IdleAt DEF Waits
<1>4. c = s.tasks[i].conv
  OBVIOUS
<1>5. r \in {s.recorder, None} /\ (s.recorder # c => r = s.recorder) /\ r \in Conv \cup {None}
  BY <1>1, Fields
<1> HIDE DEF c, r
<1>6. /\ rr \in [Conv -> {"none", "idle", "opening", "doomed", "on", "stopping", "done"}]
      /\ rr[c] = "done" /\ \A d \in Conv : d # c => rr[d] = s.rec[d]
  BY <1>1, <1>3, Fields
<1> HIDE DEF rr
<1>7. a \in State
  BY <1>1, <1>6 DEF State
<1>8. /\ a.rec = rr /\ a.recorder = s.recorder /\ a.tasks = s.tasks /\ a.count = s.count
      /\ a.finished = s.finished /\ a.conn = s.conn /\ a.session = s.session
      /\ a.ledger = s.ledger /\ a.ses = s.ses /\ SameBooks(s, a)
  BY <1>1 DEF State, SameBooks
<1> HIDE DEF a
<1>9. /\ y \in State /\ y.rec = rr /\ y.recorder = r /\ y.tasks = s.tasks /\ y.count = s.count
      /\ y.finished = s.finished /\ y.conn = s.conn /\ y.session = s.session
      /\ y.ledger = s.ledger /\ y.ses = s.ses /\ SameBooks(s, y)
  <2>1. y \in State
    BY <1>5, <1>7 DEF State
  <2>2. /\ y.rec = a.rec /\ y.recorder = r /\ y.tasks = a.tasks /\ y.count = a.count
        /\ y.finished = a.finished /\ y.conn = a.conn /\ y.session = a.session
        /\ y.ledger = a.ledger /\ y.ses = a.ses /\ SameBooks(a, y)
    BY <1>7 DEF State, SameBooks
  <2> QED BY <1>8, <2>1, <2>2 DEF SameBooks
<1> HIDE DEF y
<1>10. Base(y, J) /\ (Own(s, Slot) => Own(y, J))
  <2>1. /\ \A d \in Conv : s.rec[d] \in {"opening", "on"} /\ d # c => y.recorder = d
        /\ y.rec[c] = "on" => y.recorder = c
        /\ y.rec[c] \in {"on", "done"} /\ \A d \in Conv : d # c => y.rec[d] = s.rec[d]
        /\ y.recorder \in {s.recorder, None}
    BY <1>1, <1>5, <1>6, <1>9 DEF Held
  <2> QED BY <1>1, <1>2, <1>4, <1>9, <2>1, RecDone
<1>11. Parted(y, i, "stop")
  BY <1>1, <1>2, <1>5, <1>9 DEF HasSession, Parted
<1> QED BY <1>1, <1>2, <1>10, <1>11, ReturnInv

\* A handler that waited for the disk goes on.
LEMMA Resumes ==
    ASSUME Inv(s), NEW i \in Slot, s.tasks[i].at \in {"recStop", "unlink", "saving"},
           NEW y, y.tasks = s.tasks, y.count = s.count, y.finished = s.finished,
           y.session = s.session, y.recorder = s.recorder, y.ses = s.ses,
           Base(y, Slot \ {i}), Own(s, Slot) => Own(y, Slot \ {i})
    PROVE  /\ Clear(y, i, s.tasks[i].kind) /\ Parted(y, i, s.tasks[i].kind)
           /\ s.tasks[i].conv \in Conv /\ s.tasks[i].conv <= s.count
           /\ ~Crossed => \A j \in Slot \ {i} : ~Undone(y.tasks[j])
<1> DEFINE J == Slot \ {i}
           t == s.tasks[i]
<1>1. Base(s, Slot) /\ HasSession(s) /\ (~Crossed => Own(s, Slot)) /\ s \in State
  BY DEF Inv, Base
<1>2. /\ Waits(s, i, t) /\ Fits(i, t) /\ t.conv \in Conv
      /\ \A j \in J : Beside(t, s.tasks[j]) /\ Beside(s.tasks[j], t)
      /\ t.at \in {"recStop", "unlink", "saving"}
  BY <1>1, IdleAt DEF Base
<1>3. ~Crossed => /\ \A j \in J : BesideOwn(t, s.tasks[j]) /\ BesideOwn(s.tasks[j], t)
                  /\ s.session = None /\ NoDrain(s)
  BY <1>1 DEF Own, WaitsOwn
<1> HIDE DEF t
<1>4. /\ t.kind \in {"start", "end", "stop", "finish"}
      /\ t.kind = "finish" <=> i = FinishSlot
      /\ t.kind = "finish" => y.finished = "running"
      /\ t.kind = "start" => /\ Undone(t) /\ y.count < MaxConvs
                             /\ y.session = None /\ y.recorder = None
      /\ t.conv <= s.count
  BY <1>2 DEF Waits, Fits, Undone
<1>5. /\ t.kind \in {"start", "end"} => \A j \in J : y.tasks[j].kind \notin {"start", "end"}
      /\ t.kind = "start" => \A j \in J : y.tasks[j].at # "closing"
  BY <1>2, <1>4 DEF Beside
<1>6. ~Crossed => /\ t.kind = "start" => \A j \in J : y.tasks[j].kind \in {"none", "arm"}
                  /\ \A j \in J : ~Undone(y.tasks[j])
  BY <1>3, <1>4 DEF BesideOwn
<1>7. Runs(y, i, t.kind)
  BY <1>4, <1>5, <1>6 DEF Runs
<1>8. Clear(y, i, t.kind)
  BY <1>1, <1>3, <1>4, <1>7 DEF Clear, NoDrain
<1>9. Parted(y, i, t.kind)
  <2>1. s.tasks[i].at # "catchStop"
    OBVIOUS
  <2> QED BY <1>1, <1>4, <2>1 DEF Parted, HasSession
<1> QED BY <1>1, <1>2, <1>4, <1>6, <1>8, <1>9 DEF t

\* The recording of a conversation without a turn is deleted.
LEMMA UnlinkInv ==
    ASSUME NEW x, NEW i, NEW k, NEW c \in Conv, Clear(x, i, k), Parted(x, i, k),
           c <= x.count, ~Crossed => \A j \in Slot \ {i} : ~Undone(x.tasks[j])
    PROVE  Inv(Sleep(x, i, k, "unlink", c, 0))
<1> DEFINE J == Slot \ {i}
           t == [kind |-> k, at |-> "unlink", conv |-> c, sum |-> 0]
           z == [x EXCEPT !.tasks[i] = t]
<1>1. x \in State /\ Runs(x, i, k) /\ Base(x, J) /\ i \in Slot
      /\ k \in {"start", "end", "stop", "finish"}
      /\ (k = "start" => x.session = None /\ x.recorder = None)
  BY DEF Clear, Parted, Runs, Base
<1>2. Sleep(x, i, k, "unlink", c, 0) = z
  BY DEF Sleep
<1>3. t \in Task /\ t.kind = k /\ t.at = "unlink" /\ t.conv = c
  BY <1>1, Sizes DEF Task
<1> HIDE DEF t, z
<1>4. /\ z \in State /\ z.tasks = [x.tasks EXCEPT ![i] = t] /\ SameHeld(x, z) /\ SameBooks(x, z)
  BY <1>1, <1>3, TaskSet DEF z
<1>5. z.tasks[i] = t /\ \A j \in J : z.tasks[j] = x.tasks[j]
  <2>1. x.tasks \in [Slot -> Task] /\ i \in Slot
    BY <1>1, Fields
  <2> QED BY <1>4, <2>1
<1>6. Quiescent(x, J)
  BY <1>1 DEF Base, Quiescent
<1>7. Tended(z, Slot) /\ Queue(z, Slot)
  BY <1>1, <1>3, StillTended DEF Base, z
<1>8. Waits(x, i, t)
  <2>1. Fits(i, t)
    BY <1>1, <1>3 DEF Fits, Runs
  <2> QED BY <1>1, <1>3, <2>1 DEF Waits, Runs, Undone, StopsRec
<1>9. \A j \in J : Beside(t, x.tasks[j]) /\ Beside(x.tasks[j], t)
  BY <1>1, <1>3 DEF Beside, Runs, Undone, StopsRec
<1>10. Base(z, Slot)
  BY <1>1, <1>3, <1>6, <1>7, <1>8, <1>9, SleepsBase DEF z
<1>11. HasSession(z)
  BY <1>4, <1>5 DEF HasSession, Parted, SameHeld
<1>12. ASSUME ~Crossed PROVE Own(z, Slot)
  <2>1. Own(x, J) /\ NoDrain(x) /\ x.session = None
    BY <1>12 DEF Clear
  <2>2. /\ HeldOwn(x) /\ \A j \in J : WaitsOwn(x, x.tasks[j])
        /\ \A j, m \in J : j # m => BesideOwn(x.tasks[j], x.tasks[m])
    BY <2>1 DEF Own
  <2>3. WaitsOwn(x, t)
    BY <1>3, <2>1 DEF WaitsOwn
  <2>4. \A j \in J : BesideOwn(t, x.tasks[j]) /\ BesideOwn(x.tasks[j], t)
    <3>1. \A j \in J : ~Undone(x.tasks[j])
      BY <1>12
    <3> QED BY <1>1, <1>3, <1>12, <3>1 DEF BesideOwn, Undone, Runs
  <2>5. TendedOwn(z, Slot)
    BY <1>1, <1>3, <2>1, StillTended DEF Own, z
  <2> QED BY <1>1, <1>3, <2>2, <2>3, <2>4, <2>5, SleepsOwn DEF z
<1> QED BY <1>2, <1>10, <1>11, <1>12 DEF Inv

\* stop() of a recorder has ended, with a recording or without.
LEMMA RecStopped ==
    ASSUME Inv(s), NEW i \in Slot, StopsRec(s.tasks[i]), NEW y,
           \/ y = Recorded(s.tasks[i].conv)
           \/ y = [s EXCEPT !.rec[s.tasks[i].conv] = "done"]
    PROVE  /\ y.tasks = s.tasks /\ y.count = s.count /\ y.finished = s.finished
           /\ y.session = s.session /\ y.recorder = s.recorder /\ y.ses = s.ses
           /\ y.conn = s.conn /\ y.ledger = s.ledger
           /\ SameBooks(s, y) /\ y \in State /\ y.rec[s.tasks[i].conv] = "done"
           /\ \A d \in Conv : d # s.tasks[i].conv => y.rec[d] = s.rec[d]
           /\ Base(y, Slot \ {i}) /\ (Own(s, Slot) => Own(y, Slot \ {i}))
<1> DEFINE J == Slot \ {i}
           c == s.tasks[i].conv
           rr == [s.rec EXCEPT ![c] = "done"]
           mm == [s.made EXCEPT ![c] = TRUE]
           ww == [s.wav EXCEPT ![c] = TRUE]
           a == [s EXCEPT !.rec = rr]
           a1 == [a EXCEPT !.made = mm]
           a2 == [a1 EXCEPT !.wav = ww]
<1>1. Base(s, Slot) /\ s \in State /\ Held(s)
  BY DEF Inv, Base
<1>2. c \in Conv /\ s.rec[c] = "stopping"
  BY <1>1, IdleAt DEF Waits, StopsRec
<1>3. y = a2 \/ y = a
  <2>1. Recorded(c) = a2
    BY <1>1 DEF Recorded, State
  <2> HIDE DEF a2
  <2>2. y = Recorded(c) \/ y = a
    OBVIOUS
  <2> QED BY <2>1, <2>2
<1>4. c = s.tasks[i].conv
  OBVIOUS
<1> HIDE DEF c
<1>5. /\ rr \in [Conv -> {"none", "idle", "opening", "doomed", "on", "stopping", "done"}]
      /\ rr[c] = "done" /\ \A d \in Conv : d # c => rr[d] = s.rec[d]
  BY <1>1, <1>2, Fields
<1>6. mm \in [Conv -> BOOLEAN] /\ ww \in [Conv -> BOOLEAN]
  BY <1>1, <1>2 DEF State
<1> HIDE DEF rr, mm, ww
<1>7. a \in State
  BY <1>1, <1>5 DEF State
<1>8. /\ a.rec = rr /\ a.recorder = s.recorder /\ a.tasks = s.tasks /\ a.count = s.count
      /\ a.finished = s.finished /\ a.conn = s.conn /\ a.session = s.session
      /\ a.ledger = s.ledger /\ a.ses = s.ses /\ SameBooks(s, a)
  BY <1>1 DEF State, SameBooks
<1> HIDE DEF a
<1>9. a1 \in State
  BY <1>6, <1>7 DEF State
<1>10. /\ a1.rec = a.rec /\ a1.recorder = a.recorder /\ a1.tasks = a.tasks
       /\ a1.count = a.count /\ a1.finished = a.finished /\ a1.conn = a.conn
       /\ a1.session = a.session /\ a1.ledger = a.ledger /\ a1.ses = a.ses /\ SameBooks(a, a1)
  BY <1>7 DEF State, SameBooks
<1> HIDE DEF a1
<1>11. a2 \in State
  BY <1>6, <1>9 DEF State
<1>12. /\ a2.rec = a1.rec /\ a2.recorder = a1.recorder /\ a2.tasks = a1.tasks
       /\ a2.count = a1.count /\ a2.finished = a1.finished /\ a2.conn = a1.conn
       /\ a2.session = a1.session /\ a2.ledger = a1.ledger /\ a2.ses = a1.ses
       /\ SameBooks(a1, a2)
  BY <1>9 DEF State, SameBooks
<1> HIDE DEF a2
<1>13. /\ y \in State
       /\ y.rec = rr /\ y.recorder = s.recorder /\ y.tasks = s.tasks /\ y.count = s.count
       /\ y.finished = s.finished /\ y.conn = s.conn /\ y.session = s.session
       /\ y.ledger = s.ledger /\ y.ses = s.ses /\ SameBooks(s, y)
  <2>1. SameBooks(s, a2)
    BY <1>8, <1>10, <1>12 DEF SameBooks
  <2> QED BY <1>3, <1>7, <1>8, <1>10, <1>11, <1>12, <2>1
<1>14. Base(y, J) /\ (Own(s, Slot) => Own(y, J))
  <2>1. /\ \A d \in Conv : s.rec[d] \in {"opening", "on"} /\ d # c => y.recorder = d
        /\ y.rec[c] = "on" => y.recorder = c
        /\ y.rec[c] \in {"on", "done"} /\ \A d \in Conv : d # c => y.rec[d] = s.rec[d]
    BY <1>1, <1>5, <1>13 DEF Held
  <2> QED BY <1>1, <1>4, <1>13, <2>1, RecDone
<1> QED BY <1>4, <1>5, <1>13, <1>14

LEMMA RecordingMadeInv ==
    ASSUME Inv(s), NEW i \in Slot, RecordingMade(i)
    PROVE  Inv(s')
<1> DEFINE c == s.tasks[i].conv
           k == s.tasks[i].kind
           y == Recorded(c)
<1>1. s.tasks[i].at = "recStop"
  BY DEF RecordingMade, Wakes
<1>2. PICK b \in BOOLEAN :
        s' = IF Unbilled(y) THEN Sleep(y, i, k, "unlink", c, 0)
             ELSE AfterRecording(y, i, k, b)
  BY DEF RecordingMade
<1>3. StopsRec(s.tasks[i]) /\ (y = Recorded(c) \/ y = [s EXCEPT !.rec[c] = "done"])
  BY <1>1 DEF StopsRec
<1> HIDE DEF y
<1>4. /\ y.tasks = s.tasks /\ y.count = s.count /\ y.finished = s.finished
      /\ y.session = s.session /\ y.recorder = s.recorder /\ y.ses = s.ses
      /\ Base(y, Slot \ {i}) /\ (Own(s, Slot) => Own(y, Slot \ {i}))
  BY <1>3, RecStopped
<1>5. /\ Clear(y, i, k) /\ Parted(y, i, k) /\ c \in Conv /\ c <= y.count
      /\ ~Crossed => \A j \in Slot \ {i} : ~Undone(y.tasks[j])
  BY <1>1, <1>4, Resumes
<1> HIDE DEF c, k
<1> QED BY <1>2, <1>5, UnlinkInv, AfterRecordingInv

LEMMA NothingRecordedInv ==
    ASSUME Inv(s), NEW i \in Slot, NothingRecorded(i)
    PROVE  Inv(s')
<1> DEFINE c == s.tasks[i].conv
           k == s.tasks[i].kind
           y == [s EXCEPT !.rec[c] = "done"]
<1>1. s.tasks[i].at = "recStop"
  BY DEF NothingRecorded, Wakes
<1>2. PICK b \in BOOLEAN : s' = AfterRecording(y, i, k, b)
  BY DEF NothingRecorded
<1>3. StopsRec(s.tasks[i]) /\ (y = Recorded(c) \/ y = [s EXCEPT !.rec[c] = "done"])
  BY <1>1 DEF StopsRec
<1> HIDE DEF y
<1>4. /\ y.tasks = s.tasks /\ y.count = s.count /\ y.finished = s.finished
      /\ y.session = s.session /\ y.recorder = s.recorder /\ y.ses = s.ses
      /\ Base(y, Slot \ {i}) /\ (Own(s, Slot) => Own(y, Slot \ {i}))
  BY <1>3, RecStopped
<1>5. Clear(y, i, k) /\ Parted(y, i, k)
  BY <1>1, <1>4, Resumes
<1> HIDE DEF k
<1> QED BY <1>2, <1>5, AfterRecordingInv

LEMMA UnlinkedInv ==
    ASSUME Inv(s), NEW i \in Slot, Unlinked(i)
    PROVE  Inv(s')
<1> DEFINE c == s.tasks[i].conv
           k == s.tasks[i].kind
           J == Slot \ {i}
           ww == [s.wav EXCEPT ![c] = FALSE]
           y == [s EXCEPT !.wav = ww]
<1>1. s.tasks[i].at = "unlink" /\ Base(s, Slot) /\ (~Crossed => Own(s, Slot)) /\ s \in State
  BY DEF Unlinked, Wakes, Inv, Base
<1>2. PICK b \in BOOLEAN : s' = AfterRecording(y, i, k, b)
  BY DEF Unlinked
<1>3. ww \in [Conv -> BOOLEAN]
  BY <1>1, IdleAt DEF State
<1> HIDE DEF ww
<1>4. y \in State
  BY <1>1, <1>3 DEF State
<1>5. SameRest(s, y) /\ SameBooks(s, y)
  BY <1>1 DEF State, SameRest, SameHeld, SameBooks
<1> HIDE DEF y
<1>6. Base(s, J) /\ (Own(s, Slot) => Own(s, J))
  BY <1>1, DropBase, DropOwn
<1>7. Base(y, J)
  <2>1. /\ \A d \in Conv : y.turns[d] <= y.reported[d]
        /\ \A d \in Conv : s.ledger = d \/ d > s.count => y.turns[d] = y.reported[d]
        /\ Filed(y) /\ Queue(y, J)
    BY <1>5, <1>6 DEF Base, Held, Filed, Queue, SameRest, SameBooks
  <2> QED BY <1>4, <1>5, <1>6, <2>1, RestBase
<1>8. ASSUME Own(s, Slot) PROVE Own(y, J)
  <2>1. Own(s, J)
    BY <1>6, <1>8
  <2>2. \A d \in Conv : Live(y, d) \/ y.ses[d] = "draining" => y.ledger = d
    BY <1>5, <2>1 DEF Own, HeldOwn, Live, SameRest, SameHeld
  <2> QED BY <1>1, <1>4, <1>5, <2>1, <2>2, LetGoOwn DEF SameRest, SameHeld
<1>9. Clear(y, i, k) /\ Parted(y, i, k)
  BY <1>1, <1>5, <1>7, <1>8, Resumes DEF SameRest, SameHeld
<1> HIDE DEF k
<1> QED BY <1>2, <1>9, AfterRecordingInv

LEMMA CatchStoppedInv ==
    ASSUME Inv(s), NEW i \in Slot, CatchStopped(i)
    PROVE  Inv(s')
<1> DEFINE c == s.tasks[i].conv
           J == Slot \ {i}
<1>1. s.tasks[i].at = "catchStop" /\ Base(s, Slot) /\ (~Crossed => Own(s, Slot)) /\ s \in State
  BY DEF CatchStopped, Wakes, Inv, Base
<1>2. PICK made \in BOOLEAN :
        s' = Return([(IF made THEN Recorded(c) ELSE [s EXCEPT !.rec[c] = "done"])
                       EXCEPT !.recorder = None], i)
  BY DEF CatchStopped
<1> DEFINE y == IF made THEN Recorded(c) ELSE [s EXCEPT !.rec[c] = "done"]
           z == [y EXCEPT !.recorder = None]
<1>3. StopsRec(s.tasks[i]) /\ (y = Recorded(c) \/ y = [s EXCEPT !.rec[c] = "done"])
      /\ s' = Return(z, i)
  BY <1>1, <1>2 DEF StopsRec
<1> HIDE DEF y
<1>4. /\ y.tasks = s.tasks /\ y.count = s.count /\ y.finished = s.finished
      /\ y.session = s.session /\ y.recorder = s.recorder /\ y.ses = s.ses
      /\ y.conn = s.conn /\ y.ledger = s.ledger /\ SameBooks(s, y) /\ y \in State
      /\ y.rec[c] = "done" /\ \A d \in Conv : d # c => y.rec[d] = s.rec[d]
      /\ Base(y, J) /\ (Own(s, Slot) => Own(y, J))
  BY <1>3, RecStopped
<1>5. z \in State
  BY <1>4, Sizes DEF State
<1>6. /\ z.tasks = y.tasks /\ z.count = y.count /\ z.finished = y.finished
      /\ z.session = y.session /\ z.recorder = None /\ z.ses = y.ses /\ z.rec = y.rec
      /\ z.conn = y.conn /\ z.ledger = y.ledger /\ SameBooks(y, z)
  BY <1>4 DEF State, SameBooks
<1> HIDE DEF z
<1>7. Base(z, J)
  <2>1. \A d \in Conv : y.rec[d] \notin {"opening", "on"}
    <3>1. s.recorder \in {None, c}
      BY <1>1 DEF Base, Waits
    <3>2. \A d \in Conv : y.rec[d] \in {"opening", "on"} => d # c /\ s.recorder = d
      BY <1>1, <1>4 DEF Base, Held
    <3> QED BY <3>1, <3>2, Sizes
  <2>2. \A d \in Conv : Live(z, d) => z.session = d
    BY <1>4, <1>6 DEF Base, Held, Live
  <2> QED BY <1>4, <1>5, <1>6, <2>1, <2>2, LetGo
<1>8. ~Crossed => Own(z, J)
  <2>1. Own(y, J) => \A d \in Conv : Live(z, d) \/ z.ses[d] = "draining" => z.ledger = d
    BY <1>6 DEF Own, HeldOwn, Live
  <2> QED BY <1>1, <1>4, <1>5, <1>6, <2>1, LetGoOwn
<1>9. Parted(z, i, "start")
  BY <1>6 DEF Parted
<1> QED BY <1>3, <1>7, <1>8, <1>9, ReturnInv

\* The store has written the save at the head of its queue, or failed to.
LEMMA StoreWritesInv ==
    ASSUME Inv(s), StoreWrites
    PROVE  Inv(s')
<1> DEFINE e == Head(s.saves)
           n == Len(s.saves)
           q == Tail(s.saves)
<1>1. PICK ok \in BOOLEAN, b \in BOOLEAN :
        s' = Settle([s EXCEPT !.saves = Tail(s.saves),
                              !.filed[e.conv] = IF ok THEN e.turns ELSE s.filed[e.conv],
                              !.unsaved[e.conv] = s.unsaved[e.conv] \/ ~ok], e, b)
  BY DEF StoreWrites
<1> DEFINE v == IF ok THEN e.turns ELSE s.filed[e.conv]
           w == s.unsaved[e.conv] \/ ~ok
           fl == [s.filed EXCEPT ![e.conv] = v]
           us == [s.unsaved EXCEPT ![e.conv] = w]
           a == [s EXCEPT !.saves = q]
           a1 == [a EXCEPT !.filed = fl]
           y == [a1 EXCEPT !.unsaved = us]
<1>2. Base(s, Slot) /\ HasSession(s) /\ (~Crossed => Own(s, Slot)) /\ s \in State
  BY DEF Inv, Base
<1>3. s' = Settle(y, e, b)
  <2>1. [s EXCEPT !.saves = Tail(s.saves),
                  !.filed[e.conv] = IF ok THEN e.turns ELSE s.filed[e.conv],
                  !.unsaved[e.conv] = s.unsaved[e.conv] \/ ~ok] = y
    BY <1>2 DEF State
  <2> QED BY <1>1, <2>1
<1>4. /\ s.saves \in Seq(Save) /\ s.saves # << >>
  BY <1>2, Fields DEF StoreWrites
<1>5. /\ n \in Nat \ {0} /\ e \in Save /\ e = s.saves[1] /\ q \in Seq(Save) /\ Len(q) = n - 1
      /\ \A k \in 1..Len(q) : q[k] = s.saves[k + 1]
  BY <1>4, HeadTailProperties
<1>6. e.conv \in Conv /\ e.turns \in 0..MaxTurns /\ e.slot \in Slot /\ e.awaited \in BOOLEAN
  BY <1>5 DEF Save
<1> HIDE DEF e, n, q
<1>7. v \in 0..MaxTurns /\ w \in BOOLEAN /\ (ok => v = e.turns) /\ (~ok => w)
      /\ (s.unsaved[e.conv] => w)
  BY <1>2, <1>6, Fields
<1> HIDE DEF v, w
<1>8. /\ fl \in [Conv -> 0..MaxTurns] /\ us \in [Conv -> BOOLEAN]
      /\ fl[e.conv] = v /\ us[e.conv] = w
      /\ \A d \in Conv : d # e.conv => fl[d] = s.filed[d] /\ us[d] = s.unsaved[d]
  BY <1>2, <1>6, <1>7, Fields
<1> HIDE DEF fl, us
<1>9. a \in State
  BY <1>2, <1>5 DEF State
<1>10. /\ SameHeld(s, a) /\ a.tasks = s.tasks /\ a.reported = s.reported
       /\ a.turns = s.turns /\ a.told = s.told /\ a.saves = q
  BY <1>2 DEF State, SameHeld
<1> HIDE DEF a
<1>11. a1 \in State
  BY <1>8, <1>9 DEF State
<1>12. /\ SameHeld(a, a1) /\ a1.tasks = a.tasks /\ a1.reported = a.reported
       /\ a1.turns = a.turns /\ a1.told = a.told /\ a1.saves = a.saves /\ a1.filed = fl
  BY <1>9 DEF State, SameHeld
<1> HIDE DEF a1
<1>13. y \in State
  BY <1>8, <1>11 DEF State
<1>14. /\ SameHeld(a1, y) /\ y.tasks = a1.tasks /\ y.reported = a1.reported
       /\ y.turns = a1.turns /\ y.told = a1.told /\ y.saves = a1.saves
       /\ y.filed = a1.filed /\ y.unsaved = us
  BY <1>11 DEF State, SameHeld
<1> HIDE DEF y
<1>15. /\ SameHeld(s, y) /\ y.tasks = s.tasks /\ y.reported = s.reported
       /\ y.turns = s.turns /\ y.told = s.told /\ y.saves = q /\ y.filed = fl /\ y.unsaved = us
  BY <1>10, <1>12, <1>14 DEF SameHeld
<1>16. /\ \A k \in 1..(n - 1) : k + 1 \in 1..n /\ k + 1 # 1 /\ y.saves[k] = s.saves[k + 1]
       /\ \A m \in 1..n : m = 1 \/ (m - 1 \in 1..(n - 1) /\ m = (m - 1) + 1)
       /\ Len(y.saves) = n - 1 /\ 1 \in 1..n
  BY <1>5, <1>15
<1>17. Filed(y)
  <2> SUFFICES ASSUME NEW d \in Conv
               PROVE  /\ \A k \in 1..(n - 1) :
                           y.saves[k].conv = d
                             /\ (\A m \in 1..(n - 1) : m > k => y.saves[m].conv # d)
                             => y.saves[k].turns = y.turns[d]
                      /\ (\A k \in 1..(n - 1) : y.saves[k].conv # d)
                           => y.unsaved[d] \/ y.filed[d] = y.turns[d]
    BY <1>16 DEF Filed
  <2>1. /\ \A k \in 1..n :
             s.saves[k].conv = d /\ (\A m \in 1..n : m > k => s.saves[m].conv # d)
               => s.saves[k].turns = s.turns[d]
        /\ (\A k \in 1..n : s.saves[k].conv # d)
             => s.unsaved[d] \/ s.filed[d] = s.turns[d]
    BY <1>2 DEF Base, Filed, n
  <2>2. ASSUME NEW k \in 1..(n - 1), y.saves[k].conv = d,
               \A m \in 1..(n - 1) : m > k => y.saves[m].conv # d
        PROVE  y.saves[k].turns = y.turns[d]
    <3>1. \A m \in 1..n : m > k + 1 => m # 1 /\ m - 1 > k
      BY <1>5
    <3>2. \A m \in 1..n : m > k + 1 => s.saves[m].conv # d
      <4> SUFFICES ASSUME NEW m \in 1..n, m > k + 1 PROVE s.saves[m].conv # d
        OBVIOUS
      <4> DEFINE r == m - 1
      <4>1. r \in 1..(n - 1) /\ r > k /\ m = r + 1
        BY <1>16, <3>1
      <4> HIDE DEF r
      <4> QED BY <1>16, <2>2, <4>1
    <3> DEFINE p == k + 1
    <3>3. p \in 1..n /\ s.saves[p] = y.saves[k] /\ (\A m \in 1..n : m > p => s.saves[m].conv # d)
      BY <1>16, <3>2
    <3> HIDE DEF p
    <3>4. s.saves[p].turns = s.turns[d]
      BY <2>1, <2>2, <3>3
    <3> QED BY <1>15, <3>3, <3>4
  <2>3. ASSUME \A k \in 1..(n - 1) : y.saves[k].conv # d
        PROVE  y.unsaved[d] \/ y.filed[d] = y.turns[d]
    <3>1. \A m \in 1..n : m # 1 => s.saves[m].conv # d
      BY <1>16, <2>3
    <3>2. CASE e.conv = d
      <4>1. \A m \in 1..n : m > 1 => s.saves[m].conv # d
        BY <3>1
      <4>2. e.turns = s.turns[d]
        BY <1>5, <1>16, <2>1, <3>2, <4>1
      <4> QED BY <1>7, <1>8, <1>15, <3>2, <4>2
    <3>3. CASE e.conv # d
      <4>1. \A m \in 1..n : s.saves[m].conv # d
        BY <1>5, <3>1, <3>3
      <4> QED BY <1>8, <1>15, <2>1, <3>3, <4>1
    <3> QED BY <3>2, <3>3
  <2> QED BY <2>2, <2>3
<1>18. /\ \A k \in 1..(n - 1) : y.saves[k].awaited =>
             /\ y.saves[k].slot \in Slot /\ y.tasks[y.saves[k].slot].at = "saving"
             /\ e.awaited => y.saves[k].slot # e.slot
       /\ \A k, m \in 1..(n - 1) : k # m /\ y.saves[k].awaited /\ y.saves[m].awaited
             => y.saves[k].slot # y.saves[m].slot
       /\ e.awaited => s.tasks[e.slot].at = "saving"
  <2>1. /\ \A k \in 1..n : s.saves[k].awaited =>
             s.saves[k].slot \in Slot /\ s.tasks[s.saves[k].slot].at = "saving"
        /\ \A k, m \in 1..n : k # m /\ s.saves[k].awaited /\ s.saves[m].awaited
             => s.saves[k].slot # s.saves[m].slot
    BY <1>2 DEF Base, Queue, n
  <2>2. \A k, m \in 1..(n - 1) : k # m => k + 1 # m + 1
    BY <1>5
  <2>3. ASSUME NEW k \in 1..(n - 1), y.saves[k].awaited
        PROVE  /\ y.saves[k].slot \in Slot /\ y.tasks[y.saves[k].slot].at = "saving"
               /\ e.awaited => y.saves[k].slot # e.slot
    <3> DEFINE p == k + 1
    <3>1. p \in 1..n /\ p # 1 /\ s.saves[p] = y.saves[k] /\ 1 \in 1..n
      BY <1>16
    <3> HIDE DEF p
    <3>2. s.saves[p].awaited
      BY <2>3, <3>1
    <3>3. s.saves[p].slot \in Slot /\ s.tasks[s.saves[p].slot].at = "saving"
      BY <2>1, <3>1, <3>2
    <3>4. e.awaited => s.saves[p].slot # s.saves[1].slot
      BY <1>5, <2>1, <3>1, <3>2
    <3> QED BY <1>5, <1>15, <3>1, <3>3, <3>4
  <2>4. ASSUME NEW k \in 1..(n - 1), NEW m \in 1..(n - 1), k # m,
               y.saves[k].awaited, y.saves[m].awaited
        PROVE  y.saves[k].slot # y.saves[m].slot
    <3> DEFINE p == k + 1
               r == m + 1
    <3>1. p \in 1..n /\ r \in 1..n /\ p # r /\ s.saves[p] = y.saves[k] /\ s.saves[r] = y.saves[m]
      BY <1>16, <2>2, <2>4
    <3> HIDE DEF p, r
    <3> QED BY <2>1, <2>4, <3>1
  <2>5. e.awaited => s.tasks[e.slot].at = "saving"
    BY <1>5, <1>16, <2>1
  <2> QED BY <2>3, <2>4, <2>5
<1> DEFINE I == IF e.awaited THEN Slot \ {e.slot} ELSE Slot
<1>19. Base(y, I)
  <2>1. Held(y)
    BY <1>2, <1>15 DEF Base, Held, SameHeld, Live
  <2>2. \A j \in Slot : Waits(y, j, y.tasks[j])
    BY <1>2, <1>15 DEF Base, Waits, SameHeld, NoLive, Live
  <2>3. \A j, m \in Slot : j # m => Beside(y.tasks[j], y.tasks[m])
    BY <1>2, <1>15 DEF Base
  <2>4. Tended(y, I)
    <3>1. Tended(y, Slot)
      BY <1>2, <1>15 DEF Base, Tended, SameHeld
    <3>2. e.awaited => y.tasks[e.slot].at # "arming" /\ ~StopsRec(y.tasks[e.slot])
      BY <1>15, <1>18 DEF StopsRec
    <3> QED BY <3>1, <3>2 DEF Tended
  <2>5. Queue(y, I)
    BY <1>16, <1>18 DEF Queue
  <2>6. I \subseteq Slot
    OBVIOUS
  <2> HIDE DEF I
  <2> QED BY <1>13, <1>17, <2>1, <2>2, <2>3, <2>4, <2>5, <2>6 DEF Base
<1>20. Own(s, Slot) => Own(y, I)
  <2>1. Own(s, Slot) => HeldOwn(y)
    BY <1>15 DEF Own, HeldOwn, SameHeld, Live
  <2>2. Own(s, Slot) => \A j \in Slot : WaitsOwn(y, y.tasks[j])
    BY <1>15 DEF Own, WaitsOwn, SameHeld, NoDrain
  <2>3. Own(s, Slot) => TendedOwn(y, I)
    BY <1>15, <1>18 DEF Own, TendedOwn, SameHeld
  <2> QED BY <1>15, <2>1, <2>2, <2>3 DEF Own
<1>21. CASE ~e.awaited
  <2>1. HasSession(y)
    BY <1>2, <1>15 DEF HasSession, SameHeld
  <2>2. s' = y
    BY <1>3, <1>21 DEF Settle
  <2> QED BY <1>2, <1>19, <1>20, <1>21, <2>1, <2>2 DEF Inv
<1>22. CASE e.awaited
  <2> DEFINE i == e.slot
             t == s.tasks[i]
  <2>1. i \in Slot /\ t.at = "saving" /\ Base(y, Slot \ {i}) /\ (Own(s, Slot) => Own(y, Slot \ {i}))
    BY <1>6, <1>18, <1>19, <1>20, <1>22
  <2>2. /\ Clear(y, i, t.kind) /\ Parted(y, i, t.kind) /\ t.conv \in Conv /\ t.conv <= y.count
    BY <1>15, <2>1, Resumes DEF SameHeld
  <2>3. /\ t \in Task /\ Fits(i, t) /\ (WaitsOwn(s, t) \/ Crossed)
    BY <1>2, <2>1, IdleAt DEF Own
  <2>4. s' = IF t.kind = "finish" THEN FinishDone(y)
             ELSE SendSummary(y, i, t.kind, t.conv, t.sum, b)
    BY <1>3, <1>15, <1>22 DEF Settle
  <2>5. t \in Task /\ Fits(i, t)
    BY <1>2, <2>1, IdleAt
  <2> HIDE DEF i, t
  <2>6. t.kind \in {"start", "end", "finish"} /\ (t.kind = "finish" => i = FinishSlot)
        /\ t.sum \in 0..MaxTurns
    BY <2>1, <2>5, TaskFields DEF Fits
  <2>7. CASE t.kind = "finish"
    BY <2>2, <2>4, <2>6, <2>7, FinishDoneInv
  <2>8. CASE t.kind # "finish"
    <3>1. ~Crossed => y.told[t.conv] = << >> /\ t.sum = y.turns[t.conv] /\ t.conv <= y.count
      BY <1>15, <2>1, <2>2, <2>3, <2>8 DEF WaitsOwn
    <3>2. t.kind \in {"start", "end"}
      BY <2>6, <2>8
    <3> DEFINE k == t.kind
               c == t.conv
               m == t.sum
    <3>3. k \in {"start", "end"} /\ c \in Conv /\ m \in 0..MaxTurns /\ Clear(y, i, k)
          /\ Parted(y, i, k)
          /\ (~Crossed => y.told[c] = << >> /\ m = y.turns[c] /\ c <= y.count)
          /\ s' = SendSummary(y, i, k, c, m, b)
      BY <2>2, <2>4, <2>6, <2>8, <3>1, <3>2
    <3> HIDE DEF k, c, m
    <3> QED BY <3>3, SendSummaryInv
  <2> QED BY <2>7, <2>8
<1> QED BY <1>6, <1>21, <1>22

\* The client or the process has gone: the rest of the socket is as it was.
LEMMA GoneBase ==
    ASSUME NEW x, NEW y \in State, NEW J \in SUBSET Slot, Base(x, J),
           y.count = x.count, y.session = x.session, y.ledger = x.ledger,
           y.recorder = x.recorder, y.ses = x.ses, y.rec = x.rec, y.tasks = x.tasks,
           SameBooks(x, y), y.conn = "open" => y.finished = "no",
           x.finished = "running" => y.finished = "running"
    PROVE  /\ Base(y, J) /\ (Own(x, J) => Own(y, J)) /\ (HasSession(x) => HasSession(y))
           /\ NoDrain(x) => NoDrain(y)
<1>1. Held(y) /\ Filed(y)
  BY DEF Base, Held, Filed, Live, SameBooks
<1>2. \A i \in J : Waits(y, i, y.tasks[i])
  BY DEF Base, Waits, NoLive, Live
<1>3. Tended(y, J) /\ Queue(y, J)
  BY DEF Base, Tended, Queue, SameBooks
<1>4. Base(y, J)
  BY <1>1, <1>2, <1>3 DEF Base
<1>5. Own(x, J) => Own(y, J)
  BY DEF Own, HeldOwn, WaitsOwn, TendedOwn, NoDrain, Live, SameBooks
<1> QED BY <1>4, <1>5 DEF HasSession, NoDrain

\* finish(), once.
LEMMA FinishInv ==
    ASSUME Inv(s), Crossing(Draining \/ Replacing), NEW x \in State, NEW report \in MayReport(s),
           x.count = s.count, x.session = s.session, x.ledger = s.ledger,
           x.recorder = s.recorder, x.ses = s.ses, x.rec = s.rec, x.tasks = s.tasks,
           SameBooks(s, x), x.finished = s.finished, x.drains = s.drains,
           x.conn # "open"
    PROVE  Inv(Finish(x, report))
<1> DEFINE J == Slot \ {FinishSlot}
           y == [x EXCEPT !.finished = "running"]
<1>1. Base(s, Slot) /\ HasSession(s) /\ (~Crossed => Own(s, Slot)) /\ FinishSlot \in Slot
  BY Sizes DEF Inv
<1>2. CASE x.finished # "no"
  <2>1. Base(x, Slot) /\ (Own(s, Slot) => Own(x, Slot)) /\ HasSession(x)
    BY <1>1, GoneBase
  <2> QED BY <1>1, <1>2, <2>1 DEF Finish, Inv
<1>3. CASE x.finished = "no"
  <2>1. Finish(x, report) = WindUp(y, FinishSlot, "finish", report, TRUE)
    BY <1>3 DEF Finish
  <2>2. y \in State
    BY DEF State
  <2>3. /\ y.count = x.count /\ y.session = x.session /\ y.ledger = x.ledger
        /\ y.recorder = x.recorder /\ y.ses = x.ses /\ y.rec = x.rec /\ y.tasks = x.tasks
        /\ SameBooks(x, y) /\ y.finished = "running" /\ y.drains = x.drains /\ y.conn = x.conn
    BY DEF State, SameBooks
  <2> HIDE DEF y
  <2>4. SameBooks(s, y)
    BY <2>3 DEF SameBooks
  <2>5. s.tasks[FinishSlot].at = "idle"
    <3>1. s.tasks[FinishSlot].kind = "none"
      BY <1>1, <1>3, IdleAt DEF Waits, Fits
    <3> QED BY <1>1, <3>1, IdleAt
  <2>6. ~Crossed => /\ \A j \in Slot : s.tasks[j].at # "closing" /\ ~Undone(s.tasks[j])
                    /\ NoDrain(s)
    <3>1. ~Crossed => \A j \in Slot : s.tasks[j].at # "closing"
      BY DEF Crossing, Crossed, Draining
    <3>2. ~Crossed => \A j \in Slot : ~Undone(s.tasks[j])
      <4>1. ~Crossed => \A j \in Slot : s.tasks[j].kind = "start" =>
              s.tasks[j].at \notin {"recStop", "unlink", "saving"}
        BY DEF Crossing, Crossed, Replacing, Asleep
      <4>2. \A j \in Slot : s.tasks[j].kind = "start" => s.tasks[j].at \notin {"idle", "arming"}
        BY <1>1, IdleAt
      <4> QED BY <1>1, <3>1, <4>1, <4>2, IdleAt, TaskFields DEF Undone
    <3> QED BY <3>1, <3>2, NoDrainWhen
  <2>7. Base(s, J) /\ (Own(s, Slot) => Own(s, J))
    BY <1>1, <2>5, DropBase, DropOwn
  <2>8. Base(y, J) /\ (Own(s, J) => Own(y, J)) /\ (NoDrain(s) => NoDrain(y))
    BY <2>2, <2>3, <2>4, <2>7, GoneBase
  <2>9. Runs(y, FinishSlot, "finish")
    BY <1>1, <2>3, <2>6 DEF Runs
  <2>10. report \in MayReport(y)
    <3>1. y.drains = s.drains /\ y.session = s.session /\ y.ses = s.ses /\ y.reported = s.reported
      BY <2>3, <2>4 DEF SameBooks
    <3>2. MayReport(y) = MayReport(s)
      BY <3>1 DEF MayReport, Closable
    <3> QED BY <3>2
  <2> QED BY <1>1, <2>1, <2>6, <2>7, <2>8, <2>9, <2>10, WindUpInv
<1> QED BY <1>2, <1>3

LEMMA SocketClosesInv ==
    ASSUME Inv(s), SocketCloses
    PROVE  Inv(s')
<1> DEFINE y == [s EXCEPT !.conn = "closed"]
<1>1. s \in State
  BY DEF Inv, Base
<1>2. PICK report \in MayReport(s) : s' = Finish(y, report)
  BY DEF SocketCloses
<1>3. y \in State
  BY <1>1 DEF State
<1>4. /\ y.count = s.count /\ y.session = s.session /\ y.ledger = s.ledger
      /\ y.recorder = s.recorder /\ y.ses = s.ses /\ y.rec = s.rec /\ y.tasks = s.tasks
      /\ SameBooks(s, y) /\ y.finished = s.finished /\ y.drains = s.drains /\ y.conn # "open"
  BY <1>1 DEF State, SameBooks
<1> HIDE DEF y
<1> QED BY <1>2, <1>3, <1>4, FinishInv DEF SocketCloses

LEMMA ShutdownInv ==
    ASSUME Inv(s), Shutdown
    PROVE  Inv(s')
<1> DEFINE y == [s EXCEPT !.shutdown = TRUE]
           v == IF s.conn = "open" THEN "closing" ELSE s.conn
           z == [y EXCEPT !.conn = v]
<1>1. s \in State /\ Base(s, Slot) /\ HasSession(s) /\ (~Crossed => Own(s, Slot))
  BY DEF Inv, Base
<1>2. y \in State
  BY <1>1 DEF State
<1>3. /\ y.count = s.count /\ y.session = s.session /\ y.ledger = s.ledger
      /\ y.recorder = s.recorder /\ y.ses = s.ses /\ y.rec = s.rec /\ y.tasks = s.tasks
      /\ SameBooks(s, y) /\ y.finished = s.finished /\ y.drains = s.drains /\ y.conn = s.conn
  BY <1>1 DEF State, SameBooks
<1>4. PICK report \in MayReport(s) :
        s' = IF s.finished = "done" THEN y
             ELSE Finish([y EXCEPT !.conn = IF y.conn = "open" THEN "closing" ELSE y.conn], report)
  BY DEF Shutdown
<1>5. v \in {"open", "closing", "closed"} /\ v # "open"
  BY <1>1, Fields
<1>6. s' = IF s.finished = "done" THEN y ELSE Finish(z, report)
  BY <1>3, <1>4
<1> HIDE DEF y, v
<1>7. z \in State
  BY <1>2, <1>5 DEF State
<1>8. /\ z.count = y.count /\ z.session = y.session /\ z.ledger = y.ledger
      /\ z.recorder = y.recorder /\ z.ses = y.ses /\ z.rec = y.rec /\ z.tasks = y.tasks
      /\ SameBooks(y, z) /\ z.finished = y.finished /\ z.drains = y.drains /\ z.conn = v
  BY <1>2 DEF State, SameBooks
<1> HIDE DEF z
<1>9. CASE s.finished = "done"
  <2>1. y.conn = "open" => y.finished = "no"
    BY <1>1, <1>3 DEF Base, Held
  <2>2. Base(y, Slot) /\ (Own(s, Slot) => Own(y, Slot)) /\ HasSession(y)
    BY <1>1, <1>2, <1>3, <2>1, GoneBase
  <2> QED BY <1>1, <1>6, <1>9, <2>2 DEF Inv
<1>10. CASE s.finished # "done"
  <2>1. SameBooks(s, z)
    BY <1>3, <1>8 DEF SameBooks
  <2>2. Crossing(Draining \/ Replacing)
    BY DEF Shutdown
  <2>3. Inv(Finish(z, report))
    BY <1>3, <1>5, <1>7, <1>8, <2>1, <2>2, FinishInv
  <2> QED BY <1>6, <1>10, <2>3
<1> QED BY <1>9, <1>10

\* The process exits.
LEMMA ExitInv ==
    ASSUME Inv(s), NEW e \in {"no", "drained", "timeout"}, s' = [s EXCEPT !.exited = e]
    PROVE  Inv(s')
<1> DEFINE y == [s EXCEPT !.exited = e]
<1>1. s \in State /\ Base(s, Slot) /\ HasSession(s) /\ (~Crossed => Own(s, Slot))
  BY DEF Inv, Base
<1>2. y \in State
  BY <1>1 DEF State
<1>3. /\ y.count = s.count /\ y.session = s.session /\ y.ledger = s.ledger
      /\ y.recorder = s.recorder /\ y.ses = s.ses /\ y.rec = s.rec /\ y.tasks = s.tasks
      /\ SameBooks(s, y) /\ y.finished = s.finished /\ y.conn = s.conn
  BY <1>1 DEF State, SameBooks
<1>4. s' = y
  OBVIOUS
<1> HIDE DEF y
<1>5. y.conn = "open" => y.finished = "no"
  BY <1>1, <1>3 DEF Base, Held
<1>6. Base(y, Slot) /\ (Own(s, Slot) => Own(y, Slot)) /\ HasSession(y)
  BY <1>1, <1>2, <1>3, <1>5, GoneBase
<1> QED BY <1>1, <1>4, <1>6 DEF Inv

LEMMA NextInv ==
    ASSUME Inv(s), Next
    PROVE  Inv(s')
<1>1. CASE Start
  BY <1>1, StartInv
<1>2. CASE EndConversation
  BY <1>2, EndInv
<1>3. CASE Stop
  BY <1>3, StopInv
<1>4. CASE StartRecording
  BY <1>4, StartRecordingInv
<1>5. ASSUME NEW c \in Conv, Usage(c) PROVE Inv(s')
  BY <1>5, UsageInv
<1>6. ASSUME NEW i \in Slot, Started(i) PROVE Inv(s')
  BY <1>6, StartedInv
<1>7. ASSUME NEW i \in Slot, StartRejected(i) PROVE Inv(s')
  BY <1>7, StartRejectedInv
<1>8. ASSUME NEW i \in Slot, VendorClosed(i) PROVE Inv(s')
  BY <1>8, VendorClosedInv
<1>9. ASSUME NEW i \in Slot, RecorderOpens(i) PROVE Inv(s')
  BY <1>9, RecorderOpensInv
<1>10. ASSUME NEW i \in Slot, RecorderFailsToOpen(i) PROVE Inv(s')
  BY <1>10, RecorderFailsInv
<1>11. ASSUME NEW i \in Slot, RecordingMade(i) PROVE Inv(s')
  BY <1>11, RecordingMadeInv
<1>12. ASSUME NEW i \in Slot, NothingRecorded(i) PROVE Inv(s')
  BY <1>12, NothingRecordedInv
<1>13. ASSUME NEW i \in Slot, Unlinked(i) PROVE Inv(s')
  BY <1>13, UnlinkedInv
<1>14. ASSUME NEW i \in Slot, CatchStopped(i) PROVE Inv(s')
  BY <1>14, CatchStoppedInv
<1>15. CASE StoreWrites
  BY <1>15, StoreWritesInv
<1>16. CASE SocketCloses
  BY <1>16, SocketClosesInv
<1>17. CASE Shutdown
  BY <1>17, ShutdownInv
<1>18. CASE Drained
  <2>1. "drained" \in {"no", "drained", "timeout"} /\ s' = [s EXCEPT !.exited = "drained"]
    BY <1>18 DEF Drained
  <2> DEFINE e == "drained"
  <2>2. e \in {"no", "drained", "timeout"} /\ s' = [s EXCEPT !.exited = e]
    BY <2>1
  <2> HIDE DEF e
  <2> QED BY <2>2, ExitInv
<1>19. CASE DrainTimesOut
  <2>1. "timeout" \in {"no", "drained", "timeout"} /\ s' = [s EXCEPT !.exited = "timeout"]
    BY <1>19 DEF DrainTimesOut
  <2> DEFINE e == "timeout"
  <2>2. e \in {"no", "drained", "timeout"} /\ s' = [s EXCEPT !.exited = e]
    BY <2>1
  <2> HIDE DEF e
  <2> QED BY <2>2, ExitInv
<1> QED
  BY <1>1, <1>2, <1>3, <1>4, <1>5, <1>6, <1>7, <1>8, <1>9, <1>10, <1>11, <1>12,
     <1>13, <1>14, <1>15, <1>16, <1>17, <1>18, <1>19
  DEF Next, Wakeup, FileSystem

LEMMA InitInv ==
    ASSUME Init
    PROVE  SocketInv
<1> DEFINE ts == [i \in Slot |-> NoTask]
           none == [c \in Conv |-> "none"]
           zero == [c \in Conv |-> 0]
           no == [c \in Conv |-> FALSE]
           nil == [c \in Conv |-> << >>]
<1>1. PICK d \in BOOLEAN :
        s = [drains |-> d, conn |-> "open", session |-> None, ledger |-> None,
             recorder |-> None, finished |-> "no", tasks |-> ts, count |-> 0,
             ses |-> none, rec |-> none, reported |-> zero, turns |-> zero,
             made |-> no, wav |-> no, filed |-> zero, unsaved |-> no, told |-> nil,
             saves |-> << >>, shutdown |-> FALSE, exited |-> "no"]
  BY DEF Init
<1>2. /\ ts \in [Slot -> Task] /\ zero \in [Conv -> 0..MaxTurns]
      /\ none \in [Conv -> {"none", "starting", "live", "failed", "draining", "closed"}]
      /\ none \in [Conv -> {"none", "idle", "opening", "doomed", "on", "stopping", "done"}]
      /\ no \in [Conv -> BOOLEAN] /\ nil \in [Conv -> Seq(0..MaxTurns)]
      /\ << >> \in Seq(Save) /\ 0 \in 0..MaxConvs /\ None \in Conv \cup {None}
  <2>1. << >> \in Seq(Save) /\ << >> \in Seq(0..MaxTurns)
    OBVIOUS
  <2> QED BY <2>1, Sizes, NoTaskFacts
<1>3. /\ \A i \in Slot : ts[i] = NoTask
      /\ \A c \in Conv : /\ none[c] = "none" /\ zero[c] = 0 /\ no[c] = FALSE /\ nil[c] = << >>
  OBVIOUS
<1> HIDE DEF ts, none, zero, no, nil
<1>4. s \in State
  BY <1>1, <1>2 DEF State
<1>5. /\ s.conn = "open" /\ s.finished = "no" /\ s.session = None /\ s.ledger = None
      /\ s.recorder = None /\ s.count = 0 /\ s.ses = none /\ s.rec = none /\ s.tasks = ts
      /\ s.turns = zero /\ s.reported = zero /\ s.filed = zero /\ s.told = nil
      /\ s.saves = << >>
  BY <1>1
<1>6. /\ \A c \in Conv : s.ses[c] = "none" /\ s.rec[c] = "none"
      /\ \A i \in Slot : s.tasks[i] = NoTask
  BY <1>3, <1>5
<1>7. Held(s)
  BY <1>3, <1>5, <1>6, Sizes DEF Held, Live
<1>8. Len(s.saves) = 0
  BY <1>5
<1>9. Filed(s)
  BY <1>3, <1>5, <1>8 DEF Filed
<1>10. \A i \in Slot : Waits(s, i, s.tasks[i])
  BY <1>5, <1>6, NoTaskFacts, Sizes DEF Waits, Fits, Undone, StopsRec
<1>11. \A i, j \in Slot : Beside(s.tasks[i], s.tasks[j])
  BY <1>6, NoTaskFacts DEF Beside, Undone, StopsRec
<1>12. Tended(s, Slot) /\ Queue(s, Slot)
  BY <1>6, <1>8 DEF Tended, Queue
<1>13. Base(s, Slot)
  BY <1>4, <1>7, <1>9, <1>10, <1>11, <1>12 DEF Base
<1>14. Own(s, Slot)
  <2>1. HeldOwn(s)
    BY <1>3, <1>5, <1>6 DEF HeldOwn, Live
  <2>2. \A i \in Slot : WaitsOwn(s, s.tasks[i])
    BY <1>6, NoTaskFacts DEF WaitsOwn
  <2>3. \A i, j \in Slot : BesideOwn(s.tasks[i], s.tasks[j])
    BY <1>6, NoTaskFacts DEF BesideOwn, Undone
  <2>4. TendedOwn(s, Slot)
    BY <1>6 DEF TendedOwn
  <2> QED BY <2>1, <2>2, <2>3, <2>4 DEF Own
<1> QED BY <1>5, <1>13, <1>14 DEF Init, SocketInv, HasSession

-----------------------------------------------------------------------------
(* What follows.                                                            *)

\* What the socket holds, what its handlers wait for and what is in the queue of
\* saves fit together, whatever order the handlers run in.
THEOREM SocketInvariance == Spec => []SocketInv
<1>1. Init => SocketInv
  BY InitInv
<1>2. SocketInv /\ [Next]_vars => SocketInv'
  <2> SUFFICES ASSUME SocketInv, [Next]_vars PROVE SocketInv'
    OBVIOUS
  <2>1. CASE Next
    <3>1. crossed' \in BOOLEAN /\ (crossed => crossed')
      BY <2>1 DEF SocketInv, Next, Start, EndConversation, Stop, StartRecording, Usage,
         Started, StartRejected, Wakeup, FileSystem, VendorClosed, RecorderOpens,
         RecorderFailsToOpen, RecordingMade, NothingRecorded, Unlinked, CatchStopped,
         Wakes, StoreWrites, SocketCloses, Shutdown, Drained, DrainTimesOut, Crossing
    <3>2. Inv(s)
      BY <3>1 DEF SocketInv, Inv, Crossed
    <3>3. Inv(s')
      BY <2>1, <3>2, NextInv
    <3> QED BY <3>1, <3>3 DEF SocketInv, Inv, Crossed
  <2>2. CASE UNCHANGED vars
    BY <2>2 DEF vars, SocketInv, Base, Held, Filed, Waits, Fits, Undone, StopsRec, Beside,
       Tended, Queue, Own, HeldOwn, WaitsOwn, BesideOwn, TendedOwn, HasSession, NoLive,
       NoDrain, Live
  <2> QED BY <2>1, <2>2
<1> QED BY <1>1, <1>2, PTL DEF Spec

\* The socket's variables, its handlers and their locals keep their ranges.
THEOREM SocketIsTyped == Spec => []TypeOK
<1>1. SocketInv => TypeOK
  BY DEF SocketInv, Base, TypeOK
<1> QED BY <1>1, SocketInvariance, PTL

\* session-socket.ts: a session that may still cost money is the one that the
\* socket can close; no restart, failed start or dropped socket loses it.
THEOREM SessionsAreHeld == Spec => []NoOrphanSession
<1>1. SocketInv => NoOrphanSession
  BY DEF SocketInv, Base, Held, Live, NoOrphanSession
<1> QED BY <1>1, SocketInvariance, PTL

\* Once the queue of saves is empty every turn is on disk, ended or not, unless
\* the disk refused it.
THEOREM TurnsAreFiled == Spec => []AllTurnsFiled
<1>1. SocketInv => AllTurnsFiled
  <2> SUFFICES ASSUME SocketInv, s.saves = << >>, NEW c \in Conv
               PROVE  s.unsaved[c] \/ s.filed[c] = s.turns[c]
    BY DEF AllTurnsFiled
  <2>1. Len(s.saves) = 0
    OBVIOUS
  <2> QED BY <2>1 DEF SocketInv, Base, Filed
<1> QED BY <1>1, SocketInvariance, PTL

\* A recorder that the socket has let go of is closed once its handlers have
\* returned, even when it was stopped while its files were being opened.
THEOREM RecordersEnd == Spec => []RecordersAreClosed
<1>1. SocketInv => RecordersAreClosed
  <2> SUFFICES ASSUME SocketInv, Quiet, NEW c \in Conv,
                      s.rec[c] \in {"opening", "doomed", "on", "stopping"}
               PROVE  s.recorder = c
    BY DEF RecordersAreClosed
  <2>1. \A i \in Slot : s.tasks[i].at = "idle"
    BY NoTaskFacts DEF Quiet
  <2>2. s.rec[c] \notin {"opening", "doomed", "stopping"}
    BY <2>1 DEF SocketInv, Base, Tended, StopsRec
  <2> QED BY <2>2 DEF SocketInv, Base, Held
<1> QED BY <1>1, SocketInvariance, PTL

\* session-socket.ts:75-95: every turn a session reports is in the ledger of its
\* own conversation and no other, and a held ledger is complete, until a message
\* or the close comes while a handler waits for a vendor or in the middle of a
\* restart; even then a held ledger is complete and no turn is counted twice.
THEOREM UsageIsOwn == Spec => []UsageInOwnLedger
<1>1. SocketInv => UsageInOwnLedger
  <2> SUFFICES ASSUME SocketInv, NEW c \in Conv
               PROVE  /\ s.turns[c] <= s.reported[c]
                      /\ s.ledger = c => s.turns[c] = s.reported[c]
                      /\ s.turns[c] < s.reported[c] => crossed
    BY DEF UsageInOwnLedger
  <2>1. s.turns[c] <= s.reported[c] /\ (s.ledger = c => s.turns[c] = s.reported[c])
    BY DEF SocketInv, Base, Held
  <2>2. s.turns[c] \in Nat /\ s.reported[c] \in Nat
    BY Fields, Sizes DEF SocketInv, Base
  <2>3. ~crossed => s.turns[c] = s.reported[c]
    BY DEF SocketInv, Own, HeldOwn
  <2> QED BY <2>1, <2>2, <2>3
<1> QED BY <1>1, SocketInvariance, PTL

\* finalize() sends the client at most one report of a conversation, and no turn is
\* added to it afterwards, until something crosses a vendor's close() or a restart.
THEOREM SummariesAreFinal == Spec => [](crossed \/ SummaryIsFinal)
<1>1. SocketInv => crossed \/ SummaryIsFinal
  <2> SUFFICES ASSUME SocketInv, ~crossed, NEW c \in Conv
               PROVE  /\ Len(s.told[c]) <= 1
                      /\ \A k \in 1..Len(s.told[c]) : s.told[c][k] = s.turns[c]
    BY DEF SummaryIsFinal
  <2>1. s.told[c] # << >> => Len(s.told[c]) = 1 /\ s.told[c][1] = s.turns[c]
    BY DEF SocketInv, Own, HeldOwn
  <2>2. CASE s.told[c] = << >>
    BY <2>2
  <2>3. CASE s.told[c] # << >>
    <3>1. \A k \in 1..1 : k = 1
      OBVIOUS
    <3> DEFINE n == Len(s.told[c])
    <3>2. n = 1 /\ s.told[c][1] = s.turns[c]
      BY <2>1, <2>3
    <3> HIDE DEF n
    <3>3. n <= 1 /\ \A k \in 1..n : k = 1
      BY <3>1, <3>2
    <3>4. \A k \in 1..n : s.told[c][k] = s.turns[c]
      BY <3>2, <3>3
    <3> QED BY <3>3, <3>4 DEF n
  <2> QED BY <2>2, <2>3
<1> QED BY <1>1, SocketInvariance, PTL
==============================================================================

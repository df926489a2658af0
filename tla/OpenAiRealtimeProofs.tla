------------------------ MODULE OpenAiRealtimeProofs ------------------------
(***************************************************************************)
(* Proofs about OpenAiRealtime: types, EventsPaired, OwedIsAwaited,        *)
(* RanIsBilled and ClosedIsSilent hold for every number of turns,          *)
(* responses and deltas.                                                   *)
(***************************************************************************)
EXTENDS OpenAiRealtime, SequenceTheorems, FiniteSetTheorems,
        WellFoundedInduction, TLAPS

\* What the books say of turn t agrees with where the turn stands.
Entry(x, t) ==
    /\ (x.turns[t].phase = "none") <=> (t > x.counter)
    /\ (x.turns[t].phase = "open") <=> (t = x.active)
    /\ x.started[t] = IF x.turns[t].phase = "none" THEN 0 ELSE 1
    /\ x.ended[t] = IF x.turns[t].phase = "ended" THEN 1 ELSE 0
    /\ x.usages[t] \in {0, 1}
    /\ x.usages[t] = 1 => x.turns[t].billed
    /\ x.turns[t].billed => x.turns[t].phase = "ended"
    /\ (t \in x.awaiting) <=>
         (x.turns[t].phase = "ended" /\ ~x.turns[t].billed)

\* What each private method keeps.
Core(x) ==
    /\ x \in Session
    /\ \A t \in TurnId : Entry(x, t)

\* Nothing is left open or owed by a session that was closed.
Quiet(x) ==
    /\ x.closed /\ x.starting # "rejected" => x.awaiting = {} /\ x.active = None
    /\ x.starting = "rejected" => x.closed

\* A step of x that leaves the life of the session alone.
SameLife(x, y) ==
    /\ y.starting = x.starting
    /\ y.closed = x.closed
    /\ y.ws = x.ws

Wire ==
    /\ out \in Seq(Frame)
    /\ inbox \in Seq(Frame)
    /\ vendor \in Vendor

IInv == Core(s) /\ Quiet(s) /\ Wire

-----------------------------------------------------------------------------
(* The private methods.                                                     *)

\* The fields of a session, for the steps that change some of them.
LEMMA Fields ==
    ASSUME NEW x \in Session
    PROVE  /\ x.counter \in 0..MaxTurns /\ x.active \in TurnId \cup {None}
           /\ x.turns \in [TurnId -> Turn] /\ x.awaiting \in SUBSET TurnId
           /\ x.started \in [TurnId -> Nat] /\ x.ended \in [TurnId -> Nat]
           /\ x.usages \in [TurnId -> Nat]
           /\ x.paid \in [TurnId -> Response \cup {None}]
           /\ x.seen \in SUBSET Response /\ x.done \in SUBSET Response
BY DEF Session

\* Ending a turn moves it from open to owed, or does nothing.
LEMMA EndTurnKeeps ==
    ASSUME NEW x, Core(x), NEW t \in TurnId
    PROVE  /\ Core(EndTurn(x, t))
           /\ SameLife(x, EndTurn(x, t))
           /\ EndTurn(x, t).counter = x.counter
           /\ EndTurn(x, t).active = IF x.active = t THEN None ELSE x.active
           /\ EndTurn(x, t).turns[t].phase # "open"
           /\ (x.turns[t].phase = "open" \/ x.turns[t].phase = "ended")
                => EndTurn(x, t).turns[t].phase = "ended"
<1> DEFINE y == EndTurn(x, t)
<1>1. CASE x.turns[t].phase # "open"
  BY <1>1 DEF EndTurn, Core, SameLife, Entry, None
<1>2. CASE x.turns[t].phase = "open"
  <2>1. x.active = t /\ ~x.turns[t].billed
    BY <1>2 DEF Core, Entry
  <2>2. y = [x EXCEPT
              !.turns = [x.turns EXCEPT ![t] = [x.turns[t] EXCEPT !.phase = "ended"]],
              !.active = None,
              !.awaiting = x.awaiting \cup {t},
              !.ended = [x.ended EXCEPT ![t] = x.ended[t] + 1]]
    BY <1>2, <2>1 DEF EndTurn
  <2> HIDE DEF y
  <2>3. y \in Session
    <3>1. [x.turns[t] EXCEPT !.phase = "ended"] \in Turn
      BY Fields DEF Core, Turn
    <3>2. /\ [x.turns EXCEPT ![t] = [x.turns[t] EXCEPT !.phase = "ended"]]
               \in [TurnId -> Turn]
          /\ x.awaiting \cup {t} \in SUBSET TurnId
          /\ [x.ended EXCEPT ![t] = x.ended[t] + 1] \in [TurnId -> Nat]
      BY <3>1, Fields DEF Core
    <3> QED BY <2>2, <3>2 DEF Core, Session
  <2>4. ASSUME NEW u \in TurnId PROVE Entry(y, u)
    <3>1. /\ y.counter = x.counter /\ y.active = None
          /\ y.started = x.started /\ y.usages = x.usages
          /\ y.awaiting = x.awaiting \cup {t}
          /\ y.ended[u] = IF u = t THEN x.ended[t] + 1 ELSE x.ended[u]
          /\ u # t => y.turns[u] = x.turns[u]
          /\ y.turns[t] = [x.turns[t] EXCEPT !.phase = "ended"]
      BY <2>2 DEF Core, Session
    <3>2. Entry(x, u) /\ x.turns[u] \in Turn
      BY DEF Core, Session
    <3>3. CASE u = t
      BY <3>1, <3>2, <3>3, <2>1, <1>2 DEF Entry, Turn, TurnId, None
    <3>4. CASE u # t
      BY <3>1, <3>2, <3>4, <2>1 DEF Entry, TurnId, None
    <3> QED BY <3>3, <3>4
  <2>5. y.turns[t].phase = "ended" /\ y.active = None /\ SameLife(x, y)
        /\ y.counter = x.counter
    BY <2>2, Fields DEF Core, SameLife, Session, Turn
  <2> QED BY <2>1, <2>3, <2>4, <2>5 DEF Core, y
<1> QED BY <1>1, <1>2

LEMMA EndActiveKeeps ==
    ASSUME NEW x, Core(x)
    PROVE  /\ Core(EndActive(x))
           /\ SameLife(x, EndActive(x))
           /\ EndActive(x).counter = x.counter
           /\ EndActive(x).active = None
<1>1. CASE x.active = None
  BY <1>1 DEF EndActive, SameLife
<1>2. CASE x.active # None
  <2>1. x.active \in TurnId
    BY <1>2 DEF Core, Session
  <2> QED BY <1>2, <2>1, EndTurnKeeps DEF EndActive
<1> QED BY <1>1, <1>2

LEMMA OpenTurnKeeps ==
    ASSUME NEW x, Core(x), x.active = None, x.counter < MaxTurns
    PROVE  /\ Core(OpenTurn(x))
           /\ SameLife(x, OpenTurn(x))
           /\ OpenTurn(x).active \in TurnId
<1> DEFINE t == x.counter + 1
           y == OpenTurn(x)
<1>1. x.counter \in Nat /\ t \in TurnId /\ t \in 0..MaxTurns
  BY BoundsAssumption DEF Core, Session, TurnId
<1>2. x.turns[t].phase = "none"
  BY <1>1 DEF Core, Entry
<1>3. y = [x EXCEPT !.counter = t,
                    !.turns = [x.turns EXCEPT ![t] = [NoTurn EXCEPT !.phase = "open"]],
                    !.active = t,
                    !.started = [x.started EXCEPT ![t] = x.started[t] + 1]]
  BY DEF OpenTurn
<1>4. [NoTurn EXCEPT !.phase = "open"] \in Turn
  BY DEF NoTurn, Turn, None
<1> HIDE DEF y
<1>5. y \in Session
  <2>1. /\ [x.turns EXCEPT ![t] = [NoTurn EXCEPT !.phase = "open"]]
             \in [TurnId -> Turn]
        /\ [x.started EXCEPT ![t] = x.started[t] + 1] \in [TurnId -> Nat]
    BY <1>1, <1>4, Fields DEF Core
  <2> QED BY <1>1, <1>3, <2>1 DEF Core, Session
<1>6. /\ y.counter = t /\ y.active = t
      /\ y.ended = x.ended /\ y.usages = x.usages /\ y.awaiting = x.awaiting
      /\ y.turns[t] = [NoTurn EXCEPT !.phase = "open"]
      /\ y.started[t] = x.started[t] + 1
      /\ \A u \in TurnId \ {t} : y.turns[u] = x.turns[u]
                                 /\ y.started[u] = x.started[u]
      /\ SameLife(x, y)
  BY <1>1, <1>3, Fields DEF Core, Session, SameLife
<1>7. ASSUME NEW u \in TurnId PROVE Entry(y, u)
  <2>1. Entry(x, u) /\ x.started[u] \in Nat
    BY Fields DEF Core
  <2>2. CASE u = t
    BY <1>1, <1>2, <1>6, <2>1, <2>2 DEF Entry, NoTurn, TurnId
  <2>3. CASE u # t
    BY <1>1, <1>6, <2>1, <2>3 DEF Entry, TurnId, None
  <2> QED BY <2>2, <2>3
<1> QED BY <1>1, <1>5, <1>6, <1>7 DEF Core, y

LEMMA BeginTurnKeeps ==
    ASSUME NEW x, Core(x), x.counter < MaxTurns
    PROVE  /\ Core(BeginTurn(x))
           /\ SameLife(x, BeginTurn(x))
           /\ BeginTurn(x).active \in TurnId
BY EndActiveKeeps, OpenTurnKeeps DEF BeginTurn, SameLife

\* Turns that have ended are billed, and billed once.
LEMMA BillKeeps ==
    ASSUME NEW x, Core(x), NEW T \in SUBSET TurnId,
           \A t \in T : x.turns[t].phase = "ended",
           NEW r \in Response \cup {None}, NEW counts \in BOOLEAN
    PROVE  /\ Core(Bill(x, T, r, counts))
           /\ SameLife(x, Bill(x, T, r, counts))
           /\ Bill(x, T, r, counts).active = x.active
           /\ Bill(x, T, r, counts).awaiting \cap T = {}
           /\ Bill(x, T, r, counts).awaiting \subseteq x.awaiting
<1> DEFINE now == {t \in T : ~x.turns[t].billed}
           rows == {t \in now : counts \/ Ran(x.turns[t])}
           y == Bill(x, T, r, counts)
<1>1. y = [x EXCEPT
             !.turns = [t \in TurnId |->
                          [x.turns[t] EXCEPT !.billed = @ \/ t \in now]],
             !.awaiting = x.awaiting \ now,
             !.usages = [t \in TurnId |->
                           x.usages[t] + IF t \in rows THEN 1 ELSE 0],
             !.paid = [t \in TurnId |->
                         IF t \notin rows THEN x.paid[t]
                         ELSE IF r # None THEN r ELSE x.turns[t].responseId]]
  BY DEF Bill
<1>2. now \subseteq T /\ rows \subseteq now /\ T \subseteq TurnId
  OBVIOUS
<1>3. \A t \in TurnId : x.turns[t] \in Turn /\ x.usages[t] \in Nat
                        /\ x.paid[t] \in Response \cup {None}
  BY DEF Core, Session
<1>4. \A t \in TurnId : [x.turns[t] EXCEPT !.billed = @ \/ t \in now] \in Turn
  BY <1>3 DEF Turn
<1>5. y \in Session
  <2>1. \A t \in TurnId :
          (IF t \notin rows THEN x.paid[t]
           ELSE IF r # None THEN r ELSE x.turns[t].responseId) \in Response \cup {None}
    BY <1>3 DEF Turn
  <2>2. \A t \in TurnId : (x.usages[t] + IF t \in rows THEN 1 ELSE 0) \in Nat
    BY <1>3
  <2>3. x.awaiting \ now \in SUBSET TurnId
    BY Fields DEF Core
  <2> HIDE DEF now, rows, y
  <2>4. /\ [t \in TurnId |-> [x.turns[t] EXCEPT !.billed = @ \/ t \in now]]
             \in [TurnId -> Turn]
        /\ [t \in TurnId |-> x.usages[t] + IF t \in rows THEN 1 ELSE 0]
             \in [TurnId -> Nat]
        /\ [t \in TurnId |-> IF t \notin rows THEN x.paid[t]
                             ELSE IF r # None THEN r ELSE x.turns[t].responseId]
             \in [TurnId -> Response \cup {None}]
    BY <1>4, <2>1, <2>2
  <2> QED BY <1>1, <2>3, <2>4 DEF Core, Session
<1>6. ASSUME NEW t \in TurnId PROVE Entry(y, t)
  <2>1. /\ y.turns[t] = [x.turns[t] EXCEPT !.billed = @ \/ t \in now]
        /\ y.usages[t] = x.usages[t] + IF t \in rows THEN 1 ELSE 0
        /\ y.awaiting = x.awaiting \ now
        /\ y.started[t] = x.started[t] /\ y.ended[t] = x.ended[t]
        /\ y.counter = x.counter /\ y.active = x.active
    <3> HIDE DEF now, rows
    <3> QED BY <1>1 DEF Core, Session
  <2>2. Entry(x, t)
    BY DEF Core
  <2>3. CASE t \in now
    <3>1. x.turns[t].phase = "ended" /\ ~x.turns[t].billed
      BY <2>3
    <3>2. /\ y.turns[t].phase = "ended" /\ y.turns[t].billed
          /\ t \notin y.awaiting
      BY <1>3, <2>1, <2>3, <3>1 DEF Turn
    <3>3. x.usages[t] = 0 /\ y.usages[t] \in {0, 1}
      BY <1>3, <2>1, <2>2, <3>1 DEF Entry
    <3> QED BY <2>1, <2>2, <3>1, <3>2, <3>3 DEF Entry
  <2>4. CASE t \notin now
    BY <1>3, <2>1, <2>2, <2>4 DEF Entry, Turn
  <2> QED BY <2>3, <2>4
<1>7. y.awaiting = x.awaiting \ now /\ y.active = x.active /\ SameLife(x, y)
  <2> HIDE DEF now, rows
  <2> QED BY <1>1 DEF Core, Session, SameLife
<1>8. y.awaiting \cap T = {}
  BY <1>7 DEF Core, Entry
<1> QED BY <1>5, <1>6, <1>7, <1>8 DEF Core

LEMMA CloseOutKeeps ==
    ASSUME NEW x, Core(x)
    PROVE  /\ Core(CloseOut(x))
           /\ CloseOut(x).closed
           /\ CloseOut(x).starting = x.starting
           /\ CloseOut(x).ws = x.ws
           /\ CloseOut(x).awaiting = {} /\ CloseOut(x).active = None
<1> DEFINE c == [x EXCEPT !.closed = TRUE]
           e == EndActive(c)
<1>1. Core(c) /\ c.closed /\ c.starting = x.starting /\ c.ws = x.ws
  BY DEF Core, Session, Entry
<1>2. Core(e) /\ SameLife(c, e) /\ e.active = None
  BY <1>1, EndActiveKeeps
<1>3. e.awaiting \in SUBSET TurnId /\ \A t \in e.awaiting : e.turns[t].phase = "ended"
  BY <1>2 DEF Core, Entry, Session
<1>4. None \in Response \cup {None} /\ FALSE \in BOOLEAN
  OBVIOUS
<1> HIDE DEF c, e
<1>5. LET f == Bill(e, e.awaiting, None, FALSE)
      IN  /\ Core(f) /\ SameLife(e, f) /\ f.active = e.active
          /\ f.awaiting \cap e.awaiting = {}
          /\ f.awaiting \subseteq e.awaiting
  <2> DEFINE T == e.awaiting
  <2>1. Core(e) /\ T \in SUBSET TurnId /\ \A t \in T : e.turns[t].phase = "ended"
    BY <1>2, <1>3
  <2> HIDE DEF T
  <2>2. LET f == Bill(e, T, None, FALSE)
        IN  /\ Core(f) /\ SameLife(e, f) /\ f.active = e.active
            /\ f.awaiting \cap T = {} /\ f.awaiting \subseteq e.awaiting
    BY <1>4, <2>1, BillKeeps
  <2> QED BY <2>2 DEF T
<1> DEFINE f == Bill(e, e.awaiting, None, FALSE)
<1>6. f.awaiting = {}
  BY <1>5
<1>7. CloseOut(x) = f
  BY DEF CloseOut, FlushBilling, c, e
<1>8. Core(f) /\ SameLife(e, f) /\ f.active = e.active
  BY <1>5
<1> HIDE DEF f
<1> QED BY <1>1, <1>2, <1>6, <1>7, <1>8 DEF SameLife

LEMMA SettleKeeps ==
    ASSUME NEW x, Core(x)
    PROVE  Core(Settle(x)) /\ Settle(x).closed /\ Settle(x).starting = "rejected"
BY DEF Core, Session, Entry, Settle

\* Binding a response to the open turn, opened for it if there is none.
LEMMA BindResponseKeeps ==
    ASSUME NEW x, Core(x), NEW r \in Response,
           x.active = None => x.counter < MaxTurns
    PROVE  Core(BindResponse(x, r)) /\ SameLife(x, BindResponse(x, r))
<1> DEFINE b == IF x.active = None THEN BeginTurn(x) ELSE x
           turn == [b.turns[b.active] EXCEPT !.responseId = r]
           y == [b EXCEPT !.turns = [b.turns EXCEPT ![b.active] = turn],
                          !.seen = b.seen \cup {r}]
<1>1. Core(b) /\ SameLife(x, b) /\ b.active \in TurnId
  <2>1. CASE x.active = None
    BY <2>1, BeginTurnKeeps
  <2>2. CASE x.active # None
    BY <2>2, Fields DEF Core, SameLife
  <2> QED BY <2>1, <2>2
<1>2. BindResponse(x, r) = y
  BY DEF BindResponse
<1> HIDE DEF b
<1>3. turn \in Turn /\ turn.phase = b.turns[b.active].phase
      /\ turn.billed = b.turns[b.active].billed
  <2>1. b.turns[b.active] \in Turn
    BY <1>1, Fields DEF Core
  <2> QED BY <2>1 DEF Turn
<1> HIDE DEF turn
<1>4. Core(y) /\ SameLife(b, y)
  <2>1. [b.turns EXCEPT ![b.active] = turn] \in [TurnId -> Turn]
        /\ b.seen \cup {r} \in SUBSET Response
    BY <1>1, <1>3, Fields DEF Core
  <2>2. y \in Session
    BY <1>1, <2>1 DEF Core, Session
  <2>3. ASSUME NEW t \in TurnId
        PROVE  y.turns[t].phase = b.turns[t].phase
               /\ y.turns[t].billed = b.turns[t].billed
    BY <1>1, <1>3, Fields DEF Core, Session
  <2>4. /\ y.counter = b.counter /\ y.active = b.active
        /\ y.started = b.started /\ y.ended = b.ended
        /\ y.usages = b.usages /\ y.awaiting = b.awaiting
        /\ SameLife(b, y)
    BY <1>1 DEF Core, Session, SameLife
  <2> HIDE DEF y
  <2> QED BY <1>1, <2>2, <2>3, <2>4 DEF Core, Entry
<1> QED BY <1>1, <1>2, <1>4 DEF SameLife

\* Streamed audio changes what a turn has heard, not where it stands.
LEMMA OnAudioDeltaKeeps ==
    ASSUME NEW x, Core(x), NEW r \in Response
    PROVE  Core(OnAudioDelta(x, r)) /\ SameLife(x, OnAudioDelta(x, r))
<1> DEFINE t == OwnerOf(x, r)
           turn == [x.turns[t] EXCEPT !.itemId = r, !.audio = x.turns[t].audio + 1]
           y == [x EXCEPT !.turns = [x.turns EXCEPT ![t] = turn]]
<1>1. t \in TurnId \cup {None}
  BY Fields DEF OwnerOf, Core
<1>2. CASE t = None
  BY <1>2 DEF OnAudioDelta, SameLife
<1>3. CASE t # None
  <2>1. OnAudioDelta(x, r) = y /\ t \in TurnId
    BY <1>1, <1>3 DEF OnAudioDelta
  <2> HIDE DEF t
  <2>2. turn \in Turn /\ turn.phase = x.turns[t].phase
        /\ turn.billed = x.turns[t].billed
    <3>1. x.turns[t] \in Turn
      BY <2>1, Fields DEF Core
    <3> DEFINE T == x.turns[t]
    <3>2. turn = [T EXCEPT !.itemId = r, !.audio = T.audio + 1]
      OBVIOUS
    <3> HIDE DEF T, turn
    <3>3. T \in Turn
      BY <3>1 DEF T
    <3>4. T.audio + 1 \in Nat /\ r \in Response \cup {None}
      BY <3>3 DEF Turn
    <3>5. turn \in Turn
      BY <3>2, <3>3, <3>4 DEF Turn
    <3>6. turn.phase = T.phase /\ turn.billed = T.billed
      BY <3>2, <3>3 DEF Turn
    <3> QED BY <3>5, <3>6 DEF T
  <2> HIDE DEF turn
  <2>3. [x.turns EXCEPT ![t] = turn] \in [TurnId -> Turn]
    BY <2>1, <2>2, Fields DEF Core
  <2>4. y \in Session
    BY <2>3 DEF Core, Session
  <2>5. ASSUME NEW u \in TurnId
        PROVE  y.turns[u].phase = x.turns[u].phase
               /\ y.turns[u].billed = x.turns[u].billed
    BY <2>1, <2>2, Fields DEF Core, Session
  <2>6. /\ y.counter = x.counter /\ y.active = x.active
        /\ y.started = x.started /\ y.ended = x.ended
        /\ y.usages = x.usages /\ y.awaiting = x.awaiting
        /\ SameLife(x, y)
    BY DEF Core, Session, SameLife
  <2> HIDE DEF y
  <2> QED BY <2>1, <2>4, <2>5, <2>6 DEF Core, Entry
<1> QED BY <1>2, <1>3

\* A report ends the turn it is for, if that has not ended, and bills it.
LEMMA OnResponseDoneKeeps ==
    ASSUME NEW x, Core(x), NEW r \in Response, NEW counts \in BOOLEAN
    PROVE  Core(OnResponseDone(x, r, counts)) /\ SameLife(x, OnResponseDone(x, r, counts))
<1> DEFINE t == TurnFor(x, r)
           d == [x EXCEPT !.done = x.done \cup {r}]
           e == EndTurn(d, t)
<1>1. /\ Core(d) /\ SameLife(x, d)
      /\ d.turns = x.turns /\ d.active = x.active /\ d.awaiting = x.awaiting
  <2>1. x.done \cup {r} \in SUBSET Response
    BY Fields DEF Core
  <2>2. d \in Session
    BY <2>1 DEF Core, Session
  <2> QED BY <2>2 DEF Core, Session, Entry, SameLife
<1> HIDE DEF d
<1>2. t = None \/ (t \in TurnId /\ (t = x.active \/ t \in x.awaiting))
  <2> DEFINE late == {u \in x.awaiting : x.turns[u].responseId = r}
  <2>1. ASSUME late # {} PROVE (CHOOSE u \in late : \A v \in late : u <= v) \in late
    <3>1. late \subseteq TurnId
      BY Fields DEF Core
    <3>2. late \subseteq Nat /\ late # {}
      BY <3>1, <2>1 DEF TurnId
    <3>3. \E u \in late : \A v \in late : u <= v
      <4>1. \E u \in late : \A v \in late : <<v, u>> \notin OpToRel(<, Nat)
        BY <3>2, NatLessThanWellFounded, WFMin
      <4>2. \A u, v \in Nat : <<v, u>> \notin OpToRel(<, Nat) => u <= v
        BY DEF OpToRel
      <4> QED BY <3>2, <4>1, <4>2
    <3> QED BY <3>3
  <2> QED BY <2>1, Fields DEF Core, TurnFor
<1>3. CASE t = None
  BY <1>1, <1>3 DEF OnResponseDone, d
<1>4. CASE t # None
  <2>1. t \in TurnId /\ d.turns[t].phase \in {"open", "ended"}
    BY <1>1, <1>2, <1>4 DEF Core, Entry
  <2> HIDE DEF t
  <2>2. Core(e) /\ SameLife(d, e) /\ e.turns[t].phase = "ended"
    BY <1>1, <2>1, EndTurnKeeps
  <2>3. OnResponseDone(x, r, counts) = Bill(e, {t}, r, counts)
    BY <1>4 DEF OnResponseDone, t, d
  <2> HIDE DEF e
  <2>4. {t} \in SUBSET TurnId /\ \A u \in {t} : e.turns[u].phase = "ended"
    BY <2>1, <2>2
  <2>5. r \in Response \cup {None}
    OBVIOUS
  <2> DEFINE f == Bill(e, {t}, r, counts)
  <2>6. Core(f) /\ SameLife(e, f)
    BY <2>2, <2>4, <2>5, BillKeeps
  <2> HIDE DEF f
  <2> QED BY <1>1, <2>2, <2>3, <2>6 DEF SameLife, f
<1> QED BY <1>3, <1>4

-----------------------------------------------------------------------------
(* The invariant.                                                           *)

\* Frames are taken off their queue and typed ones put on.
LEMMA Queues ==
    ASSUME NEW q \in Seq(Frame), NEW more \in Seq(Frame)
    PROVE  /\ q \o more \in Seq(Frame)
           /\ q # << >> => Head(q) \in Frame /\ Tail(q) \in Seq(Frame)
BY ConcatProperties, HeadTailProperties

LEMMA InitIInv == ASSUME Init PROVE IInv
<1>1. PICK v \in BOOLEAN :
        s = [starting |-> "opening", ws |-> "connecting", closed |-> FALSE,
             vad |-> v, counter |-> 0, active |-> None,
             turns |-> [t \in TurnId |-> NoTurn], awaiting |-> {},
             started |-> [t \in TurnId |-> 0],
             ended |-> [t \in TurnId |-> 0],
             usages |-> [t \in TurnId |-> 0],
             paid |-> [t \in TurnId |-> None],
             seen |-> {}, done |-> {}]
  BY DEF Init
<1>2. NoTurn \in Turn /\ NoTurn.phase = "none" /\ ~NoTurn.billed
  BY DEF NoTurn, Turn
<1>3. s \in Session
  BY <1>1, <1>2, BoundsAssumption DEF Session, None
<1>4. \A t \in TurnId : Entry(s, t)
  BY <1>1, <1>2 DEF Entry, TurnId, None
<1>5. Quiet(s)
  BY <1>1 DEF Quiet
<1>6. Wire
  BY BoundsAssumption DEF Init, Wire, Vendor, None
<1> QED BY <1>3, <1>4, <1>5, <1>6 DEF IInv, Core

\* A step that keeps Core and the life of an open session keeps it quiet.
LEMMA StillOpen ==
    ASSUME NEW x, NEW y, Quiet(x), ~x.closed, Core(y), SameLife(x, y)
    PROVE  Core(y) /\ Quiet(y)
BY DEF Quiet, SameLife

\* Sending typed frames keeps the outgoing queue typed.
LEMMA SendKeeps ==
    ASSUME NEW frames \in Seq(Frame), out \in Seq(Frame), Send(frames)
    PROVE  out' \in Seq(Frame)
BY Queues DEF Send

LEMMA ClientKeeps == ASSUME IInv, Client PROVE IInv'
<1>1. Core(s) /\ Quiet(s) /\ Wire
  BY DEF IInv
<1>2. <<F("response.create", None, 0)>> \in Seq(Frame)
  BY DEF F, Frame
<1>3. CASE CommitAudio
  <2>1. Core(s') /\ Quiet(s')
    BY <1>1, <1>3, BeginTurnKeeps, StillOpen DEF CommitAudio, IdLeft
  <2>2. Wire'
    BY <1>1, <1>2, <1>3, SendKeeps DEF CommitAudio, Wire
  <2> QED BY <2>1, <2>2 DEF IInv, Core, Quiet, Entry
<1>4. CASE SendText
  <2>1. Core(s') /\ Quiet(s')
    BY <1>1, <1>4, BeginTurnKeeps, StillOpen DEF SendText, IdLeft
  <2>2. Wire'
    BY <1>1, <1>2, <1>4, SendKeeps DEF SendText, Wire
  <2> QED BY <2>1, <2>2 DEF IInv, Core, Quiet, Entry
<1>5. CASE Interrupt
  <2>1. s.active \in TurnId /\ s.turns[s.active] \in Turn
    BY <1>1, <1>5, Fields DEF Core, Interrupt
  <2>2. ~s.closed
    BY <1>1, <1>5 DEF Interrupt, Usable, Quiet
  <2>3. Core(s') /\ Quiet(s')
    BY <1>1, <1>5, <2>1, <2>2, EndTurnKeeps, StillOpen DEF Interrupt
  <2> DEFINE turn == s.turns[s.active]
             cancel == <<F("response.cancel", turn.responseId, 0)>>
             truncate == IF turn.itemId # None /\ turn.audio > 0
                         THEN <<F("truncate", turn.itemId, turn.audio)>> ELSE << >>
  <2>4. cancel \in Seq(Frame)
    BY <2>1 DEF F, Frame, Turn
  <2>5. truncate \in Seq(Frame)
    <3>1. CASE turn.itemId # None /\ turn.audio > 0
      <4>1. F("truncate", turn.itemId, turn.audio) \in Frame
        BY <2>1, <3>1 DEF F, Frame, Turn
      <4> QED BY <3>1, <4>1
    <3>2. CASE ~(turn.itemId # None /\ turn.audio > 0)
      BY <3>2
    <3> QED BY <3>1, <3>2
  <2>6. Send(cancel \o truncate)
    BY <1>5 DEF Interrupt
  <2> HIDE DEF cancel, truncate
  <2>7. Wire'
    <3>1. cancel \o truncate \in Seq(Frame)
      BY <2>4, <2>5, Queues
    <3>2. out' \in Seq(Frame)
      BY <1>1, <2>6, <3>1, SendKeeps DEF Wire
    <3> QED BY <1>1, <1>5, <3>2 DEF Interrupt, Wire
  <2> QED BY <2>3, <2>7 DEF IInv, Core, Quiet, Entry
<1>6. CASE Close
  <2> DEFINE c == CloseOut(s)
  <2>1. Core(c) /\ c.closed /\ c.awaiting = {} /\ c.active = None /\ c.starting = s.starting
    BY <1>1, CloseOutKeeps
  <2>2. s' = [c EXCEPT !.ws = IF @ \in {"connecting", "open"} THEN "closing" ELSE @]
    BY <1>6 DEF Close
  <2> HIDE DEF c
  <2>3. s' \in Session
    BY <2>1, <2>2 DEF Core, Session
  <2>4. /\ s'.counter = c.counter /\ s'.active = c.active /\ s'.turns = c.turns
        /\ s'.started = c.started /\ s'.ended = c.ended
        /\ s'.usages = c.usages /\ s'.awaiting = c.awaiting
        /\ s'.closed = c.closed /\ s'.starting = c.starting
    BY <2>1, <2>2 DEF Core, Session
  <2>5. Core(s')
    BY <2>1, <2>3, <2>4 DEF Core, Entry
  <2>6. Quiet(s')
    BY <2>1, <2>4 DEF Quiet
  <2>7. Wire'
    BY <1>1, <1>6 DEF Wire, Close
  <2> QED BY <2>5, <2>6, <2>7 DEF IInv, Core, Quiet, Entry
<1> QED BY <1>3, <1>4, <1>5, <1>6 DEF Client

LEMMA SocketKeeps == ASSUME IInv, Socket PROVE IInv'
<1>1. Core(s) /\ Quiet(s) /\ Wire
  BY DEF IInv
<1>2. ASSUME NEW w \in {"connecting", "open", "closing", "closed"}
      PROVE  LET e == [s EXCEPT !.ws = w]
             IN  Core(e) /\ Quiet(e) /\ e.closed = s.closed /\ e.starting = s.starting
  BY <1>1 DEF Core, Session, Entry, Quiet
<1>3. ASSUME NEW x, Core(x) PROVE Core(Settle(x)) /\ Quiet(Settle(x))
  BY <1>3, SettleKeeps DEF Quiet
<1>4. CASE SocketOpens
  <2>1. Core(s') /\ Quiet(s')
    BY <1>2, <1>4 DEF SocketOpens
  <2>2. <<F("session.update", None, 0)>> \in Seq(Frame)
    BY DEF F, Frame
  <2> QED BY <1>1, <1>4, <2>1, <2>2 DEF IInv, Wire, SocketOpens, Core, Quiet, Entry
<1>5. CASE SocketErrors
  <2>1. Core(s') /\ Quiet(s')
    BY <1>2, <1>3, <1>5 DEF SocketErrors
  <2> QED BY <1>1, <1>5, <2>1 DEF IInv, Wire, SocketErrors, Core, Quiet, Entry
<1>6. CASE SocketCloses
  <2> DEFINE e == [s EXCEPT !.ws = "closed"]
  <2>1. Core(e) /\ Quiet(e) /\ e.closed = s.closed /\ e.starting = s.starting
    BY <1>2
  <2>2. s' = IF s.starting = "opening" THEN Settle(e)
             ELSE IF s.closed THEN e ELSE CloseOut(e)
    BY <1>6 DEF SocketCloses
  <2> HIDE DEF e
  <2>3. Core(s') /\ Quiet(s')
    <3>1. Core(CloseOut(e)) /\ Quiet(CloseOut(e))
      BY <2>1, CloseOutKeeps DEF Quiet
    <3> QED BY <1>3, <2>1, <2>2, <3>1
  <2>4. out' = << >> /\ inbox' = << >> /\ vendor' = vendor
    BY <1>6 DEF SocketCloses
  <2>5. Wire'
    BY <1>1, <2>4 DEF Wire
  <2> QED BY <2>3, <2>5 DEF IInv, Core, Quiet, Entry
<1>7. CASE HandshakeTimeout
  <2>1. Core(s') /\ Quiet(s')
    BY <1>1, <1>3, <1>7 DEF HandshakeTimeout
  <2> QED BY <1>1, <1>7, <2>1 DEF IInv, Wire, HandshakeTimeout, Core, Quiet, Entry
<1> QED BY <1>4, <1>5, <1>6, <1>7 DEF Socket

LEMMA OnMessageKeeps == ASSUME IInv, OnMessage PROVE IInv'
<1>1. Core(s) /\ Quiet(s) /\ Wire
  BY DEF IInv
<1>2. ASSUME NEW type, Handles(type)
      PROVE  /\ ~s.closed /\ Wire' /\ Head(inbox) \in Frame
             /\ Head(inbox).type = type
  BY <1>1, <1>2, Queues DEF Handles, Wire
<1>3. CASE SessionUpdated
  <2> DEFINE y == [s EXCEPT !.starting = "ready"]
  <2>1. s' = y /\ Wire' /\ ~s.closed
    BY <1>2, <1>3 DEF SessionUpdated
  <2>2. Core(y) /\ Quiet(y)
    BY <1>1, <2>1 DEF Core, Session, Entry, Quiet
  <2> QED BY <2>1, <2>2 DEF IInv, Core, Quiet, Entry
<1>4. CASE VendorError
  <2>1. Core(s') /\ Quiet(s')
    BY <1>1, <1>4, SettleKeeps DEF VendorError, Quiet
  <2> QED BY <1>2, <1>4, <2>1 DEF IInv, VendorError, Core, Quiet, Entry
<1>5. CASE SpeechStarted
  <2>1. Core(s') /\ Quiet(s')
    BY <1>1, <1>2, <1>5, EndActiveKeeps, StillOpen DEF SpeechStarted
  <2> QED BY <1>2, <1>5, <2>1 DEF IInv, SpeechStarted, Core, Quiet, Entry
<1>6. CASE SpeechStopped
  <2>1. Core(s') /\ Quiet(s')
    BY <1>1, <1>2, <1>6, BeginTurnKeeps, StillOpen DEF SpeechStopped, IdLeft
  <2> QED BY <1>2, <1>6, <2>1 DEF IInv, SpeechStopped, Core, Quiet, Entry
<1>7. CASE ResponseCreated
  <2>1. Head(inbox).response \in Response /\ ~s.closed /\ Wire'
    BY <1>2, <1>7 DEF ResponseCreated, Frame
  <2>2. Core(s') /\ Quiet(s')
    BY <1>1, <1>7, <2>1, BindResponseKeeps, StillOpen DEF ResponseCreated, IdLeft
  <2> QED BY <2>1, <2>2 DEF IInv, Core, Quiet, Entry
<1>8. CASE AudioDelta
  <2>1. Head(inbox).response \in Response /\ ~s.closed /\ Wire'
    BY <1>2, <1>8 DEF AudioDelta, Frame
  <2>2. Core(s') /\ Quiet(s')
    BY <1>1, <1>8, <2>1, OnAudioDeltaKeeps, StillOpen DEF AudioDelta
  <2> QED BY <2>1, <2>2 DEF IInv, Core, Quiet, Entry
<1>9. CASE ResponseDone
  <2>1. Head(inbox).response \in Response /\ ~s.closed /\ Wire'
    BY <1>2, <1>9 DEF ResponseDone, Frame
  <2>2. (Head(inbox).arg = 1) \in BOOLEAN
    OBVIOUS
  <2> DEFINE y == OnResponseDone(s, Head(inbox).response, Head(inbox).arg = 1)
  <2>3. Core(y) /\ SameLife(s, y)
    BY <1>1, <2>1, <2>2, OnResponseDoneKeeps
  <2>4. s' = y
    BY <1>9 DEF ResponseDone
  <2> HIDE DEF y
  <2>5. Core(s') /\ Quiet(s')
    BY <1>1, <2>1, <2>3, <2>4, StillOpen
  <2> QED BY <2>1, <2>5 DEF IInv, Core, Quiet, Entry
<1>10. CASE FrameIgnored
  <2>1. s' = s /\ Wire'
    BY <1>1, <1>10, Queues DEF FrameIgnored, Wire
  <2> QED BY <1>1, <2>1 DEF IInv, Core, Quiet, Entry
<1> QED BY <1>3, <1>4, <1>5, <1>6, <1>7, <1>8, <1>9, <1>10 DEF OnMessage

\* Nothing the vendor does touches the session.
LEMMA VendorKeeps == ASSUME IInv, VendorSide PROVE IInv' /\ s' = s
<1>1. Core(s) /\ Wire
  BY DEF IInv
<1>2. /\ vendor.live \in Response \cup {None}
      /\ vendor.created \in 0..MaxResponses
      /\ vendor.made \in [Response -> Nat]
  BY <1>1 DEF Wire, Vendor
<1>3. ASSUME NEW counts \in BOOLEAN PROVE Done(counts) \in Seq(Frame)
  <2>1. CASE vendor.live = None
    BY <2>1 DEF Done
  <2>2. CASE vendor.live # None
    <3>1. \A n \in {0, 1} : F("response.done", vendor.live, n) \in Frame
      BY <1>2, <2>2 DEF F, Frame
    <3> QED BY <2>2, <3>1 DEF Done
  <2> QED BY <2>1, <2>2
<1>4. \A type : Reads(type) => s' = s /\ out' \in Seq(Frame)
                               /\ out # << >> /\ Head(out) \in Frame
  BY <1>1, Queues DEF Reads, Wire
<1>5. ASSUME NEW frames \in Seq(Frame), Says(frames) PROVE inbox' \in Seq(Frame)
  BY <1>1, <1>5, Queues DEF Says, Wire
<1>6. ASSUME vendor.created < MaxResponses
      PROVE  /\ vendor.created + 1 \in Response
             /\ vendor.created + 1 \in 0..MaxResponses
  BY <1>2, <1>6, BoundsAssumption DEF Response
<1>7. F("session.updated", None, 0) \in Frame /\ F("error", None, 0) \in Frame
      /\ F("speech_started", None, 0) \in Frame /\ F("speech_stopped", None, 0) \in Frame
  BY DEF F, Frame
<1>8. \A r \in Response : F("response.created", r, 0) \in Frame
                          /\ F("audio.delta", r, 0) \in Frame
  BY DEF F, Frame
<1> SUFFICES s' = s /\ Wire'
  BY DEF IInv, Core, Quiet, Entry
<1>9. CASE VendorConfigures
  <2>1. [vendor EXCEPT !.configured = TRUE] \in Vendor
    BY <1>1 DEF Wire, Vendor
  <2>2. vendor' \in Vendor
    BY <1>1, <1>9, <2>1 DEF VendorConfigures, Wire
  <2>3. /\ <<F("session.updated", None, 0)>> \in Seq(Frame)
        /\ <<F("error", None, 0)>> \in Seq(Frame)
    BY <1>7
  <2>4. inbox' \in Seq(Frame)
    BY <1>5, <1>9, <2>3 DEF VendorConfigures
  <2> QED BY <1>4, <1>9, <2>2, <2>4 DEF VendorConfigures, Wire
<1>10. CASE VendorResponds
  <2>1. <<F("response.created", vendor.created + 1, 0)>> \in Seq(Frame)
    BY <1>6, <1>8, <1>10 DEF VendorResponds
  <2>2. inbox' \in Seq(Frame)
    BY <1>5, <1>10, <2>1 DEF VendorResponds
  <2>3. vendor' \in Vendor
    BY <1>1, <1>6, <1>10 DEF VendorResponds, Creates, Wire, Vendor
  <2> QED BY <1>4, <1>10, <2>2, <2>3 DEF VendorResponds, Wire
<1>11. CASE VendorRefuses
  BY <1>1, <1>4, <1>11 DEF VendorRefuses, Wire
<1>12. CASE VendorCancels
  <2>1. inbox' \in Seq(Frame)
    BY <1>1, <1>3, <1>5, <1>12 DEF VendorCancels, Wire
  <2>2. vendor' \in Vendor
    BY <1>1, <1>12 DEF VendorCancels, Wire, Vendor
  <2> QED BY <1>4, <1>12, <2>1, <2>2 DEF VendorCancels, Wire
<1>13. CASE VendorTruncates
  BY <1>1, <1>4, <1>13 DEF VendorTruncates, Wire
<1>14. CASE VendorSpeaks
  <2>1. vendor.live \in Response
    BY <1>2, <1>14 DEF VendorSpeaks
  <2>2. <<F("audio.delta", vendor.live, 0)>> \in Seq(Frame)
    BY <1>8, <2>1
  <2>3. inbox' \in Seq(Frame)
    BY <1>5, <1>14, <2>2 DEF VendorSpeaks
  <2>4. [vendor.made EXCEPT ![vendor.live] = @ + 1] \in [Response -> Nat]
    BY <1>2, <2>1
  <2>5. vendor' \in Vendor
    BY <1>1, <1>14, <2>4 DEF VendorSpeaks, Wire, Vendor
  <2> QED BY <1>1, <1>14, <2>3, <2>5 DEF VendorSpeaks, Wire
<1>15. CASE VendorFinishes
  <2>1. inbox' \in Seq(Frame)
    BY <1>3, <1>5, <1>15 DEF VendorFinishes
  <2>2. vendor' \in Vendor
    BY <1>1, <1>15 DEF VendorFinishes, Wire, Vendor
  <2> QED BY <1>1, <1>15, <2>1, <2>2 DEF VendorFinishes, Wire
<1>16. CASE VendorHearsUser
  <2>1. \A counts \in BOOLEAN :
          <<F("speech_started", None, 0)>> \o Done(counts) \in Seq(Frame)
    BY <1>3, <1>7, Queues
  <2>2. inbox' \in Seq(Frame)
    BY <1>5, <1>16, <2>1 DEF VendorHearsUser
  <2>3. vendor' \in Vendor
    BY <1>1, <1>16 DEF VendorHearsUser, Wire, Vendor
  <2> QED BY <1>1, <1>16, <2>2, <2>3 DEF VendorHearsUser, Wire
<1>17. CASE VendorHearsSilence
  <2>1. <<F("speech_stopped", None, 0),
          F("response.created", vendor.created + 1, 0)>> \in Seq(Frame)
    BY <1>6, <1>7, <1>8, <1>17 DEF VendorHearsSilence
  <2>2. inbox' \in Seq(Frame)
    BY <1>5, <1>17, <2>1 DEF VendorHearsSilence
  <2>3. vendor' \in Vendor
    BY <1>1, <1>6, <1>17 DEF VendorHearsSilence, Wire, Vendor
  <2> QED BY <1>1, <1>17, <2>2, <2>3 DEF VendorHearsSilence, Wire
<1> QED BY <1>9, <1>10, <1>11, <1>12, <1>13, <1>14, <1>15, <1>16, <1>17 DEF VendorSide

-----------------------------------------------------------------------------
\* The session's books stay in order, whatever client, socket and vendor do.
THEOREM Invariance == Spec => []IInv
<1>1. Init => IInv
  BY InitIInv
<1>2. IInv /\ [Next]_vars => IInv'
  <2> SUFFICES ASSUME IInv, [Next]_vars PROVE IInv'
    OBVIOUS
  <2>1. CASE Next
    BY <2>1, ClientKeeps, SocketKeeps, OnMessageKeeps, VendorKeeps DEF Next
  <2>2. CASE UNCHANGED vars
    BY <2>2 DEF vars, IInv, Core, Quiet, Entry, Wire
  <2> QED BY <2>1, <2>2
<1> QED BY <1>1, <1>2, PTL DEF Spec

\* Every field, and every frame in flight, has its type: no truncate without an
\* item, no report without a response.
THEOREM TypeCorrect == Spec => []TypeOK
<1>1. IInv => TypeOK
  BY DEF IInv, Core, Wire, TypeOK
<1> QED BY <1>1, Invariance, PTL

\* Turn events pair up and no turn has two rows, or one before it ended.
THEOREM EventsPairUp == Spec => []EventsPaired
<1>1. IInv => EventsPaired
  <2> SUFFICES ASSUME IInv PROVE EventsPaired
    OBVIOUS
  <2>1. Core(s)
    BY DEF IInv
  <2>2. \A t \in TurnId :
          /\ s.started[t] <= 1
          /\ s.ended[t] <= s.started[t]
          /\ s.usages[t] <= s.ended[t]
    BY <2>1 DEF Core, Entry
  <2>3. \A t \in TurnId : s.ended[t] < s.started[t] <=> t = s.active
    BY <2>1, Fields DEF Core, Entry, Turn
  <2>4. s.active \in TurnId \cup {None} /\ None \notin TurnId
    BY <2>1, Fields DEF Core, TurnId, None
  <2> QED BY <2>2, <2>3, <2>4 DEF EventsPaired
<1> QED BY <1>1, Invariance, PTL

\* What is owed is awaited, and nothing is owed once the session is closed.
THEOREM NothingOwedIsLost == Spec => []OwedIsAwaited
<1>1. IInv => OwedIsAwaited
  BY Fields DEF IInv, Core, Entry, Quiet, OwedIsAwaited
<1> QED BY <1>1, Invariance, PTL

\* Nothing about a turn is reported once the session is closed or its start()
\* was rejected: the handlers that still run find nothing to do.
THEOREM SilentOnceClosed == Spec => ClosedIsSilent
<1> DEFINE Over == s.closed \/ s.starting = "rejected"
           Kept == UNCHANGED <<s.started, s.ended, s.usages, s.turns>>
<1>1. IInv /\ [Next]_vars => [Over => Kept]_vars
  <2> SUFFICES ASSUME IInv, Next, Over PROVE Kept
    BY DEF vars
  <2>1. s.closed /\ (s.active = None \/ s.starting = "rejected") /\ s \in Session
    BY DEF IInv, Core, Quiet
  <2>2. CASE Client
    BY <2>1, <2>2 DEF Client, CommitAudio, SendText, Interrupt, Close, Usable
  <2>3. CASE Socket
    <3>1. CASE SocketOpens
      BY <2>1, <3>1 DEF SocketOpens, Session
    <3>2. CASE SocketErrors
      BY <2>1, <3>2 DEF SocketErrors, Settle, Session
    <3>3. CASE SocketCloses
      BY <2>1, <3>3 DEF SocketCloses, Settle, Session
    <3>4. CASE HandshakeTimeout
      BY <2>1, <3>4 DEF HandshakeTimeout, Settle, Session
    <3> QED BY <2>3, <3>1, <3>2, <3>3, <3>4 DEF Socket
  <2>4. CASE OnMessage
    BY <2>1, <2>4 DEF OnMessage, Handles, SessionUpdated, VendorError, SpeechStarted,
         SpeechStopped, ResponseCreated, AudioDelta, ResponseDone, FrameIgnored
  <2>5. CASE VendorSide
    BY <2>5, VendorKeeps
  <2> QED BY <2>2, <2>3, <2>4, <2>5 DEF Next
<1> QED BY <1>1, Invariance, PTL DEF Spec, ClosedIsSilent

-----------------------------------------------------------------------------
(* Which response a turn's row is for.  The session books: a response it    *)
(* saw created is bound to exactly one turn, the row of a turn reports the  *)
(* response it is bound to, and a bound turn is billed with a row.          *)

Book(x) ==
    /\ \A t \in TurnId :
         /\ x.turns[t].responseId \in x.seen \cup {None}
         /\ x.turns[t].phase = "none" => x.turns[t].responseId = None
         /\ x.usages[t] = 1 => x.paid[t] = x.turns[t].responseId
         /\ x.turns[t].responseId # None =>
              /\ x.turns[t].billed => x.usages[t] = 1
              /\ x.turns[t].billed => x.closed \/ x.turns[t].responseId \in x.done
    /\ \A r \in x.seen : \E t \in TurnId : x.turns[t].responseId = r
    /\ \A t, u \in TurnId :
         x.turns[t].responseId # None /\ x.turns[t].responseId = x.turns[u].responseId
           => t = u

\* A turn whose response was reported done has its bill.
Reported(x) ==
    \A t \in TurnId : x.turns[t].responseId \in x.done => x.turns[t].billed

\* The wire: creations and reports are numbered in the order the vendor makes
\* them, and the frames on their way are those after the last one handled, each
\* once and in order.

Mark(f) ==
    CASE f.type = "response.created" -> 2 * f.response - 1
      [] f.type = "response.done" -> 2 * f.response
      [] OTHER -> 0

Said(v) == 2 * v.created - IF v.live = None THEN 0 ELSE 1

Line(q, lo, hi) ==
    /\ lo <= hi
    /\ \A i \in 1..Len(q) : Mark(q[i]) # 0 => lo < Mark(q[i]) /\ Mark(q[i]) <= hi
    /\ \A i, j \in 1..Len(q) :
         i < j /\ Mark(q[i]) # 0 /\ Mark(q[j]) # 0 => Mark(q[i]) < Mark(q[j])
    /\ \A k \in (lo + 1)..hi : \E i \in 1..Len(q) : Mark(q[i]) = k

Heard(x, m) ==
    /\ x.seen = {r \in Response : 2 * r - 1 <= m}
    /\ x.done = {r \in Response : 2 * r <= m}

InOrder ==
    /\ vendor.live # None => vendor.live = vendor.created
    /\ ~s.closed =>
         \E m \in 0..(2 * MaxResponses) : Heard(s, m) /\ Line(inbox, m, Said(vendor))

BInv == Book(s) /\ Reported(s) /\ InOrder

\* A step that leaves the books alone, whatever it does to the open turn.
SameBooks(x, y) ==
    /\ y.seen = x.seen /\ y.done = x.done
    /\ x.closed => y.closed
    /\ \A t \in TurnId :
         /\ y.turns[t].responseId = x.turns[t].responseId
         /\ y.turns[t].billed = x.turns[t].billed
         /\ y.turns[t].phase = "none" => x.turns[t].phase = "none"
         /\ y.usages[t] = x.usages[t] /\ y.paid[t] = x.paid[t]

LEMMA SameBooksKeeps ==
    ASSUME NEW x, NEW y, Book(x), SameBooks(x, y)
    PROVE  Book(y) /\ (Reported(x) => Reported(y))
<1>1. \A t \in TurnId :
        /\ y.turns[t].responseId \in y.seen \cup {None}
        /\ y.turns[t].phase = "none" => y.turns[t].responseId = None
        /\ y.usages[t] = 1 => y.paid[t] = y.turns[t].responseId
        /\ y.turns[t].responseId # None =>
             /\ y.turns[t].billed => y.usages[t] = 1
             /\ y.turns[t].billed => y.closed \/ y.turns[t].responseId \in y.done
  BY DEF Book, SameBooks
<1>2. \A r \in y.seen : \E t \in TurnId : y.turns[t].responseId = r
  BY DEF Book, SameBooks
<1>3. \A t, u \in TurnId :
        y.turns[t].responseId # None /\ y.turns[t].responseId = y.turns[u].responseId
          => t = u
  BY DEF Book, SameBooks
<1> QED BY <1>1, <1>2, <1>3 DEF Book, SameBooks, Reported

LEMMA SameBooksTrans ==
    ASSUME NEW x, NEW y, NEW z, SameBooks(x, y), SameBooks(y, z)
    PROVE  SameBooks(x, z)
BY DEF SameBooks

LEMMA EndTurnBooks ==
    ASSUME NEW x \in Session, NEW t \in TurnId
    PROVE  SameBooks(x, EndTurn(x, t))
<1> DEFINE turn == [x.turns[t] EXCEPT !.phase = "ended"]
           y == EndTurn(x, t)
<1>1. CASE x.turns[t].phase # "open"
  BY <1>1 DEF EndTurn, SameBooks
<1>2. CASE x.turns[t].phase = "open"
  <2>1. x.turns[t] \in Turn
    BY Fields
  <2>2. /\ turn.phase = "ended" /\ turn.responseId = x.turns[t].responseId
        /\ turn.billed = x.turns[t].billed
    BY <2>1 DEF Turn
  <2> HIDE DEF turn
  <2>3. y = [x EXCEPT
               !.turns = [x.turns EXCEPT ![t] = turn],
               !.active = IF x.active = t THEN None ELSE x.active,
               !.awaiting = IF x.turns[t].billed THEN x.awaiting
                            ELSE x.awaiting \cup {t},
               !.ended = [x.ended EXCEPT ![t] = x.ended[t] + 1]]
    BY <1>2 DEF EndTurn, turn
  <2> HIDE DEF y
  <2>4. /\ y.seen = x.seen /\ y.done = x.done /\ y.closed = x.closed
        /\ y.usages = x.usages /\ y.paid = x.paid
        /\ y.turns = [x.turns EXCEPT ![t] = turn]
    BY <2>3 DEF Session
  <2>5. \A u \in TurnId : y.turns[u] = IF u = t THEN turn ELSE x.turns[u]
    BY <2>4, Fields
  <2> QED BY <2>2, <2>4, <2>5 DEF SameBooks, y
<1> QED BY <1>1, <1>2

LEMMA EndActiveBooks ==
    ASSUME NEW x \in Session
    PROVE  SameBooks(x, EndActive(x))
BY EndTurnBooks, Fields DEF EndActive, SameBooks

\* A turn that is opened has no response yet.
LEMMA OpenTurnBooks ==
    ASSUME NEW x, Core(x), Book(x), x.counter < MaxTurns
    PROVE  /\ SameBooks(x, OpenTurn(x))
           /\ OpenTurn(x).turns[OpenTurn(x).active].responseId = None
<1> DEFINE t == x.counter + 1
           turn == [NoTurn EXCEPT !.phase = "open"]
           y == OpenTurn(x)
<1>1. t \in TurnId /\ x.counter < t /\ x.turns \in [TurnId -> Turn] /\ x \in Session
  BY BoundsAssumption DEF Core, Session, TurnId
<1>2. x.turns[t].phase = "none" /\ ~x.turns[t].billed
  BY <1>1 DEF Core, Entry
<1>3. x.turns[t].responseId = None
  BY <1>1, <1>2 DEF Book
<1>4. turn.phase = "open" /\ turn.responseId = None /\ turn.billed = FALSE
  BY DEF NoTurn
<1>5. x.turns[t].billed = FALSE
  BY <1>1, <1>2 DEF Turn
<1> HIDE DEF turn
<1>6. y = [x EXCEPT !.counter = t, !.turns = [x.turns EXCEPT ![t] = turn],
                    !.active = t,
                    !.started = [x.started EXCEPT ![t] = x.started[t] + 1]]
  BY DEF OpenTurn, turn
<1> HIDE DEF y, t
<1>7. /\ y.seen = x.seen /\ y.done = x.done /\ y.closed = x.closed
      /\ y.usages = x.usages /\ y.paid = x.paid /\ y.active = t
      /\ y.turns = [x.turns EXCEPT ![t] = turn]
  BY <1>1, <1>6 DEF Session
<1>8. \A u \in TurnId : y.turns[u] = IF u = t THEN turn ELSE x.turns[u]
  BY <1>1, <1>7
<1> QED BY <1>1, <1>3, <1>4, <1>5, <1>7, <1>8 DEF SameBooks, y

LEMMA BeginTurnBooks ==
    ASSUME NEW x, Core(x), Book(x), x.counter < MaxTurns
    PROVE  /\ SameBooks(x, BeginTurn(x))
           /\ BeginTurn(x).turns[BeginTurn(x).active].responseId = None
<1> DEFINE e == EndActive(x)
<1>1. Core(e) /\ e.counter = x.counter
  BY EndActiveKeeps
<1>2. SameBooks(x, e)
  BY EndActiveBooks DEF Core
<1> HIDE DEF e
<1>3. Book(e)
  BY <1>2, SameBooksKeeps
<1>4. /\ SameBooks(e, OpenTurn(e))
      /\ OpenTurn(e).turns[OpenTurn(e).active].responseId = None
  BY <1>1, <1>3, OpenTurnBooks
<1>5. SameBooks(x, OpenTurn(e))
  BY <1>2, <1>4, SameBooksTrans
<1> QED BY <1>4, <1>5 DEF BeginTurn, e

LEMMA OnAudioDeltaBooks ==
    ASSUME NEW x \in Session, NEW r \in Response
    PROVE  SameBooks(x, OnAudioDelta(x, r))
<1> DEFINE t == OwnerOf(x, r)
           turn == [x.turns[t] EXCEPT !.itemId = r, !.audio = x.turns[t].audio + 1]
           y == OnAudioDelta(x, r)
<1>1. t \in TurnId \cup {None}
  BY Fields DEF OwnerOf
<1>2. CASE t = None
  BY <1>2 DEF OnAudioDelta, SameBooks
<1>3. CASE t # None
  <2>1. t \in TurnId /\ x.turns[t] \in Turn /\ x.turns \in [TurnId -> Turn]
    BY <1>1, <1>3, Fields
  <2>2. y = [x EXCEPT !.turns = [x.turns EXCEPT ![t] = turn]]
    BY <1>3 DEF OnAudioDelta
  <2> HIDE DEF t
  <2>3. /\ turn.phase = x.turns[t].phase /\ turn.billed = x.turns[t].billed
        /\ turn.responseId = x.turns[t].responseId
    BY <2>1 DEF Turn
  <2> HIDE DEF turn, y
  <2>4. /\ y.seen = x.seen /\ y.done = x.done /\ y.closed = x.closed
        /\ y.usages = x.usages /\ y.paid = x.paid
        /\ y.turns = [x.turns EXCEPT ![t] = turn]
    BY <2>2 DEF Session
  <2>5. \A u \in TurnId : y.turns[u] = IF u = t THEN turn ELSE x.turns[u]
    BY <2>1, <2>4
  <2> QED BY <2>3, <2>4, <2>5 DEF SameBooks, y
<1> QED BY <1>2, <1>3

LEMMA SettleBooks ==
    ASSUME NEW x \in Session
    PROVE  SameBooks(x, Settle(x))
BY DEF SameBooks, Settle, Session

\* A bill for turns that have ended: with the counts of the response they are
\* bound to, or of turns nothing more will be reported of.
LEMMA BillBooks ==
    ASSUME NEW x, Core(x), Book(x), NEW T \in SUBSET TurnId,
           NEW r \in Response \cup {None}, NEW counts \in BOOLEAN,
           x.closed \/ \A t \in T : x.turns[t].responseId \in x.done \cup {None},
           r # None => \A t \in T : x.turns[t].responseId = r
    PROVE  /\ Book(Bill(x, T, r, counts))
           /\ Bill(x, T, r, counts).seen = x.seen
           /\ Bill(x, T, r, counts).done = x.done
           /\ \A t \in TurnId :
                /\ Bill(x, T, r, counts).turns[t].responseId = x.turns[t].responseId
                /\ Bill(x, T, r, counts).turns[t].billed
                     <=> x.turns[t].billed \/ t \in T
<1> DEFINE now == {t \in T : ~x.turns[t].billed}
           rows == {t \in now : counts \/ Ran(x.turns[t])}
           turn(t) == [x.turns[t] EXCEPT !.billed = @ \/ t \in now]
           due(t) == IF t \notin rows THEN x.paid[t]
                     ELSE IF r # None THEN r ELSE x.turns[t].responseId
           y == Bill(x, T, r, counts)
<1>1. y = [x EXCEPT
             !.turns = [t \in TurnId |-> turn(t)],
             !.awaiting = x.awaiting \ now,
             !.usages = [t \in TurnId |->
                           x.usages[t] + IF t \in rows THEN 1 ELSE 0],
             !.paid = [t \in TurnId |-> due(t)]]
  BY DEF Bill
<1>2. x \in Session /\ \A t \in TurnId : x.turns[t] \in Turn /\ Entry(x, t)
  BY Fields DEF Core
<1>3. \A t \in TurnId :
        /\ turn(t).responseId = x.turns[t].responseId
        /\ turn(t).phase = x.turns[t].phase
        /\ turn(t).billed <=> x.turns[t].billed \/ t \in T
  BY <1>2 DEF Turn
<1>4. \A t \in rows : ~x.turns[t].billed /\ t \in T
  OBVIOUS
<1>5. \A t \in TurnId : t \in T /\ t \notin rows /\ ~x.turns[t].billed
        => x.turns[t].responseId = None
  BY DEF Ran
<1> HIDE DEF turn
<1>6. \A t \in TurnId : t \notin rows => due(t) = x.paid[t]
  OBVIOUS
<1>7. \A t \in TurnId : t \in rows => due(t) = x.turns[t].responseId
  BY <1>4
<1> HIDE DEF now, rows, due, y
<1>8. /\ y.seen = x.seen /\ y.done = x.done /\ y.closed = x.closed
      /\ \A t \in TurnId :
           /\ y.turns[t] = turn(t)
           /\ y.usages[t] = x.usages[t] + IF t \in rows THEN 1 ELSE 0
           /\ y.paid[t] = due(t)
  BY <1>1, <1>2 DEF Session
<1>9. ASSUME NEW t \in TurnId
      PROVE  /\ y.turns[t].responseId \in y.seen \cup {None}
             /\ y.turns[t].phase = "none" => y.turns[t].responseId = None
             /\ y.usages[t] = 1 => y.paid[t] = y.turns[t].responseId
             /\ y.turns[t].responseId # None =>
                  /\ y.turns[t].billed => y.usages[t] = 1
                  /\ y.turns[t].billed => y.closed \/ y.turns[t].responseId \in y.done
  <2>1. /\ x.turns[t].responseId \in x.seen \cup {None}
        /\ x.turns[t].phase = "none" => x.turns[t].responseId = None
        /\ x.usages[t] = 1 => x.paid[t] = x.turns[t].responseId
        /\ x.turns[t].responseId # None =>
             /\ x.turns[t].billed => x.usages[t] = 1
             /\ x.turns[t].billed => x.closed \/ x.turns[t].responseId \in x.done
    BY DEF Book
  <2>2. /\ x.usages[t] \in {0, 1}
        /\ x.usages[t] = 1 => x.turns[t].billed
    BY <1>2 DEF Entry
  <2> HIDE DEF turn
  <2>5. /\ y.turns[t].responseId = x.turns[t].responseId
        /\ y.turns[t].phase = x.turns[t].phase
        /\ y.turns[t].billed <=> x.turns[t].billed \/ t \in T
    BY <1>3, <1>8
  <2>6. t \in T /\ ~x.closed => x.turns[t].responseId \in x.done \cup {None}
    OBVIOUS
  <2>3. CASE t \in rows
    <3>1. y.usages[t] = 1 /\ y.paid[t] = y.turns[t].responseId
      BY <1>3, <1>4, <1>7, <1>8, <2>2, <2>3
    <3> QED BY <1>4, <1>8, <2>1, <2>3, <2>5, <2>6, <3>1
  <2>4. CASE t \notin rows
    <3>1. y.usages[t] = x.usages[t] /\ y.paid[t] = x.paid[t]
      BY <1>6, <1>8, <2>2, <2>4
    <3> QED BY <1>5, <1>8, <2>1, <2>4, <2>5, <2>6, <3>1
  <2> QED BY <2>3, <2>4
<1>10. \A q \in y.seen : \E t \in TurnId : y.turns[t].responseId = q
  BY <1>3, <1>8 DEF Book
<1>11. \A t, u \in TurnId :
         y.turns[t].responseId # None /\ y.turns[t].responseId = y.turns[u].responseId
           => t = u
  BY <1>3, <1>8 DEF Book
<1>12. Book(y)
  BY <1>9, <1>10, <1>11 DEF Book
<1> QED BY <1>3, <1>8, <1>12 DEF y

LEMMA CloseOutBooks ==
    ASSUME NEW x, Core(x), Book(x), Reported(x)
    PROVE  Book(CloseOut(x)) /\ Reported(CloseOut(x))
<1> DEFINE c == [x EXCEPT !.closed = TRUE]
           e == EndActive(c)
           T == e.awaiting
<1>1. Core(c) /\ c.closed /\ SameBooks(x, c)
  BY DEF Core, Session, Entry, SameBooks
<1>2. Core(e) /\ e.closed /\ SameBooks(c, e)
  BY <1>1, EndActiveKeeps, EndActiveBooks DEF Core, SameLife
<1>3. Book(e) /\ Reported(e)
  BY <1>1, <1>2, SameBooksKeeps
<1>4. CloseOut(x) = Bill(e, T, None, FALSE)
  BY DEF CloseOut, FlushBilling
<1> HIDE DEF c, e
<1>5. T \in SUBSET TurnId
  BY <1>2 DEF Core, Session
<1> HIDE DEF T
<1> DEFINE f == Bill(e, T, None, FALSE)
<1>6. /\ Book(f) /\ f.done = e.done
      /\ \A t \in TurnId :
           /\ f.turns[t].responseId = e.turns[t].responseId
           /\ f.turns[t].billed <=> e.turns[t].billed \/ t \in T
  BY <1>2, <1>3, <1>5, BillBooks
<1> HIDE DEF f
<1> QED BY <1>3, <1>4, <1>6 DEF Reported, f

\* A response that is new to the session is bound to a turn that has none.
LEMMA BindResponseBooks ==
    ASSUME NEW x, Core(x), Book(x), Reported(x), NEW r \in Response,
           r \notin x.seen, r \notin x.done, ~x.closed,
           x.seen \subseteq x.done,
           x.active = None => x.counter < MaxTurns
    PROVE  /\ Book(BindResponse(x, r)) /\ Reported(BindResponse(x, r))
           /\ BindResponse(x, r).seen = x.seen \cup {r}
           /\ BindResponse(x, r).done = x.done
<1> DEFINE b == IF x.active = None THEN BeginTurn(x) ELSE x
           a == b.active
           turn == [b.turns[a] EXCEPT !.responseId = r]
           y == BindResponse(x, r)
<1>1. /\ Core(b) /\ SameBooks(x, b) /\ a \in TurnId
      /\ b.turns[a].responseId = None
  <2>1. CASE x.active = None
    BY <2>1, BeginTurnKeeps, BeginTurnBooks
  <2>2. CASE x.active # None
    <3>1. x.active \in TurnId /\ ~x.turns[x.active].billed
      BY <2>2, Fields DEF Core, Entry
    <3>2. x.turns[x.active].responseId = None
      BY <3>1 DEF Book, Reported
    <3> QED BY <2>2, <3>1, <3>2 DEF SameBooks
  <2> QED BY <2>1, <2>2
<1>2. Book(b) /\ Reported(b)
  BY <1>1, SameBooksKeeps
<1>3. y = [b EXCEPT !.turns = [b.turns EXCEPT ![a] = turn],
                    !.seen = b.seen \cup {r}]
  BY DEF BindResponse
<1> HIDE DEF b, a, y
<1>4. b \in Session /\ b.turns[a] \in Turn /\ Entry(b, a)
  BY <1>1, Fields DEF Core
<1>5. b.turns[a].phase = "open" /\ ~b.turns[a].billed
  BY <1>1, <1>4 DEF Entry, a
<1>6. /\ turn.responseId = r /\ turn.phase = "open"
      /\ turn.billed = b.turns[a].billed
  BY <1>4, <1>5 DEF Turn
<1> HIDE DEF turn
<1>7. /\ y.seen = b.seen \cup {r} /\ y.done = b.done /\ y.closed = b.closed
      /\ y.usages = b.usages /\ y.paid = b.paid
      /\ y.turns = [b.turns EXCEPT ![a] = turn]
  BY <1>3, <1>4 DEF Session
<1>8. \A t \in TurnId : y.turns[t] = IF t = a THEN turn ELSE b.turns[t]
  BY <1>1, <1>4, <1>7, Fields
<1>9. r # None /\ r \notin b.seen /\ r \notin b.done
  BY <1>1 DEF SameBooks, Response, None
<1>10. ASSUME NEW t \in TurnId
       PROVE  /\ y.turns[t].responseId \in y.seen \cup {None}
              /\ y.turns[t].phase = "none" => y.turns[t].responseId = None
              /\ y.usages[t] = 1 => y.paid[t] = y.turns[t].responseId
              /\ y.turns[t].responseId # None =>
                   /\ y.turns[t].billed => y.usages[t] = 1
                   /\ y.turns[t].billed => y.closed \/ y.turns[t].responseId \in y.done
              /\ y.turns[t].responseId \in y.done => y.turns[t].billed
  <2>1. CASE t = a
    <3>1. b.usages[t] # 1
      BY <1>4, <1>5, <2>1 DEF Entry
    <3> QED BY <1>5, <1>6, <1>7, <1>8, <1>9, <2>1, <3>1
  <2>2. CASE t # a
    BY <1>2, <1>7, <1>8, <2>2 DEF Book, Reported
  <2> QED BY <2>1, <2>2
<1>11. \A q \in y.seen : \E t \in TurnId : y.turns[t].responseId = q
  <2>1. ASSUME NEW q \in y.seen PROVE \E t \in TurnId : y.turns[t].responseId = q
    <3>1. CASE q = r
      BY <1>1, <1>6, <1>8, <3>1
    <3>2. CASE q # r
      <4>1. PICK t \in TurnId : b.turns[t].responseId = q
        BY <1>2, <1>7, <3>2 DEF Book
      <4>2. q # None
        BY <1>4, <1>7, <3>2, Fields DEF Response, None
      <4> QED BY <1>1, <1>8, <4>1, <4>2
    <3> QED BY <3>1, <3>2
  <2> QED BY <2>1
<1>12. ASSUME NEW t \in TurnId, NEW u \in TurnId, y.turns[t].responseId # None,
              y.turns[t].responseId = y.turns[u].responseId
       PROVE  t = u
  <2>1. \A v \in TurnId : b.turns[v].responseId # r
    BY <1>2, <1>9 DEF Book
  <2>2. \A v, w \in TurnId :
          b.turns[v].responseId # None /\ b.turns[v].responseId = b.turns[w].responseId
            => v = w
    BY <1>2 DEF Book
  <2> QED BY <1>6, <1>8, <1>12, <2>1, <2>2
<1>13. Book(y) /\ Reported(y)
  BY <1>10, <1>11, <1>12 DEF Book, Reported
<1> QED BY <1>1, <1>7, <1>13 DEF SameBooks, y

\* A report finds the turn its response is bound to, and that turn alone.
LEMMA OnResponseDoneBooks ==
    ASSUME NEW x, Core(x), Book(x), Reported(x), NEW r \in Response,
           NEW counts \in BOOLEAN, r \in x.seen, r \notin x.done, ~x.closed
    PROVE  /\ Book(OnResponseDone(x, r, counts))
           /\ Reported(OnResponseDone(x, r, counts))
           /\ OnResponseDone(x, r, counts).seen = x.seen
           /\ OnResponseDone(x, r, counts).done = x.done \cup {r}
<1>1. PICK u \in TurnId : x.turns[u].responseId = r
  BY DEF Book
<1>2. r # None /\ u # None
  BY DEF Response, TurnId, None
<1>3. \A t \in TurnId : x.turns[t].responseId = r => t = u
  BY <1>1, <1>2 DEF Book
<1>4. x.turns[u].phase # "none" /\ ~x.turns[u].billed
  BY <1>1, <1>2 DEF Book
<1>5. u = x.active \/ u \in x.awaiting
  BY <1>4, Fields DEF Core, Entry, Turn
<1>6. TurnFor(x, r) = u
  <2> DEFINE late == {t \in x.awaiting : x.turns[t].responseId = r}
  <2>1. x.active \in TurnId \cup {None} /\ x.awaiting \subseteq TurnId
    BY Fields DEF Core
  <2>2. CASE u = x.active
    <3>1. x.active # None /\ x.turns[x.active].responseId = r
      BY <1>1, <1>2, <2>2
    <3>2. late \subseteq {u}
      BY <1>3, <2>1
    <3>3. late # {} => (CHOOSE t \in late : \A v \in late : t <= v) = u
      <4>1. ASSUME late # {} PROVE (CHOOSE t \in late : \A v \in late : t <= v) = u
        <5>1. late = {u} /\ u \in Nat
          BY <3>2, <4>1 DEF TurnId
        <5> QED BY <5>1
      <4> QED BY <4>1
    <3> QED BY <2>2, <3>1, <3>3 DEF TurnFor
  <2>3. CASE u # x.active
    <3>1. late = {u}
      BY <1>1, <1>3, <1>5, <2>1, <2>3
    <3>2. ~(x.active # None /\ x.turns[x.active].responseId = r)
      BY <1>3, <2>1, <2>3
    <3>3. (CHOOSE t \in late : \A v \in late : t <= v) = u
      <4>1. u \in Nat
        BY DEF TurnId
      <4> QED BY <3>1, <4>1
    <3>4. TurnFor(x, r) = CHOOSE t \in late : \A v \in late : t <= v
      <4>1. late # {}
        BY <3>1
      <4> QED BY <3>2, <4>1 DEF TurnFor
    <3> QED BY <3>3, <3>4
  <2> QED BY <2>2, <2>3
<1> DEFINE d == [x EXCEPT !.done = x.done \cup {r}]
           e == EndTurn(d, u)
           T == {u}
           f == Bill(e, T, r, counts)
<1>7. OnResponseDone(x, r, counts) = f
  BY <1>2, <1>6 DEF OnResponseDone
<1>8. /\ Core(d) /\ d.turns = x.turns /\ d.active = x.active /\ d.seen = x.seen
      /\ d.done = x.done \cup {r} /\ d.closed = x.closed /\ d.usages = x.usages
      /\ d.paid = x.paid
  <2>1. x.done \cup {r} \in SUBSET Response
    BY Fields DEF Core
  <2>2. d \in Session
    BY <2>1 DEF Core, Session
  <2> QED BY <2>2 DEF Core, Session, Entry
<1> HIDE DEF d
<1>9. Book(d)
  BY <1>8 DEF Book
<1>10. Core(e) /\ SameBooks(d, e) /\ e.turns[u].phase = "ended"
  <2>1. d.turns[u].phase \in {"open", "ended"}
    BY <1>4, <1>8, Fields DEF Core, Turn
  <2> QED BY <1>8, <2>1, EndTurnKeeps, EndTurnBooks DEF Core
<1> HIDE DEF e
<1>11. Book(e) /\ \A t \in TurnId : e.turns[t].responseId = x.turns[t].responseId
                                    /\ e.turns[t].billed = x.turns[t].billed
  BY <1>8, <1>9, <1>10, SameBooksKeeps DEF SameBooks
<1>12. e.seen = x.seen /\ e.done = x.done \cup {r}
  BY <1>8, <1>10 DEF SameBooks
<1>13. T \in SUBSET TurnId /\ (\A t \in T : e.turns[t].responseId = r)
       /\ r \in Response \cup {None} /\ \A t \in TurnId : t \in T <=> t = u
  BY <1>1, <1>11
<1> HIDE DEF T
<1>14. /\ Book(f) /\ f.seen = e.seen /\ f.done = e.done
       /\ \A t \in TurnId :
            /\ f.turns[t].responseId = e.turns[t].responseId
            /\ f.turns[t].billed <=> e.turns[t].billed \/ t \in T
  BY <1>10, <1>11, <1>12, <1>13, BillBooks
<1> HIDE DEF f
<1>15. Reported(f)
  BY <1>3, <1>11, <1>12, <1>13, <1>14 DEF Reported
<1> QED BY <1>7, <1>12, <1>14, <1>15

-----------------------------------------------------------------------------
(* The queue from the vendor.                                               *)

LEMMA MarkType ==
    ASSUME NEW f \in Frame
    PROVE  /\ Mark(f) \in Nat
           /\ f.type = "response.created" =>
                f.response \in Response /\ Mark(f) = 2 * f.response - 1 /\ Mark(f) # 0
           /\ f.type = "response.done" =>
                f.response \in Response /\ Mark(f) = 2 * f.response /\ Mark(f) # 0
           /\ f.type \notin {"response.created", "response.done"} => Mark(f) = 0
<1>1. CASE f.type = "response.created"
  <2>1. f.response \in 1..MaxResponses
    BY <1>1 DEF Frame, Response
  <2>2. Mark(f) = 2 * f.response - 1
    BY <1>1 DEF Mark
  <2> QED BY <1>1, <2>1, <2>2, BoundsAssumption DEF Response
<1>2. CASE f.type = "response.done"
  <2>1. f.response \in 1..MaxResponses
    BY <1>2 DEF Frame, Response
  <2>2. Mark(f) = 2 * f.response
    BY <1>2 DEF Mark
  <2> QED BY <1>2, <2>1, <2>2, BoundsAssumption DEF Response
<1>3. CASE f.type \notin {"response.created", "response.done"}
  BY <1>3 DEF Mark
<1> QED BY <1>1, <1>2, <1>3

\* The frame at the head is the next in the numbering, or is not numbered.
LEMMA LineTail ==
    ASSUME NEW q \in Seq(Frame), q # << >>, NEW lo \in Nat, NEW hi \in Int,
           Line(q, lo, hi)
    PROVE  /\ Mark(Head(q)) = 0 => Line(Tail(q), lo, hi)
           /\ Mark(Head(q)) # 0 =>
                Mark(Head(q)) = lo + 1 /\ lo + 1 <= hi /\ Line(Tail(q), lo + 1, hi)
<1> DEFINE p == Tail(q)
<1>1. /\ p \in Seq(Frame) /\ Len(p) = Len(q) - 1 /\ Len(q) \in Nat \ {0}
      /\ Head(q) = q[1] /\ \A i \in 1..Len(p) : p[i] = q[i + 1]
  BY HeadTailProperties
<1> HIDE DEF p
<1>2. \A i \in 1..Len(q) : q[i] \in Frame /\ Mark(q[i]) \in Nat
  BY MarkType
<1>3. \A i \in 1..Len(q) : i = 1 \/ (i - 1 \in 1..Len(p) /\ q[i] = p[i - 1])
  BY <1>1
<1>4. \A i, j \in 1..Len(p) :
        i < j /\ Mark(p[i]) # 0 /\ Mark(p[j]) # 0 => Mark(p[i]) < Mark(p[j])
  <2> TAKE i, j \in 1..Len(p)
  <2>1. i + 1 \in 1..Len(q) /\ j + 1 \in 1..Len(q) /\ (i < j => i + 1 < j + 1)
    BY <1>1
  <2> QED BY <1>1, <2>1 DEF Line
<1>5. \A i \in 1..Len(p) : Mark(p[i]) # 0 => lo < Mark(p[i]) /\ Mark(p[i]) <= hi
  BY <1>1 DEF Line
<1>6. CASE Mark(Head(q)) = 0
  <2>1. ASSUME NEW k \in (lo + 1)..hi PROVE \E i \in 1..Len(p) : Mark(p[i]) = k
    <3>1. PICK i \in 1..Len(q) : Mark(q[i]) = k
      BY DEF Line
    <3> QED BY <1>1, <1>3, <1>6, <3>1
  <2> QED BY <1>4, <1>5, <1>6, <2>1 DEF Line, p
<1>7. CASE Mark(Head(q)) # 0
  <2> DEFINE m == Mark(q[1])
  <2>1. m \in Nat /\ m # 0 /\ lo < m /\ m <= hi
    BY <1>1, <1>2, <1>7 DEF Line
  <2>2. \A i \in 1..Len(p) : Mark(p[i]) # 0 => m < Mark(p[i])
    <3> TAKE i \in 1..Len(p)
    <3>1. i + 1 \in 1..Len(q) /\ 1 \in 1..Len(q) /\ 1 < i + 1
      BY <1>1
    <3> QED BY <1>1, <1>7, <3>1 DEF Line
  <2> HIDE DEF m
  <2>3. m = lo + 1
    <3>1. lo + 1 \in (lo + 1)..hi
      BY <2>1
    <3>2. PICK i \in 1..Len(q) : Mark(q[i]) = lo + 1
      BY <3>1 DEF Line
    <3>3. CASE i = 1
      BY <3>2, <3>3 DEF m
    <3>4. CASE i # 1
      <4>1. i - 1 \in 1..Len(p) /\ Mark(p[i - 1]) = lo + 1
        BY <1>3, <3>2, <3>4
      <4>2. m < lo + 1
        BY <2>2, <4>1
      <4> QED BY <2>1, <4>2
    <3> QED BY <3>3, <3>4
  <2>4. \A i \in 1..Len(p) : Mark(p[i]) # 0 => lo + 1 < Mark(p[i]) /\ Mark(p[i]) <= hi
    BY <1>5, <2>2, <2>3
  <2>5. ASSUME NEW k \in (lo + 1 + 1)..hi PROVE \E i \in 1..Len(p) : Mark(p[i]) = k
    <3>1. k \in (lo + 1)..hi /\ k # lo + 1
      OBVIOUS
    <3>2. PICK i \in 1..Len(q) : Mark(q[i]) = k
      BY <3>1 DEF Line
    <3>3. i # 1
      BY <2>3, <3>1, <3>2 DEF m
    <3> QED BY <1>3, <3>2, <3>3
  <2>6. lo + 1 <= hi
    BY <2>1
  <2>7. Line(p, lo + 1, hi)
    BY <1>4, <2>4, <2>5, <2>6 DEF Line
  <2> QED BY <1>1, <1>7, <2>3, <2>6, <2>7 DEF m, p
<1> QED BY <1>6, <1>7

\* A frame put on the queue is the next in the numbering, or is not numbered.
LEMMA LineSays ==
    ASSUME NEW q \in Seq(Frame), NEW lo \in Nat, NEW hi \in Int, Line(q, lo, hi),
           NEW f \in Frame, NEW top \in Int,
           \/ Mark(f) = 0 /\ top = hi
           \/ Mark(f) = hi + 1 /\ top = hi + 1
    PROVE  Line(q \o <<f>>, lo, top)
<1> DEFINE p == q \o <<f>>
<1>1. /\ Len(p) = Len(q) + 1 /\ Len(q) \in Nat /\ p[Len(q) + 1] = f
      /\ \A i \in 1..Len(q) : p[i] = q[i]
  OBVIOUS
<1>2. \A i \in 1..Len(q) : q[i] \in Frame /\ Mark(q[i]) \in Nat
  BY MarkType
<1> HIDE DEF p
<1>3. \A i \in 1..Len(p) : i \in 1..Len(q) \/ i = Len(q) + 1
  BY <1>1
<1>4. hi <= top /\ lo <= top /\ lo <= hi
  BY DEF Line
<1>5. \A i \in 1..Len(q) : Mark(q[i]) # 0 => lo < Mark(q[i]) /\ Mark(q[i]) <= hi
  BY DEF Line
<1>6. \A i \in 1..Len(p) : Mark(p[i]) # 0 => lo < Mark(p[i]) /\ Mark(p[i]) <= top
  BY <1>1, <1>2, <1>3, <1>4, <1>5
<1>7. ASSUME NEW i \in 1..Len(p), NEW j \in 1..Len(p),
             i < j, Mark(p[i]) # 0, Mark(p[j]) # 0
      PROVE  Mark(p[i]) < Mark(p[j])
  <2>1. i \in 1..Len(q)
    BY <1>1, <1>7
  <2>2. CASE j \in 1..Len(q)
    BY <1>1, <1>7, <2>1, <2>2 DEF Line
  <2>3. CASE j = Len(q) + 1
    BY <1>1, <1>2, <1>5, <1>7, <2>1, <2>3
  <2> QED BY <1>3, <2>2, <2>3
<1>8. ASSUME NEW k \in (lo + 1)..top PROVE \E i \in 1..Len(p) : Mark(p[i]) = k
  <2>1. CASE k \in (lo + 1)..hi
    <3>1. PICK i \in 1..Len(q) : Mark(q[i]) = k
      BY <2>1 DEF Line
    <3> QED BY <1>1, <3>1
  <2>2. CASE k \notin (lo + 1)..hi
    <3>1. k = hi + 1 /\ Mark(f) = k
      BY <2>2, <1>4
    <3>2. Len(q) + 1 \in 1..Len(p)
      BY <1>1
    <3> QED BY <1>1, <3>1, <3>2
  <2> QED BY <2>1, <2>2
<1> QED BY <1>4, <1>6, <1>7, <1>8 DEF Line, p

LEMMA SaidType ==
    ASSUME NEW v \in Vendor
    PROVE  Said(v) \in Int /\ Said(v) <= 2 * MaxResponses
           /\ (v.live = None => Said(v) = 2 * v.created)
           /\ (v.live # None => Said(v) = 2 * v.created - 1)
<1>1. v.created \in 0..MaxResponses
  BY DEF Vendor
<1> QED BY <1>1, BoundsAssumption DEF Said

LEMMA PairIsConcat ==
    ASSUME NEW f \in Frame, NEW g \in Frame
    PROVE  <<f>> \o <<g>> = <<f, g>>
<1> DEFINE p == <<f>> \o <<g>>
           q == <<f, g>>
<1>1. /\ p \in Seq(Frame) /\ Len(p) = 2 /\ p[1] = f /\ p[2] = g
  BY <<f>> \in Seq(Frame), <<g>> \in Seq(Frame), ConcatProperties
<1>2. q \in Seq(Frame) /\ Len(q) = 2 /\ q[1] = f /\ q[2] = g
  OBVIOUS
<1> HIDE DEF p, q
<1>3. \A i \in 1..Len(p) : p[i] = q[i]
  BY <1>1, <1>2
<1>4. p = q
  BY <1>1, <1>2, <1>3, SeqEqual
<1> QED BY <1>4 DEF p, q

\* The vendor numbers what it creates and what it reports.
LEMMA VendorInOrder == ASSUME IInv, InOrder, VendorSide PROVE InOrder'
<1>1. inbox \in Seq(Frame) /\ vendor \in Vendor /\ s' = s
  BY VendorKeeps DEF IInv, Wire
<1>2. /\ vendor.live \in Response \cup {None} /\ vendor.created \in 0..MaxResponses
      /\ vendor.live # None => vendor.live = vendor.created
  BY <1>1 DEF Vendor, InOrder
<1>3. vendor' \in Vendor
  BY VendorKeeps DEF IInv, Wire
<1> DEFINE top == Said(vendor)
<1>4. top \in Int /\ (vendor.live = None => top = 2 * vendor.created)
      /\ (vendor.live # None => top = 2 * vendor.created - 1)
  BY <1>1, SaidType
<1>5. Said(vendor') \in Int /\ (vendor'.live = None => Said(vendor') = 2 * vendor'.created)
      /\ (vendor'.live # None => Said(vendor') = 2 * vendor'.created - 1)
  BY <1>3, SaidType
<1> HIDE DEF top
\* It is enough to follow what is said, and where that leaves the count.
<1>6. ASSUME vendor'.live # None => vendor'.live = vendor'.created,
             \A m \in Nat : Line(inbox, m, top) => Line(inbox', m, Said(vendor'))
      PROVE  InOrder'
  <2> SUFFICES ASSUME ~s.closed
               PROVE  \E m \in 0..(2 * MaxResponses) :
                        Heard(s', m) /\ Line(inbox', m, Said(vendor'))
    BY <1>1, <1>6 DEF InOrder, Heard, Line, Said
  <2>1. PICK m \in 0..(2 * MaxResponses) : Heard(s, m) /\ Line(inbox, m, top)
    BY DEF InOrder, top
  <2>2. m \in Nat
    BY BoundsAssumption
  <2>3. Heard(s', m) /\ Line(inbox', m, Said(vendor'))
    BY <1>1, <1>6, <2>1, <2>2
  <2> QED BY <2>3
<1>7. \A f \in Frame : \A m \in Nat : \A q \in Seq(Frame) :
        Mark(f) = 0 /\ Line(q, m, top) => Line(q \o <<f>>, m, top)
  BY <1>4, LineSays
<1>8. ASSUME NEW m \in Nat, NEW q \in Seq(Frame), NEW counts \in BOOLEAN,
             Line(q, m, top)
      PROVE  Line(q \o Done(counts), m, 2 * vendor.created)
  <2>1. CASE vendor.live = None
    BY <1>4, <1>8, <2>1 DEF Done
  <2>2. CASE vendor.live # None
    <3> DEFINE f == F("response.done", vendor.live, IF counts THEN 1 ELSE 0)
    <3>1. f \in Frame /\ f.type = "response.done" /\ f.response = vendor.live
      BY <1>2, <2>2 DEF F, Frame
    <3>2. Done(counts) = <<f>>
      BY <2>2 DEF Done
    <3> HIDE DEF f
    <3>3. Mark(f) = 2 * vendor.created
      BY <1>2, <2>2, <3>1, MarkType
    <3>4. Mark(f) = top + 1 /\ top + 1 = 2 * vendor.created
      BY <1>2, <1>4, <2>2, <3>3
    <3>5. Line(q \o <<f>>, m, top + 1)
      BY <1>4, <1>8, <3>1, <3>4, LineSays
    <3> QED BY <3>2, <3>4, <3>5
  <2> QED BY <2>1, <2>2
<1>9. /\ F("session.updated", None, 0) \in Frame /\ Mark(F("session.updated", None, 0)) = 0
      /\ F("error", None, 0) \in Frame /\ Mark(F("error", None, 0)) = 0
      /\ F("speech_started", None, 0) \in Frame /\ Mark(F("speech_started", None, 0)) = 0
      /\ F("speech_stopped", None, 0) \in Frame /\ Mark(F("speech_stopped", None, 0)) = 0
  BY DEF F, Frame, Mark
<1>10. \A r \in Response : F("audio.delta", r, 0) \in Frame /\ Mark(F("audio.delta", r, 0)) = 0
  BY DEF F, Frame, Mark
<1>11. ASSUME vendor.live = None, vendor.created < MaxResponses,
              NEW m \in Nat, NEW q \in Seq(Frame), Line(q, m, top)
       PROVE  Line(q \o <<F("response.created", vendor.created + 1, 0)>>, m, top + 1)
  <2> DEFINE f == F("response.created", vendor.created + 1, 0)
  <2>1. vendor.created + 1 \in Response
    BY <1>2, <1>11, BoundsAssumption DEF Response
  <2>2. f \in Frame /\ f.type = "response.created" /\ f.response = vendor.created + 1
    BY <2>1 DEF F, Frame
  <2> HIDE DEF f
  <2>3. Mark(f) = 2 * (vendor.created + 1) - 1
    BY <2>2, MarkType
  <2>4. Mark(f) = top + 1
    BY <1>2, <1>4, <1>11, <2>3
  <2>5. Line(q \o <<f>>, m, top + 1)
    BY <1>4, <1>11, <2>2, <2>4, LineSays
  <2> QED BY <2>5 DEF f
\* A vendor that stops generating, or was not, stands at an even count.
<1>12. ASSUME vendor'.live = None, vendor'.created = vendor.created
       PROVE  Said(vendor') = 2 * vendor.created
  BY <1>5, <1>12
\* A vendor that creates a response stands one further.
<1>13. ASSUME vendor.live = None, vendor.created < MaxResponses,
              vendor'.live = vendor.created + 1, vendor'.created = vendor.created + 1
       PROVE  Said(vendor') = top + 1 /\ vendor'.live = vendor'.created
  BY <1>2, <1>4, <1>5, <1>13 DEF None
<1>14. CASE VendorConfigures
  <2>1. vendor'.live = vendor.live /\ vendor'.created = vendor.created
    BY <1>1, <1>14 DEF VendorConfigures, Vendor
  <2>2. Said(vendor') = top
    BY <1>4, <1>5, <2>1
  <2>3. \/ inbox' = inbox \o <<F("session.updated", None, 0)>>
        \/ inbox' = inbox \o <<F("error", None, 0)>>
    BY <1>14 DEF VendorConfigures, Says
  <2>4. \A m \in Nat : Line(inbox, m, top) => Line(inbox', m, Said(vendor'))
    BY <1>1, <1>7, <1>9, <2>2, <2>3
  <2> QED BY <1>2, <1>6, <2>1, <2>4
<1>15. CASE VendorResponds
  <2>1. /\ vendor.live = None /\ vendor.created < MaxResponses
        /\ inbox' = inbox \o <<F("response.created", vendor.created + 1, 0)>>
    BY <1>15 DEF VendorResponds, Says
  <2>2. vendor'.live = vendor.created + 1 /\ vendor'.created = vendor.created + 1
    BY <1>1, <1>15 DEF VendorResponds, Creates, Vendor
  <2>3. \A m \in Nat : Line(inbox, m, top) => Line(inbox', m, Said(vendor'))
    BY <1>1, <1>11, <1>13, <2>1, <2>2
  <2> QED BY <1>6, <1>13, <2>1, <2>2, <2>3
<1>16. CASE VendorRefuses \/ VendorTruncates
  <2>1. inbox' = inbox /\ vendor' = vendor
    BY <1>16 DEF VendorRefuses, VendorTruncates
  <2> QED BY <1>2, <1>6, <2>1 DEF top
<1>17. ASSUME vendor' = [vendor EXCEPT !.live = None],
              \E counts \in BOOLEAN : inbox' = inbox \o Done(counts)
       PROVE  InOrder'
  <2>1. vendor'.live = None /\ vendor'.created = vendor.created
    BY <1>1, <1>17 DEF Vendor
  <2>2. \A m \in Nat : Line(inbox, m, top) => Line(inbox', m, Said(vendor'))
    BY <1>1, <1>8, <1>12, <1>17, <2>1
  <2> QED BY <1>6, <2>1, <2>2
<1>18. CASE VendorCancels
  <2>1. CASE Head(out).response \in {None, vendor.live}
    BY <1>17, <1>18, <2>1 DEF VendorCancels, Says
  <2>2. CASE Head(out).response \notin {None, vendor.live}
    <3>1. inbox' = inbox /\ vendor' = vendor
      BY <1>18, <2>2 DEF VendorCancels
    <3> QED BY <1>2, <1>6, <3>1 DEF top
  <2> QED BY <2>1, <2>2
<1>19. CASE VendorSpeaks
  <2>1. /\ vendor.live \in Response
        /\ inbox' = inbox \o <<F("audio.delta", vendor.live, 0)>>
        /\ vendor'.live = vendor.live /\ vendor'.created = vendor.created
    BY <1>1, <1>2, <1>19 DEF VendorSpeaks, Says, Vendor
  <2>2. Said(vendor') = top
    BY <1>4, <1>5, <2>1
  <2>3. \A m \in Nat : Line(inbox, m, top) => Line(inbox', m, Said(vendor'))
    BY <1>1, <1>7, <1>10, <2>1, <2>2
  <2> QED BY <1>2, <1>6, <2>1, <2>3
<1>20. CASE VendorFinishes
  BY <1>17, <1>20 DEF VendorFinishes, Says
<1>21. CASE VendorHearsUser
  <2> DEFINE f == F("speech_started", None, 0)
  <2>1. PICK counts \in BOOLEAN : inbox' = inbox \o (<<f>> \o Done(counts))
    BY <1>21 DEF VendorHearsUser, Says
  <2>2. vendor'.live = None /\ vendor'.created = vendor.created
    BY <1>1, <1>21 DEF VendorHearsUser, Vendor
  <2>3. f \in Frame /\ Mark(f) = 0 /\ Done(counts) \in Seq(Frame)
    <3>1. \A n \in {0, 1} : vendor.live # None => F("response.done", vendor.live, n) \in Frame
      BY <1>2 DEF F, Frame
    <3> QED BY <1>9, <3>1 DEF Done
  <2> HIDE DEF f
  <2>4. inbox' = (inbox \o <<f>>) \o Done(counts) /\ inbox \o <<f>> \in Seq(Frame)
    BY <1>1, <2>1, <2>3, ConcatAssociative
  <2>5. \A m \in Nat : Line(inbox, m, top) => Line(inbox', m, Said(vendor'))
    BY <1>1, <1>7, <1>8, <1>12, <2>2, <2>3, <2>4
  <2> QED BY <1>6, <2>2, <2>5
<1>22. CASE VendorHearsSilence
  <2> DEFINE f == F("speech_stopped", None, 0)
             g == F("response.created", vendor.created + 1, 0)
  <2>1. /\ vendor.live = None /\ vendor.created < MaxResponses
        /\ inbox' = inbox \o <<f, g>>
    BY <1>22 DEF VendorHearsSilence, Says
  <2>2. vendor'.live = vendor.created + 1 /\ vendor'.created = vendor.created + 1
    BY <1>1, <1>22 DEF VendorHearsSilence, Vendor
  <2>3. f \in Frame /\ Mark(f) = 0
    BY <1>9
  <2>4. g \in Frame
    BY <1>2, <2>1, BoundsAssumption DEF F, Frame, Response
  <2>5. \A q \in Seq(Frame) : \A m \in Nat :
          Line(q, m, top) => Line(q \o <<g>>, m, top + 1)
    BY <1>11, <2>1
  <2> HIDE DEF f, g
  <2>6. inbox \o <<f>> \in Seq(Frame) /\ inbox \o <<f, g>> = (inbox \o <<f>>) \o <<g>>
    <3> DEFINE a == <<f>>
               b == <<g>>
               p == <<f, g>>
    <3>1. a \in Seq(Frame) /\ b \in Seq(Frame)
      BY <2>3, <2>4
    <3>2. a \o b = p
      BY <2>3, <2>4, PairIsConcat
    <3> HIDE DEF a, b, p
    <3>3. inbox \o a \in Seq(Frame) /\ inbox \o (a \o b) = (inbox \o a) \o b
      BY <1>1, <3>1, ConcatAssociative, ConcatProperties
    <3>4. inbox \o a \in Seq(Frame) /\ inbox \o p = (inbox \o a) \o b
      BY <3>2, <3>3
    <3> QED BY <3>4 DEF a, b, p
  <2>7. \A m \in Nat : Line(inbox, m, top) => Line(inbox', m, Said(vendor'))
    BY <1>1, <1>7, <1>13, <2>1, <2>2, <2>3, <2>5, <2>6
  <2> QED BY <1>6, <1>13, <2>1, <2>2, <2>7
<1> QED BY <1>14, <1>15, <1>16, <1>18, <1>19, <1>20, <1>21, <1>22 DEF VendorSide

\* A step that leaves the books and the vendor alone and takes no frame that is
\* numbered, or closes the session.
LEMMA QuietStep ==
    ASSUME IInv, BInv, SameBooks(s, s'), vendor' = vendor,
           \/ s'.closed
           \/ inbox' = inbox
           \/ inbox # << >> /\ Mark(Head(inbox)) = 0 /\ inbox' = Tail(inbox)
    PROVE  BInv'
<1>1. inbox \in Seq(Frame) /\ vendor \in Vendor
  BY DEF IInv, Wire
<1>2. Book(s') /\ Reported(s')
  BY SameBooksKeeps DEF BInv
<1>3. vendor.live # None => vendor.live = vendor.created
  BY DEF BInv, InOrder
<1>4. ASSUME ~s'.closed
      PROVE  \E m \in 0..(2 * MaxResponses) :
               Heard(s', m) /\ Line(inbox', m, Said(vendor))
  <2>1. ~s.closed
    BY <1>4 DEF SameBooks
  <2>2. PICK m \in 0..(2 * MaxResponses) : Heard(s, m) /\ Line(inbox, m, Said(vendor))
    BY <2>1 DEF BInv, InOrder
  <2>3. Heard(s', m)
    BY <2>2 DEF Heard, SameBooks
  <2>4. Line(inbox', m, Said(vendor))
    <3>1. Said(vendor) \in Int /\ m \in Nat
      BY <1>1, SaidType, BoundsAssumption
    <3> QED BY <1>1, <1>4, <2>2, <3>1, LineTail
  <2> QED BY <2>3, <2>4
<1>5. InOrder'
  BY <1>3, <1>4 DEF InOrder, Heard, Line, Said
<1> QED BY <1>2, <1>5 DEF BInv, Book, Reported

LEMMA ClientBooks == ASSUME IInv, BInv, Client PROVE BInv'
<1>1. Core(s) /\ Book(s) /\ Reported(s) /\ s \in Session
  BY DEF IInv, BInv, Core
<1>2. CASE CommitAudio \/ SendText
  <2>1. s' = BeginTurn(s) /\ s.counter < MaxTurns /\ vendor' = vendor /\ inbox' = inbox
    BY <1>2 DEF CommitAudio, SendText, IdLeft
  <2>2. SameBooks(s, s')
    BY <1>1, <2>1, BeginTurnBooks
  <2> QED BY <2>1, <2>2, QuietStep
<1>3. CASE Interrupt
  <2>1. s' = EndTurn(s, s.active) /\ s.active # None /\ vendor' = vendor /\ inbox' = inbox
    BY <1>3 DEF Interrupt
  <2>2. SameBooks(s, s')
    BY <1>1, <2>1, Fields, EndTurnBooks
  <2> QED BY <2>1, <2>2, QuietStep
<1>4. CASE Close
  <2> DEFINE c == CloseOut(s)
  <2>1. Book(c) /\ Reported(c) /\ Core(c) /\ c.closed
    BY <1>1, CloseOutBooks, CloseOutKeeps
  <2>2. s' = [c EXCEPT !.ws = IF @ \in {"connecting", "open"} THEN "closing" ELSE @]
        /\ vendor' = vendor
    BY <1>4 DEF Close
  <2> HIDE DEF c
  <2>3. SameBooks(c, s')
    BY <2>1, <2>2 DEF Core, Session, SameBooks
  <2>4. Book(s') /\ Reported(s') /\ s'.closed
    BY <2>1, <2>3, SameBooksKeeps DEF SameBooks
  <2>5. InOrder'
    BY <2>2, <2>4 DEF BInv, InOrder
  <2> QED BY <2>4, <2>5 DEF BInv, Book, Reported
<1> QED BY <1>2, <1>3, <1>4 DEF Client

LEMMA SocketBooks == ASSUME IInv, BInv, Socket PROVE BInv'
<1>1. Core(s) /\ Book(s) /\ Reported(s) /\ s \in Session
  BY DEF IInv, BInv, Core
<1>2. CASE SocketOpens
  <2>1. SameBooks(s, s') /\ vendor' = vendor /\ inbox' = inbox
    BY <1>1, <1>2 DEF SocketOpens, SameBooks, Session
  <2> QED BY <2>1, QuietStep
<1>3. CASE SocketErrors
  <2> DEFINE e == [s EXCEPT !.ws = "closing"]
  <2>1. s' = (IF s.starting = "opening" THEN Settle(e) ELSE e)
        /\ vendor' = vendor /\ inbox' = inbox
    BY <1>3 DEF SocketErrors
  <2>2. e \in Session /\ SameBooks(s, e)
    BY <1>1 DEF Session, SameBooks
  <2> HIDE DEF e
  <2>3. SameBooks(s, s')
    BY <2>1, <2>2, SettleBooks, SameBooksTrans
  <2> QED BY <2>1, <2>3, QuietStep
<1>4. CASE SocketCloses
  <2> DEFINE e == [s EXCEPT !.ws = "closed"]
  <2>1. s' = (IF s.starting = "opening" THEN Settle(e)
              ELSE IF s.closed THEN e ELSE CloseOut(e))
        /\ vendor' = vendor
    BY <1>4 DEF SocketCloses
  <2>2. e \in Session /\ SameBooks(s, e) /\ Core(e) /\ e.closed = s.closed
    BY <1>1 DEF Session, SameBooks, Core, Entry
  <2> HIDE DEF e
  <2>3. Book(e) /\ Reported(e)
    BY <1>1, <2>2, SameBooksKeeps
  <2>4. CASE s.starting = "opening" \/ s.closed
    <3>1. SameBooks(s, s') /\ s'.closed
      <4>1. CASE s.starting = "opening"
        BY <2>1, <2>2, <4>1, SettleBooks, SettleKeeps, SameBooksTrans
      <4>2. CASE s.starting # "opening"
        BY <2>1, <2>2, <2>4, <4>2
      <4> QED BY <4>1, <4>2
    <3> QED BY <2>1, <3>1, QuietStep
  <2>5. CASE s.starting # "opening" /\ ~s.closed
    <3>1. s' = CloseOut(e)
      BY <2>1, <2>5
    <3>2. Book(s') /\ Reported(s') /\ s'.closed
      BY <2>2, <2>3, <3>1, CloseOutBooks, CloseOutKeeps
    <3>3. InOrder'
      BY <2>1, <3>2 DEF BInv, InOrder
    <3> QED BY <3>2, <3>3 DEF BInv, Book, Reported
  <2> QED BY <2>4, <2>5
<1>5. CASE HandshakeTimeout
  <2>1. s' = Settle(s) /\ vendor' = vendor /\ inbox' = inbox
    BY <1>5 DEF HandshakeTimeout
  <2> QED BY <1>1, <2>1, SettleBooks, QuietStep
<1> QED BY <1>2, <1>3, <1>4, <1>5 DEF Socket

LEMMA OnMessageBooks == ASSUME IInv, BInv, OnMessage PROVE BInv'
<1>1. /\ Core(s) /\ Book(s) /\ Reported(s) /\ s \in Session
      /\ inbox \in Seq(Frame) /\ vendor \in Vendor
  BY DEF IInv, BInv, Core, Wire
<1>2. ASSUME NEW type, Handles(type)
      PROVE  /\ ~s.closed /\ inbox # << >> /\ inbox' = Tail(inbox) /\ vendor' = vendor
             /\ Head(inbox) \in Frame /\ Head(inbox).type = type
  BY <1>1, <1>2, Queues DEF Handles
<1>3. ASSUME NEW type, Handles(type), type \notin {"response.created", "response.done"},
             SameBooks(s, s')
      PROVE  BInv'
  BY <1>2, <1>3, MarkType, QuietStep
<1>4. CASE SessionUpdated
  <2>1. SameBooks(s, s')
    BY <1>1, <1>4 DEF SessionUpdated, SameBooks, Session
  <2> QED BY <1>3, <1>4, <2>1 DEF SessionUpdated
<1>5. CASE VendorError
  <2>1. SameBooks(s, s')
    BY <1>1, <1>5, SettleBooks DEF VendorError, SameBooks
  <2> QED BY <1>3, <1>5, <2>1 DEF VendorError
<1>6. CASE SpeechStarted
  <2>1. SameBooks(s, s')
    BY <1>1, <1>6, EndActiveBooks DEF SpeechStarted
  <2> QED BY <1>3, <1>6, <2>1 DEF SpeechStarted
<1>7. CASE SpeechStopped
  <2>1. SameBooks(s, s')
    BY <1>1, <1>7, BeginTurnBooks DEF SpeechStopped, IdLeft
  <2> QED BY <1>3, <1>7, <2>1 DEF SpeechStopped
<1>8. CASE AudioDelta
  <2>1. Head(inbox).response \in Response
    BY <1>2, <1>8 DEF AudioDelta, Frame
  <2>2. SameBooks(s, s')
    BY <1>1, <1>8, <2>1, OnAudioDeltaBooks DEF AudioDelta
  <2> QED BY <1>3, <1>8, <2>2 DEF AudioDelta
<1>9. CASE ResponseCreated \/ ResponseDone
  <2> DEFINE f == Head(inbox)
             r == f.response
  <2>1. /\ ~s.closed /\ inbox # << >> /\ inbox' = Tail(inbox) /\ vendor' = vendor
        /\ f \in Frame
        /\ ResponseCreated => f.type = "response.created"
        /\ ResponseDone => f.type = "response.done"
    BY <1>2, <1>9 DEF ResponseCreated, ResponseDone
  <2>2. /\ r \in Response /\ Mark(f) # 0
        /\ ResponseCreated => Mark(f) = 2 * r - 1
        /\ ResponseDone => Mark(f) = 2 * r
    BY <1>9, <2>1, MarkType
  <2>3. PICK m \in 0..(2 * MaxResponses) : Heard(s, m) /\ Line(inbox, m, Said(vendor))
    BY <2>1 DEF BInv, InOrder
  <2>4. m \in Nat /\ Said(vendor) \in Int /\ Said(vendor) <= 2 * MaxResponses
    BY <1>1, SaidType, BoundsAssumption
  <2>5. Mark(f) = m + 1 /\ m + 1 <= Said(vendor)
        /\ Line(inbox', m + 1, Said(vendor))
    BY <1>1, <2>1, <2>2, <2>3, <2>4, LineTail
  <2> HIDE DEF f, r
  <2>6. \A q \in Response : q \in Nat /\ q # 0
    BY BoundsAssumption DEF Response
  <2>9. ASSUME Book(s'), Reported(s'), Heard(s', m + 1) PROVE BInv'
    <3>1. m + 1 \in 0..(2 * MaxResponses)
      BY <2>4, <2>5, BoundsAssumption
    <3>2. vendor.live # None => vendor.live = vendor.created
      BY DEF BInv, InOrder
    <3>3. \E k \in 0..(2 * MaxResponses) : Heard(s', k) /\ Line(inbox', k, Said(vendor'))
      BY <2>1, <2>5, <2>9, <3>1
    <3>4. InOrder'
      BY <2>1, <3>2, <3>3 DEF InOrder, Heard, Line, Said
    <3> QED BY <2>9, <3>4 DEF BInv, Book, Reported
  <2>7. CASE ResponseCreated
    <3>1. m = 2 * r - 2
      BY <2>2, <2>4, <2>5, <2>6, <2>7
    <3>2. r \notin s.seen /\ r \notin s.done /\ s.seen \subseteq s.done
      <4>1. r \notin s.seen /\ r \notin s.done
        BY <2>2, <2>3, <2>6, <3>1 DEF Heard
      <4>2. ASSUME NEW q \in Response, 2 * q - 1 <= m PROVE 2 * q <= m
        BY <2>2, <2>6, <3>1, <4>2
      <4>3. s.seen \subseteq s.done
        BY <2>3, <4>2 DEF Heard
      <4> QED BY <4>1, <4>3
    <3> DEFINE y == BindResponse(s, r)
    <3>3. s' = y /\ (s.active = None => s.counter < MaxTurns)
      BY <2>7 DEF ResponseCreated, IdLeft, f, r
    <3>4. Book(y) /\ Reported(y) /\ y.seen = s.seen \cup {r} /\ y.done = s.done
      BY <1>1, <2>1, <2>2, <3>2, <3>3, BindResponseBooks
    <3> HIDE DEF y
    <3>5. Heard(y, m + 1)
      <4>1. \A q \in Response : 2 * q - 1 <= m + 1 <=> (2 * q - 1 <= m \/ q = r)
        BY <2>2, <2>6, <3>1
      <4>2. \A q \in Response : 2 * q <= m + 1 <=> 2 * q <= m
        BY <2>2, <2>6, <3>1
      <4> QED BY <2>2, <2>3, <3>4, <4>1, <4>2 DEF Heard
    <3> QED BY <2>9, <3>3, <3>4, <3>5
  <2>8. CASE ResponseDone
    <3>1. m = 2 * r - 1
      BY <2>2, <2>4, <2>5, <2>6, <2>8
    <3>2. r \in s.seen /\ r \notin s.done
      BY <2>2, <2>3, <2>6, <3>1 DEF Heard
    <3> DEFINE counts == f.arg = 1
               y == OnResponseDone(s, r, counts)
    <3>3. s' = y
      BY <2>8 DEF ResponseDone, f, r
    <3>4. counts \in BOOLEAN
      OBVIOUS
    <3> HIDE DEF counts
    <3>5. Book(y) /\ Reported(y) /\ y.seen = s.seen /\ y.done = s.done \cup {r}
      BY <1>1, <2>1, <2>2, <3>2, <3>4, OnResponseDoneBooks
    <3> HIDE DEF y
    <3>6. Heard(y, m + 1)
      <4>1. \A q \in Response : 2 * q - 1 <= m + 1 <=> 2 * q - 1 <= m
        BY <2>2, <2>6, <3>1
      <4>2. \A q \in Response : 2 * q <= m + 1 <=> (2 * q <= m \/ q = r)
        BY <2>2, <2>6, <3>1
      <4> QED BY <2>2, <2>3, <3>5, <4>1, <4>2 DEF Heard
    <3> QED BY <2>9, <3>3, <3>5, <3>6
  <2> QED BY <1>9, <2>7, <2>8
<1>10. CASE FrameIgnored
  <2>1. SameBooks(s, s') /\ vendor' = vendor /\ s'.closed
    BY <1>10 DEF FrameIgnored, SameBooks
  <2> QED BY <2>1, QuietStep
<1> QED BY <1>4, <1>5, <1>6, <1>7, <1>8, <1>9, <1>10 DEF OnMessage

LEMMA InitBInv == ASSUME Init PROVE BInv
<1>1. \A t \in TurnId : /\ s.turns[t].responseId = None /\ ~s.turns[t].billed
                        /\ s.usages[t] = 0
  BY DEF Init, NoTurn
<1>2. s.seen = {} /\ s.done = {} /\ inbox = << >>
      /\ vendor.live = None /\ vendor.created = 0
  BY DEF Init
<1>3. Book(s) /\ Reported(s)
  BY <1>1, <1>2 DEF Book, Reported
<1>4. Said(vendor) = 0
  BY <1>2 DEF Said
<1>5. Heard(s, 0)
  BY <1>2, BoundsAssumption DEF Heard, Response
<1>6. Line(inbox, 0, 0)
  BY <1>2 DEF Line
<1> QED BY <1>2, <1>3, <1>4, <1>5, <1>6, BoundsAssumption DEF BInv, InOrder

LEMMA BooksInvariance == Spec => []BInv
<1>1. Init => BInv
  BY InitBInv
<1>2. IInv /\ BInv /\ [Next]_vars => BInv'
  <2> SUFFICES ASSUME IInv, BInv, [Next]_vars PROVE BInv'
    OBVIOUS
  <2>1. CASE Client
    BY <2>1, ClientBooks
  <2>2. CASE Socket
    BY <2>2, SocketBooks
  <2>3. CASE OnMessage
    BY <2>3, OnMessageBooks
  <2>4. CASE VendorSide
    <3>1. InOrder' /\ s' = s
      BY <2>4, VendorInOrder, VendorKeeps DEF BInv
    <3> QED BY <3>1 DEF BInv, Book, Reported
  <2>5. CASE UNCHANGED vars
    BY <2>5 DEF vars, BInv, Book, Reported, InOrder, Heard, Line, Said
  <2> QED BY <2>1, <2>2, <2>3, <2>4, <2>5 DEF Next
<1> QED BY <1>1, <1>2, Invariance, PTL DEF Spec

\* Every response the session saw created is on exactly one row by the time it
\* was reported done or the session closed: reports find the turn their response
\* is bound to although turns are ended, replaced and billed in between.
THEOREM WhatRanIsBilled == Spec => []RanIsBilled
<1>1. IInv /\ BInv => RanIsBilled
  <2> SUFFICES ASSUME IInv, BInv, NEW r \in s.seen,
                      r \in s.done \/ (s.closed /\ s.starting # "rejected")
               PROVE  Cardinality({t \in TurnId : s.usages[t] = 1 /\ s.paid[t] = r}) = 1
    BY DEF RanIsBilled
  <2>1. Core(s) /\ Quiet(s) /\ Book(s) /\ Reported(s)
    BY DEF IInv, BInv
  <2>2. r # None
    BY <2>1, Fields DEF Core, Response, None
  <2>3. PICK u \in TurnId : s.turns[u].responseId = r
    BY <2>1 DEF Book
  <2>4. s.turns[u].billed
    <3>1. CASE r \in s.done
      BY <2>1, <2>3, <3>1 DEF Reported
    <3>2. CASE s.closed /\ s.starting # "rejected"
      <4>1. s.awaiting = {} /\ u # s.active
        BY <2>1, <3>2 DEF Quiet, TurnId, None
      <4>2. s.turns[u].phase # "none" /\ Entry(s, u) /\ s.turns[u] \in Turn
        BY <2>1, <2>2, <2>3, Fields DEF Book, Core
      <4> QED BY <4>1, <4>2 DEF Entry, Turn
    <3> QED BY <3>1, <3>2
  <2>5. s.usages[u] = 1 /\ s.paid[u] = r
    BY <2>1, <2>2, <2>3, <2>4 DEF Book
  <2>6. \A t \in TurnId : s.usages[t] = 1 /\ s.paid[t] = r => t = u
    BY <2>1, <2>2, <2>3 DEF Book
  <2>7. {t \in TurnId : s.usages[t] = 1 /\ s.paid[t] = r} = {u}
    BY <2>5, <2>6
  <2> QED BY <2>7, FS_Singleton
<1> QED BY <1>1, Invariance, BooksInvariance, PTL
=============================================================================

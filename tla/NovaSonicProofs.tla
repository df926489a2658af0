-------------------------- MODULE NovaSonicProofs --------------------------
(***************************************************************************)
(* Proofs about NovaSonic, for every number of turns, completions and      *)
(* usage events: completions are kept apart, every usage event is in one   *)
(* bill, a turn that ran has its row once the session is over, and a       *)
(* session that is over stays silent.                                      *)
(*                                                                         *)
(* Core says where a turn stands in the books of the session, and holds    *)
(* however the vendor behaves.  Books binds turns to completions, and      *)
(* needs the vendor to label its events and to announce its completions.   *)
(***************************************************************************)
EXTENDS NovaSonic, WellFoundedInduction, TLAPS

\* What the books say of turn t agrees with where the turn stands.
Entry(x, t) ==
    /\ t > x.counter => x.turns[t] = NoTurn
    /\ (x.turns[t].phase = "none") <=> (t > x.counter)
    /\ (x.turns[t].phase = "open") <=> (t = x.active)
    /\ x.started[t] = IF x.turns[t].phase = "none" THEN 0 ELSE 1
    /\ x.ended[t] = IF x.turns[t].phase = "ended" THEN 1 ELSE 0
    /\ x.cut[t] <= x.ended[t]
    /\ x.usages[t] = IF x.turns[t].billed /\ Ran(x.turns[t]) THEN 1 ELSE 0
    /\ x.turns[t].billed => x.turns[t].phase = "ended"
    /\ (t \in x.awaiting) <=>
         (x.turns[t].phase = "ended" /\ ~x.turns[t].billed)

\* What each private method keeps.
Core(x) ==
    /\ x \in Session
    /\ \A t \in TurnId : Entry(x, t)

\* How a session ends; a rejected start() leaves an open turn where it is.
Over(x) ==
    /\ x.lost = IF x.closing = "lost" THEN 1 ELSE 0
    /\ x.closing # "no" => x.closed /\ x.active = None
    /\ x.closing \in {"done", "lost"} => x.awaiting = {}
    /\ x.closed /\ x.closing = "no" => x.starting = "rejected"
    /\ x.starting = "rejected" => x.closed

\* No turn has more of a completion's usage events than were sent.
Counted(x, v) ==
    \A c \in Completion :
        /\ v.owed[c] <= v.usage[c]
        /\ \A t \in TurnId : x.turns[t].tokens[c] <= v.usage[c]

Bound(x, t, c) == x.turns[t].completion = c

\* What a turn has of completion c.
Share(x, v, t, c) ==
    /\ c \in x.turns[t].heard => Bound(x, t, c)
    /\ x.turns[t].tokens[c] = IF Bound(x, t, c) THEN v.owed[c] ELSE 0
    /\ Bound(x, t, c) => c \in x.seen
    /\ Bound(x, t, c) => \A u \in TurnId \ {t} : ~Bound(x, u, c)

\* A completion that has begun in an open session has a turn, which is billed when
\* the completion ends.
Stage(x, v, c) ==
    /\ c \in x.seen => \E t \in TurnId : Bound(x, t, c)
    /\ c \in x.seen => v.stage[c] \in {"open", "over"}
    /\ v.stage[c] # "early"
    /\ v.owed[c] > 0 => c \in x.seen
    /\ ~x.closed /\ v.stage[c] \in {"open", "over"} => c \in x.seen
    /\ \A t \in TurnId :
          ~x.closed /\ Bound(x, t, c) => (x.turns[t].billed <=> v.stage[c] = "over")

Books(x, v) ==
    \A c \in Completion :
        /\ Stage(x, v, c)
        /\ \A t \in TurnId : Share(x, v, t, c)

IInv ==
    /\ TypeOK
    /\ Core(s)
    /\ Over(s)
    /\ Counted(s, vendor)
    /\ InOrder => Books(s, vendor)

-----------------------------------------------------------------------------
(* What a step may leave alone.                                             *)

\* The life of the session.
SameLife(x, y) ==
    /\ y.starting = x.starting
    /\ y.closing = x.closing
    /\ y.closed = x.closed
    /\ y.lost = x.lost

\* What turn t has of the vendor's completions.
SameShare(x, y, t) ==
    /\ y.turns[t].completion = x.turns[t].completion
    /\ y.turns[t].heard = x.turns[t].heard
    /\ y.turns[t].tokens = x.turns[t].tokens

\* What turns have of completions, and which of them are billed.
SameBooks(x, y) ==
    /\ y.seen = x.seen
    /\ \A t \in TurnId :
          SameShare(x, y, t) /\ y.turns[t].billed = x.turns[t].billed

-----------------------------------------------------------------------------
(* The private methods.                                                     *)

\* The fields of a session, for the steps that change some of them.
LEMMA Fields ==
    ASSUME NEW x \in Session
    PROVE  /\ x.counter \in 0..MaxTurns /\ x.active \in TurnId \cup {None}
           /\ x.turns \in [TurnId -> Turn] /\ x.awaiting \in SUBSET TurnId
           /\ x.seen \in SUBSET Completion
           /\ x.started \in [TurnId -> 0..1] /\ x.ended \in [TurnId -> 0..1]
           /\ x.cut \in [TurnId -> 0..1] /\ x.usages \in [TurnId -> 0..1]
           /\ x.lost \in 0..1 /\ x.closed \in BOOLEAN
BY DEF Session

\* A turn that has not begun, and one that has just been opened.
LEMMA NoTurnIsTurn ==
    /\ NoTurn \in Turn
    /\ [NoTurn EXCEPT !.phase = "open"] \in Turn
    /\ NoTurn.phase = "none" /\ ~NoTurn.billed
    /\ ~Ran(NoTurn)
<1> DEFINE zero == [c \in Completion |-> 0]
<1>1. zero \in [Completion -> 0..MaxUsage] /\ \A c \in Completion : ~(zero[c] > 0)
  BY BoundsAssumption
<1> HIDE DEF zero
<1>2. NoTurn = [phase |-> "none", billed |-> FALSE, completion |-> None, heard |-> {},
                tokens |-> zero]
  BY DEF NoTurn, zero
<1>3. NoTurn \in Turn /\ NoTurn.phase = "none" /\ ~NoTurn.billed
  BY <1>1, <1>2 DEF Turn
<1>4. [NoTurn EXCEPT !.phase = "open"] \in Turn
  BY <1>3 DEF Turn
<1>5. ~Ran(NoTurn)
  BY <1>1, <1>2 DEF Ran, SawUsage
<1> QED BY <1>3, <1>4, <1>5

\* A turn that has one field changed has the others.
LEMMA EndedTurn ==
    ASSUME NEW turn \in Turn, NEW new, new = [turn EXCEPT !.phase = "ended"]
    PROVE  /\ new \in Turn /\ new.phase = "ended"
           /\ new.completion = turn.completion /\ new.heard = turn.heard
           /\ new.tokens = turn.tokens /\ new.billed = turn.billed
           /\ Ran(new) <=> Ran(turn)
BY DEF Turn, Ran, SawUsage

\* Ending a turn moves it from open to owed, or does nothing.
LEMMA EndTurnKeeps ==
    ASSUME NEW x, Core(x), NEW t \in TurnId, NEW interrupted \in BOOLEAN
    PROVE  /\ Core(EndTurn(x, t, interrupted))
           /\ SameLife(x, EndTurn(x, t, interrupted))
           /\ SameBooks(x, EndTurn(x, t, interrupted))
           /\ EndTurn(x, t, interrupted).counter = x.counter
           /\ EndTurn(x, t, interrupted).active = IF x.active = t THEN None ELSE x.active
           /\ x.turns[t].phase \in {"open", "ended"}
                => EndTurn(x, t, interrupted).turns[t].phase = "ended"
<1> DEFINE y == EndTurn(x, t, interrupted)
<1>1. CASE x.turns[t].phase # "open"
  BY <1>1 DEF EndTurn, Core, SameLife, SameBooks, SameShare, Entry, None
<1>2. CASE x.turns[t].phase = "open"
  <2> DEFINE new == [x.turns[t] EXCEPT !.phase = "ended"]
             cut == IF interrupted /\ x.turns[t].heard # {} THEN 1 ELSE 0
  <2>1. x.active = t /\ ~x.turns[t].billed /\ x.ended[t] = 0 /\ x.cut[t] = 0
        /\ ~(t > x.counter)
    <3>1. Entry(x, t) /\ x.cut[t] \in 0..1
      BY Fields DEF Core
    <3> QED BY <1>2, <3>1 DEF Entry
  <2>2. y = [x EXCEPT
              !.turns = [x.turns EXCEPT ![t] = new],
              !.active = None,
              !.awaiting = x.awaiting \cup {t},
              !.cut = [x.cut EXCEPT ![t] = x.cut[t] + cut],
              !.ended = [x.ended EXCEPT ![t] = x.ended[t] + 1]]
    BY <1>2, <2>1 DEF EndTurn
  <2>3. /\ new \in Turn /\ new.phase = "ended"
        /\ new.completion = x.turns[t].completion /\ new.heard = x.turns[t].heard
        /\ new.tokens = x.turns[t].tokens /\ new.billed = x.turns[t].billed
        /\ Ran(new) <=> Ran(x.turns[t])
    BY EndedTurn, Fields DEF Core
  <2>4. cut \in 0..1
    OBVIOUS
  <2> HIDE DEF y, new, cut
  <2>5. /\ [x.turns EXCEPT ![t] = new] \in [TurnId -> Turn]
        /\ x.awaiting \cup {t} \in SUBSET TurnId
        /\ [x.cut EXCEPT ![t] = x.cut[t] + cut] \in [TurnId -> 0..1]
        /\ [x.ended EXCEPT ![t] = x.ended[t] + 1] \in [TurnId -> 0..1]
    <3>1. x.cut[t] + cut \in 0..1 /\ x.ended[t] + 1 \in 0..1
      BY <2>1, <2>4
    <3> QED BY <2>3, <3>1, Fields DEF Core
  <2>6. y \in Session
    BY <2>2, <2>5 DEF Core, Session
  <2>7. /\ y.counter = x.counter /\ y.active = None /\ y.seen = x.seen
        /\ y.started = x.started /\ y.usages = x.usages
        /\ y.awaiting = x.awaiting \cup {t}
        /\ y.ended[t] = 1 /\ y.cut[t] = cut
        /\ y.turns[t] = new
        /\ \A u \in TurnId \ {t} : /\ y.turns[u] = x.turns[u]
                                   /\ y.ended[u] = x.ended[u] /\ y.cut[u] = x.cut[u]
        /\ SameLife(x, y)
    BY <2>1, <2>2, <2>4, Fields DEF Core, Session, SameLife
  <2>8. ASSUME NEW u \in TurnId PROVE Entry(y, u)
    <3>1. Entry(x, u)
      BY DEF Core
    <3>2. CASE u = t
      BY <2>1, <2>3, <2>4, <2>7, <1>2, <3>1, <3>2 DEF Entry, TurnId, None
    <3>3. CASE u # t
      BY <2>1, <2>7, <3>1, <3>3 DEF Entry, TurnId, None
    <3> QED BY <3>2, <3>3
  <2>9. SameBooks(x, y)
    <3>1. ASSUME NEW u \in TurnId
          PROVE  SameShare(x, y, u) /\ y.turns[u].billed = x.turns[u].billed
      BY <2>3, <2>7 DEF SameShare
    <3> QED BY <2>7, <3>1 DEF SameBooks
  <2> QED BY <2>1, <2>3, <2>6, <2>7, <2>8, <2>9 DEF Core, y
<1> QED BY <1>1, <1>2

\* Ending the open turn changes no turn's share of a completion.
LEMMA EndActiveKeeps ==
    ASSUME NEW x, Core(x), NEW interrupted \in BOOLEAN
    PROVE  /\ Core(EndActive(x, interrupted))
           /\ SameLife(x, EndActive(x, interrupted))
           /\ SameBooks(x, EndActive(x, interrupted))
           /\ EndActive(x, interrupted).counter = x.counter
           /\ EndActive(x, interrupted).active = None
<1>1. CASE x.active = None
  BY <1>1 DEF EndActive, SameLife, SameBooks, SameShare
<1>2. CASE x.active # None
  <2>1. x.active \in TurnId
    BY <1>2, Fields DEF Core
  <2> QED BY <1>2, <2>1, EndTurnKeeps DEF EndActive
<1> QED BY <1>1, <1>2

\* A new turn has nothing of any completion, as the entry it takes had.
LEMMA OpenTurnKeeps ==
    ASSUME NEW x, Core(x), x.active = None, x.counter < MaxTurns
    PROVE  /\ Core(OpenTurn(x))
           /\ SameLife(x, OpenTurn(x))
           /\ SameBooks(x, OpenTurn(x))
           /\ OpenTurn(x).active \in TurnId
           /\ OpenTurn(x).turns[OpenTurn(x).active].completion = None
<1> DEFINE t == x.counter + 1
           new == [NoTurn EXCEPT !.phase = "open"]
           y == OpenTurn(x)
<1>1. x.counter \in Nat /\ t \in TurnId /\ t \in 0..MaxTurns
  BY BoundsAssumption, Fields DEF Core, TurnId
<1>2. x.turns[t] = NoTurn /\ x.started[t] = 0 /\ t \notin x.awaiting
  <2>1. Entry(x, t) /\ t > x.counter
    BY <1>1 DEF Core
  <2> QED BY <2>1, NoTurnIsTurn DEF Entry
<1>3. y = [x EXCEPT !.counter = t,
                    !.turns = [x.turns EXCEPT ![t] = new],
                    !.active = t,
                    !.started = [x.started EXCEPT ![t] = x.started[t] + 1]]
  BY DEF OpenTurn
<1>4. /\ new \in Turn /\ new.phase = "open" /\ ~new.billed /\ NoTurn.billed = new.billed
      /\ new.completion = None /\ NoTurn.completion = None
      /\ new.heard = NoTurn.heard /\ new.tokens = NoTurn.tokens
  BY NoTurnIsTurn DEF NoTurn
<1> HIDE DEF y, new
<1>5. y \in Session
  <2>1. /\ [x.turns EXCEPT ![t] = new] \in [TurnId -> Turn]
        /\ [x.started EXCEPT ![t] = x.started[t] + 1] \in [TurnId -> 0..1]
    BY <1>1, <1>2, <1>4, Fields DEF Core
  <2> QED BY <1>1, <1>3, <2>1 DEF Core, Session
<1>6. /\ y.counter = t /\ y.active = t /\ y.seen = x.seen /\ y.cut = x.cut
      /\ y.ended = x.ended /\ y.usages = x.usages /\ y.awaiting = x.awaiting
      /\ y.turns[t] = new /\ y.started[t] = 1
      /\ \A u \in TurnId \ {t} : y.turns[u] = x.turns[u]
                                 /\ y.started[u] = x.started[u]
      /\ SameLife(x, y)
  BY <1>1, <1>2, <1>3, Fields DEF Core, Session, SameLife
<1>7. ASSUME NEW u \in TurnId PROVE Entry(y, u)
  <2>1. Entry(x, u)
    BY DEF Core
  <2>2. CASE u = t
    BY <1>1, <1>2, <1>4, <1>6, <2>1, <2>2, NoTurnIsTurn DEF Entry, TurnId
  <2>3. CASE u # t
    BY <1>1, <1>6, <2>1, <2>3 DEF Entry, TurnId, None
  <2> QED BY <2>2, <2>3
<1>8. SameBooks(x, y)
  <2>1. ASSUME NEW u \in TurnId
        PROVE  SameShare(x, y, u) /\ y.turns[u].billed = x.turns[u].billed
    BY <1>2, <1>4, <1>6 DEF SameShare
  <2> QED BY <1>6, <2>1 DEF SameBooks
<1> QED BY <1>1, <1>4, <1>5, <1>6, <1>7, <1>8 DEF Core, y

\* A turn begins: the one before it has ended, or is kept if nothing came of it.
LEMMA BeginTurnKeeps ==
    ASSUME NEW x, Core(x), x.counter < MaxTurns
    PROVE  /\ Core(BeginTurn(x))
           /\ SameLife(x, BeginTurn(x))
           /\ SameBooks(x, BeginTurn(x))
           /\ BeginTurn(x).active \in TurnId
           /\ BeginTurn(x).turns[BeginTurn(x).active].completion = None
<1>1. CASE x.active # None /\ Pending(x.turns[x.active])
  <2>1. BeginTurn(x) = x /\ x.active \in TurnId
    BY <1>1, Fields DEF BeginTurn, Core
  <2> QED BY <1>1, <2>1 DEF SameLife, SameBooks, SameShare, Pending
<1>2. CASE ~(x.active # None /\ Pending(x.turns[x.active]))
  <2> DEFINE e == EndActive(x, TRUE)
  <2>1. BeginTurn(x) = OpenTurn(e)
    BY <1>2 DEF BeginTurn
  <2>2. /\ Core(e) /\ SameLife(x, e) /\ SameBooks(x, e)
        /\ e.counter = x.counter /\ e.active = None
    BY EndActiveKeeps
  <2> HIDE DEF e
  <2>3. /\ Core(OpenTurn(e)) /\ SameLife(e, OpenTurn(e)) /\ SameBooks(e, OpenTurn(e))
        /\ OpenTurn(e).active \in TurnId
        /\ OpenTurn(e).turns[OpenTurn(e).active].completion = None
    BY <2>2, OpenTurnKeeps
  <2> QED BY <2>1, <2>2, <2>3 DEF SameLife, SameBooks, SameShare
<1> QED BY <1>1, <1>2

\* Turns that have ended are billed, once.
LEMMA BillKeeps ==
    ASSUME NEW x, Core(x), NEW T \in SUBSET TurnId,
           \A t \in T : x.turns[t].phase = "ended"
    PROVE  /\ Core(Bill(x, T))
           /\ SameLife(x, Bill(x, T))
           /\ Bill(x, T).active = x.active /\ Bill(x, T).counter = x.counter
           /\ Bill(x, T).seen = x.seen
           /\ Bill(x, T).awaiting \cap T = {}
           /\ Bill(x, T).awaiting \subseteq x.awaiting
           /\ \A t \in TurnId :
                 /\ SameShare(x, Bill(x, T), t)
                 /\ Bill(x, T).turns[t].billed <=> x.turns[t].billed \/ t \in T
<1> DEFINE now == {t \in T : ~x.turns[t].billed}
           y == Bill(x, T)
<1>1. y = [x EXCEPT
             !.turns = [t \in TurnId |->
                          [x.turns[t] EXCEPT !.billed = @ \/ t \in now]],
             !.awaiting = x.awaiting \ now,
             !.usages = [t \in TurnId |->
                  x.usages[t] + IF t \in now /\ Ran(x.turns[t]) THEN 1 ELSE 0]]
  BY DEF Bill
<1>2. \A t \in TurnId : x.turns[t] \in Turn /\ Entry(x, t)
  BY Fields DEF Core
<1>3. ASSUME NEW t \in TurnId
      PROVE  /\ [x.turns[t] EXCEPT !.billed = @ \/ t \in now] \in Turn
             /\ (x.usages[t] + IF t \in now /\ Ran(x.turns[t]) THEN 1 ELSE 0) \in 0..1
  <2>1. [x.turns[t] EXCEPT !.billed = @ \/ t \in now] \in Turn
    BY <1>2 DEF Turn
  <2>2. x.usages[t] \in 0..1 /\ (t \in now => x.usages[t] = 0)
    BY <1>2, Fields DEF Core, Entry
  <2> QED BY <2>1, <2>2
<1>4. now \subseteq T /\ x.awaiting \ now \in SUBSET TurnId
  BY Fields DEF Core
<1>5. y \in Session
  <2> HIDE DEF now, y
  <2>1. /\ [t \in TurnId |-> [x.turns[t] EXCEPT !.billed = @ \/ t \in now]]
             \in [TurnId -> Turn]
        /\ [t \in TurnId |->
               x.usages[t] + IF t \in now /\ Ran(x.turns[t]) THEN 1 ELSE 0]
             \in [TurnId -> 0..1]
    BY <1>3
  <2> QED BY <1>1, <1>4, <2>1 DEF Core, Session
<1>6. /\ y.awaiting = x.awaiting \ now /\ y.active = x.active /\ y.counter = x.counter
      /\ y.seen = x.seen /\ SameLife(x, y)
      /\ y.started = x.started /\ y.ended = x.ended /\ y.cut = x.cut
      /\ \A t \in TurnId :
           /\ y.turns[t] = [x.turns[t] EXCEPT !.billed = @ \/ t \in now]
           /\ y.usages[t] = x.usages[t] + IF t \in now /\ Ran(x.turns[t]) THEN 1 ELSE 0
  <2> HIDE DEF now
  <2> QED BY <1>1 DEF Core, Session, SameLife
<1>7. ASSUME NEW t \in TurnId
      PROVE  /\ y.turns[t].phase = x.turns[t].phase
             /\ SameShare(x, y, t)
             /\ y.turns[t].billed <=> x.turns[t].billed \/ t \in now
             /\ Ran(y.turns[t]) <=> Ran(x.turns[t])
             /\ t \notin now => y.turns[t] = x.turns[t]
  <2> HIDE DEF now, y
  <2>1. x.turns[t] \in Turn /\ y.turns[t] = [x.turns[t] EXCEPT !.billed = @ \/ t \in now]
    BY <1>2, <1>6
  <2>2. /\ y.turns[t].phase = x.turns[t].phase
        /\ SameShare(x, y, t)
        /\ y.turns[t].billed <=> x.turns[t].billed \/ t \in now
    BY <2>1 DEF Turn, SameShare
  <2>3. t \notin now => y.turns[t] = x.turns[t]
    BY <2>1 DEF Turn
  <2> QED BY <2>2, <2>3 DEF Ran, SawUsage, SameShare
<1>8. ASSUME NEW t \in TurnId PROVE Entry(y, t)
  <2>1. t \in now => x.turns[t].phase = "ended" /\ ~x.turns[t].billed
    OBVIOUS
  <2> HIDE DEF now, y
  <2>2. Entry(x, t) /\ x.usages[t] \in 0..1
    BY <1>2, Fields DEF Core
  <2>3. /\ y.counter = x.counter /\ y.active = x.active
        /\ y.started[t] = x.started[t] /\ y.ended[t] = x.ended[t] /\ y.cut[t] = x.cut[t]
        /\ y.awaiting = x.awaiting \ now
        /\ y.turns[t].phase = x.turns[t].phase
        /\ y.turns[t].billed <=> x.turns[t].billed \/ t \in now
        /\ Ran(y.turns[t]) <=> Ran(x.turns[t])
        /\ t \notin now => y.turns[t] = x.turns[t]
        /\ y.usages[t] = x.usages[t] + IF t \in now /\ Ran(x.turns[t]) THEN 1 ELSE 0
    BY <1>6, <1>7
  <2>4. CASE t \in now
    <3>1. x.usages[t] = 0 /\ x.turns[t] # NoTurn /\ ~(t > x.counter)
      BY <2>1, <2>2, <2>4, NoTurnIsTurn DEF Entry
    <3>2. y.usages[t] = IF y.turns[t].billed /\ Ran(y.turns[t]) THEN 1 ELSE 0
      BY <2>3, <2>4, <3>1
    <3> QED BY <2>1, <2>2, <2>3, <2>4, <3>1, <3>2 DEF Entry
  <2>5. CASE t \notin now
    <3>1. y.usages[t] = x.usages[t] /\ y.turns[t] = x.turns[t]
          /\ (t \in y.awaiting <=> t \in x.awaiting)
      BY <2>2, <2>3, <2>5
    <3> QED BY <2>2, <2>3, <3>1 DEF Entry
  <2> QED BY <2>4, <2>5
<1>9. /\ y.awaiting \cap T = {}
      /\ \A t \in TurnId : y.turns[t].billed <=> x.turns[t].billed \/ t \in T
  <2>1. \A t \in T : x.turns[t].billed => t \notin x.awaiting
    BY <1>2 DEF Entry
  <2> QED BY <1>6, <1>7, <2>1
<1> HIDE DEF y, now
<1> QED BY <1>5, <1>6, <1>7, <1>8, <1>9 DEF Core, y

\* Billing what is awaited leaves nothing awaited.
LEMMA FlushBillingKeeps ==
    ASSUME NEW x, Core(x)
    PROVE  /\ Core(FlushBilling(x))
           /\ SameLife(x, FlushBilling(x))
           /\ FlushBilling(x).active = x.active
           /\ FlushBilling(x).seen = x.seen
           /\ FlushBilling(x).awaiting = {}
           /\ \A t \in TurnId : SameShare(x, FlushBilling(x), t)
<1> DEFINE T == x.awaiting
<1>1. T \in SUBSET TurnId /\ \A t \in T : x.turns[t].phase = "ended"
  BY Fields DEF Core, Entry
<1>2. FlushBilling(x) = Bill(x, T)
  BY DEF FlushBilling
<1>3. Bill(x, T).awaiting \subseteq T
  BY <1>1, BillKeeps
<1> HIDE DEF T
<1>4. /\ Core(Bill(x, T)) /\ SameLife(x, Bill(x, T)) /\ Bill(x, T).active = x.active
      /\ Bill(x, T).seen = x.seen
      /\ Bill(x, T).awaiting \cap T = {}
      /\ \A t \in TurnId : SameShare(x, Bill(x, T), t)
  BY <1>1, BillKeeps
<1> QED BY <1>2, <1>3, <1>4

\* What a turn has of the vendor may change while it is open, or owed.
Owing(x) == {t \in TurnId : t = x.active \/ t \in x.awaiting}

\* A turn that an event can be for is open, or ended and not billed.
LEMMA OwingIsUnbilled ==
    ASSUME NEW x, Core(x), NEW t \in Owing(x)
    PROVE  /\ t \in TurnId /\ ~x.turns[t].billed
           /\ x.turns[t].phase \in {"open", "ended"} /\ x.turns[t] \in Turn
BY Fields DEF Core, Entry, Owing

\* y is x but for what turn t has, and what was seen.
Revises(x, y, t) ==
    /\ y \in Session
    /\ y.counter = x.counter /\ y.active = x.active /\ y.awaiting = x.awaiting
    /\ y.started = x.started /\ y.ended = x.ended /\ y.cut = x.cut
    /\ y.usages = x.usages
    /\ y.turns[t].phase = x.turns[t].phase /\ y.turns[t].billed = x.turns[t].billed
    /\ \A u \in TurnId \ {t} : y.turns[u] = x.turns[u]
    /\ SameLife(x, y)

\* A turn revised in place, its phase and its bill as they were.
LEMMA RevisionKeeps ==
    ASSUME NEW x, Core(x), NEW t \in Owing(x), NEW y, Revises(x, y, t)
    PROVE  Core(y)
<1>1. t \in TurnId /\ ~x.turns[t].billed /\ x.turns[t].phase \in {"open", "ended"}
  BY OwingIsUnbilled
<1>2. ASSUME NEW u \in TurnId PROVE Entry(y, u)
  <2>1. Entry(x, u)
    BY DEF Core
  <2>2. CASE u = t
    BY <1>1, <2>1, <2>2 DEF Entry, Revises
  <2>3. CASE u # t
    BY <2>1, <2>3 DEF Entry, Revises
  <2> QED BY <2>2, <2>3
<1> QED BY <1>2 DEF Core, Revises

\* A turn that takes a completion keeps its place in the books.
LEMMA BindToKeeps ==
    ASSUME NEW x, Core(x), NEW t \in Owing(x), NEW c \in Completion
    PROVE  /\ Core(BindTo(x, t, c))
           /\ Revises(x, BindTo(x, t, c), t)
           /\ BindTo(x, t, c).seen = x.seen \cup {c}
           /\ BindTo(x, t, c).turns[t].completion = c
           /\ BindTo(x, t, c).turns[t].heard = x.turns[t].heard
           /\ BindTo(x, t, c).turns[t].tokens = x.turns[t].tokens
<1> DEFINE new == [x.turns[t] EXCEPT !.completion = c]
           y == BindTo(x, t, c)
<1>1. t \in TurnId /\ x.turns[t] \in Turn
  BY OwingIsUnbilled
<1>2. /\ new \in Turn /\ new.phase = x.turns[t].phase /\ new.billed = x.turns[t].billed
      /\ new.completion = c /\ new.heard = x.turns[t].heard
      /\ new.tokens = x.turns[t].tokens
  BY <1>1 DEF Turn
<1>3. y = [x EXCEPT !.turns = [x.turns EXCEPT ![t] = new], !.seen = x.seen \cup {c}]
  BY DEF BindTo
<1> HIDE DEF new, y
<1>4. [x.turns EXCEPT ![t] = new] \in [TurnId -> Turn]
      /\ x.seen \cup {c} \in SUBSET Completion
  BY <1>1, <1>2, Fields DEF Core
<1>5. y \in Session
  BY <1>3, <1>4 DEF Core, Session
<1>6. /\ y.counter = x.counter /\ y.active = x.active /\ y.awaiting = x.awaiting
      /\ y.started = x.started /\ y.ended = x.ended /\ y.cut = x.cut
      /\ y.usages = x.usages /\ y.seen = x.seen \cup {c} /\ SameLife(x, y)
      /\ y.turns[t] = new /\ \A u \in TurnId \ {t} : y.turns[u] = x.turns[u]
  BY <1>1, <1>3, Fields DEF Core, Session, SameLife
<1>7. Revises(x, y, t)
  BY <1>2, <1>5, <1>6 DEF Revises
<1> QED BY <1>2, <1>6, <1>7, RevisionKeeps DEF y

\* The oldest of some turns is one of them.
LEMMA MinIsMember ==
    ASSUME NEW S \in SUBSET TurnId, S # {}
    PROVE  Min(S) \in S
<1>1. S \subseteq Nat
  BY DEF TurnId
<1>2. \E u \in S : \A v \in S : <<v, u>> \notin OpToRel(<, Nat)
  BY <1>1, NatLessThanWellFounded, WFMin
<1>3. \A u, v \in Nat : <<v, u>> \notin OpToRel(<, Nat) => u <= v
  BY DEF OpToRel
<1>4. \E u \in S : \A v \in S : u <= v
  BY <1>1, <1>2, <1>3
<1> QED BY <1>4 DEF Min

\* The turns that hold a completion are awaited or open.
LEMMA HoldersOwe ==
    ASSUME NEW x, Core(x), NEW c
    PROVE  Holders(x, c) = {t \in Owing(x) : x.turns[t].completion = c}
BY Fields DEF Core, Holders, Owing, None, TurnId

\* An event is for a turn that is open or owed: for the one its completion is bound
\* to, or for an unbound one if its completion is new.
LEMMA TurnForOwes ==
    ASSUME NEW x, Core(x), NEW l \in Completion \cup {None}
    PROVE  /\ TurnFor(x, l) = None \/ TurnFor(x, l) \in Owing(x)
           /\ l # None /\ TurnFor(x, l) # None =>
                 \/ x.turns[TurnFor(x, l)].completion = l
                 \/ x.turns[TurnFor(x, l)].completion = None /\ l \notin x.seen
           /\ l # None /\ (\E t \in Owing(x) : x.turns[t].completion = l) =>
                 TurnFor(x, l) # None /\ x.turns[TurnFor(x, l)].completion = l
           /\ l \in x.seen /\ l # None
              /\ ~(\E t \in Owing(x) : x.turns[t].completion = l) =>
                 TurnFor(x, l) = None
<1> DEFINE H == {t \in Owing(x) : x.turns[t].completion = l}
<1>1. /\ x.active \in TurnId \cup {None} /\ x.awaiting \in SUBSET TurnId
      /\ None \notin TurnId /\ None \notin Owing(x)
      /\ Owing(x) \in SUBSET TurnId
      /\ x.active # None => x.active \in Owing(x)
      /\ x.awaiting \subseteq Owing(x)
  BY Fields DEF Core, Owing, None, TurnId
<1>2. Holders(x, l) = H
  BY HoldersOwe
<1>3. CASE l = None
  <2>1. TurnFor(x, l) = IF x.active # None THEN x.active
                        ELSE IF x.awaiting = {} THEN None ELSE Min(x.awaiting)
    BY <1>3 DEF TurnFor
  <2> QED BY <1>1, <1>3, <2>1, MinIsMember
<1>4. CASE l # None /\ H # {}
  <2>1. TurnFor(x, l) = IF x.active \in H THEN x.active ELSE Min(H)
    BY <1>2, <1>4 DEF TurnFor
  <2>2. H \in SUBSET TurnId
    BY <1>1
  <2>3. Min(H) \in H
    BY <1>4, <2>2, MinIsMember
  <2>4. TurnFor(x, l) \in H
    BY <2>1, <2>3
  <2> QED BY <1>1, <1>4, <2>4
<1>5. CASE l # None /\ H = {}
  <2>1. TurnFor(x, l) = IF l \notin x.seen /\ x.active # None
                              /\ x.turns[x.active].completion = None
                        THEN x.active ELSE None
    BY <1>2, <1>5 DEF TurnFor
  <2> QED BY <1>1, <1>5, <2>1
<1> QED BY <1>3, <1>4, <1>5

\* Claiming binds the turn an event is for, and changes nothing else.
LEMMA ClaimKeeps ==
    ASSUME NEW x, Core(x), NEW l \in Completion \cup {None}
    PROVE  /\ Core(Claim(x, l))
           /\ SameLife(x, Claim(x, l))
           /\ Owing(Claim(x, l)) = Owing(x)
           /\ Claim(x, l).active = x.active /\ Claim(x, l).awaiting = x.awaiting
           /\ \A t \in TurnId :
                 /\ Claim(x, l).turns[t].phase = x.turns[t].phase
                 /\ Claim(x, l).turns[t].tokens = x.turns[t].tokens
           /\ (\E t \in Owing(x) : l # None /\ x.turns[t].completion = l)
                => Claim(x, l) = x
           /\ l \in x.seen => Claim(x, l) = x
<1> DEFINE t == TurnFor(x, l)
<1>1. CASE l # None /\ t # None /\ x.turns[t].completion = None
  <2>1. t \in Owing(x) /\ l \in Completion
    BY <1>1, TurnForOwes
  <2>2. Claim(x, l) = BindTo(x, t, l)
    BY <1>1 DEF Claim
  <2>3. ~(\E u \in Owing(x) : x.turns[u].completion = l) /\ l \notin x.seen
    BY <1>1, TurnForOwes
  <2> HIDE DEF t
  <2>4. /\ Core(BindTo(x, t, l))
        /\ Revises(x, BindTo(x, t, l), t)
        /\ BindTo(x, t, l).turns[t].tokens = x.turns[t].tokens
    BY <2>1, BindToKeeps
  <2> QED BY <2>2, <2>3, <2>4 DEF Revises, Owing
<1>2. CASE ~(l # None /\ t # None /\ x.turns[t].completion = None)
  <2>1. Claim(x, l) = x
    BY <1>2 DEF Claim
  <2> QED BY <2>1 DEF SameLife
<1> QED BY <1>1, <1>2

\* The start of a completion binds it to the open turn, opened for it unless there is
\* one it can have.
LEMMA BindCompletionKeeps ==
    ASSUME NEW x, Core(x), NEW l \in Completion \cup {None}, x.counter < MaxTurns
    PROVE  /\ Core(BindCompletion(x, l))
           /\ SameLife(x, BindCompletion(x, l))
           /\ \A t \in TurnId :
                 /\ BindCompletion(x, l).turns[t].tokens = x.turns[t].tokens
                 /\ BindCompletion(x, l).turns[t].heard = x.turns[t].heard
                 /\ BindCompletion(x, l).turns[t].billed = x.turns[t].billed
           /\ l # None =>
                 /\ BindCompletion(x, l).seen = x.seen \cup {l}
                 /\ \E t \in TurnId :
                       /\ x.turns[t].completion \in {None, l} /\ ~x.turns[t].billed
                       /\ BindCompletion(x, l).turns[t].completion = l
                       /\ \A u \in TurnId \ {t} :
                            BindCompletion(x, l).turns[u].completion
                               = x.turns[u].completion
<1> DEFINE other == /\ x.active # None
                    /\ l # None
                    /\ x.turns[x.active].completion \notin {None, l}
           y == IF other THEN EndActive(x, FALSE) ELSE x
           b == IF y.active = None THEN BeginTurn(y) ELSE y
<1>1. BindCompletion(x, l) = IF l = None THEN b ELSE BindTo(b, b.active, l)
  BY DEF BindCompletion
<1>2. Core(y) /\ SameLife(x, y) /\ SameBooks(x, y) /\ y.counter < MaxTurns
      /\ (y.active # None => y = x /\ ~other)
  <2>1. CASE other
    BY <2>1, EndActiveKeeps
  <2>2. CASE ~other
    BY <2>2 DEF SameLife, SameBooks, SameShare
  <2> QED BY <2>1, <2>2
<1> HIDE DEF y
<1>3. Core(b) /\ SameLife(x, b) /\ SameBooks(x, b) /\ b.active \in TurnId
      /\ (l # None => b.turns[b.active].completion \in {None, l})
  <2>1. CASE y.active = None
    BY <1>2, <2>1, BeginTurnKeeps DEF SameLife, SameBooks, SameShare
  <2>2. CASE y.active # None
    BY <1>2, <2>2, Fields DEF Core, SameLife, SameBooks, SameShare
  <2> QED BY <2>1, <2>2
<1> HIDE DEF b, other
<1>4. CASE l = None
  BY <1>1, <1>3, <1>4 DEF SameBooks, SameShare
<1>5. CASE l # None
  <2> DEFINE t == b.active
             z == BindTo(b, t, l)
  <2>1. t \in Owing(b) /\ t \in TurnId /\ l \in Completion
    BY <1>3, <1>5 DEF Owing
  <2>2. ~b.turns[t].billed
    BY <1>3, <2>1, OwingIsUnbilled
  <2> HIDE DEF t
  <2>3. /\ Core(z) /\ Revises(b, z, t)
        /\ z.seen = b.seen \cup {l} /\ z.turns[t].completion = l
        /\ z.turns[t].heard = b.turns[t].heard
        /\ z.turns[t].tokens = b.turns[t].tokens
    BY <1>3, <2>1, BindToKeeps
  <2>4. BindCompletion(x, l) = z
    BY <1>1, <1>5 DEF t
  <2> HIDE DEF z
  <2>5. ASSUME NEW u \in TurnId
        PROVE  /\ z.turns[u].tokens = x.turns[u].tokens
               /\ z.turns[u].heard = x.turns[u].heard
               /\ z.turns[u].billed = x.turns[u].billed
               /\ u # t => z.turns[u].completion = x.turns[u].completion
    BY <1>3, <2>3 DEF Revises, SameBooks, SameShare
  <2>6. b.turns[t].completion \in {None, l}
    BY <1>3, <1>5 DEF t
  <2>7. x.turns[t].completion \in {None, l} /\ ~x.turns[t].billed /\ b.seen = x.seen
    BY <1>3, <2>1, <2>2, <2>6 DEF SameBooks, SameShare
  <2>8. SameLife(x, z)
    BY <1>3, <2>3 DEF Revises, SameLife
  <2> QED BY <2>1, <2>3, <2>4, <2>5, <2>7, <2>8
<1> QED BY <1>4, <1>5

-----------------------------------------------------------------------------
(* Output events, whatever their label.                                     *)

\* What turn t has heard changes.
LEMMA OnAudioOutputKeeps ==
    ASSUME NEW x, Core(x), NEW c \in Completion, NEW l \in Completion \cup {None}
    PROVE  /\ Core(OnAudioOutput(x, c, l))
           /\ SameLife(x, OnAudioOutput(x, c, l))
           /\ \A u \in TurnId : OnAudioOutput(x, c, l).turns[u].tokens = x.turns[u].tokens
           /\ Claim(x, l) = x =>
                 \/ OnAudioOutput(x, c, l) = x
                 \/ /\ TurnFor(x, l) \in TurnId
                    /\ Revises(x, OnAudioOutput(x, c, l), TurnFor(x, l))
                    /\ OnAudioOutput(x, c, l).seen = x.seen
                    /\ OnAudioOutput(x, c, l).turns[TurnFor(x, l)].completion
                          = x.turns[TurnFor(x, l)].completion
                    /\ OnAudioOutput(x, c, l).turns[TurnFor(x, l)].heard
                          = x.turns[TurnFor(x, l)].heard \cup {c}
<1> DEFINE t == TurnFor(x, l)
           y == Claim(x, l)
           z == OnAudioOutput(x, c, l)
<1>1. /\ Core(y) /\ SameLife(x, y) /\ Owing(y) = Owing(x)
      /\ \A u \in TurnId : y.turns[u].tokens = x.turns[u].tokens
  BY ClaimKeeps
<1>2. CASE t = None \/ x.turns[t].phase = "ended"
  <2>1. z = y
    BY <1>2 DEF OnAudioOutput
  <2> QED BY <1>1, <2>1
<1>3. CASE ~(t = None \/ x.turns[t].phase = "ended")
  <2> DEFINE new == [y.turns[t] EXCEPT !.heard = y.turns[t].heard \cup {c}]
  <2>1. z = [y EXCEPT !.turns = [y.turns EXCEPT ![t] = new]]
    BY <1>3 DEF OnAudioOutput
  <2>2. t \in Owing(y)
    BY <1>1, <1>3, TurnForOwes
  <2> HIDE DEF y, t, z
  <2>3. t \in TurnId /\ y.turns[t] \in Turn
    BY <1>1, <2>2, OwingIsUnbilled
  <2> DEFINE turn == y.turns[t]
             heard == turn.heard \cup {c}
  <2>4. turn \in Turn /\ heard \in SUBSET Completion /\ new = [turn EXCEPT !.heard = heard]
    BY <2>3 DEF Turn
  <2>5. /\ new \in Turn /\ new.phase = turn.phase /\ new.billed = turn.billed
        /\ new.completion = turn.completion /\ new.tokens = turn.tokens
        /\ new.heard = heard
    <3> HIDE DEF heard, turn, new
    <3> QED BY <2>4 DEF Turn
  <2> HIDE DEF new
  <2>6. [y.turns EXCEPT ![t] = new] \in [TurnId -> Turn]
    BY <1>1, <2>3, <2>5, Fields DEF Core
  <2>7. z \in Session
    BY <1>1, <2>1, <2>6 DEF Core, Session
  <2>8. /\ z.counter = y.counter /\ z.active = y.active /\ z.awaiting = y.awaiting
        /\ z.started = y.started /\ z.ended = y.ended /\ z.cut = y.cut
        /\ z.usages = y.usages /\ z.seen = y.seen /\ SameLife(y, z)
        /\ z.turns[t] = new /\ \A u \in TurnId \ {t} : z.turns[u] = y.turns[u]
    BY <1>1, <2>1, <2>3, Fields DEF Core, Session, SameLife
  <2>9. Revises(y, z, t)
    BY <2>5, <2>7, <2>8 DEF Revises
  <2>10. Core(z)
    BY <1>1, <2>2, <2>9, RevisionKeeps
  <2>11. \A u \in TurnId : z.turns[u].tokens = y.turns[u].tokens
    BY <2>5, <2>8
  <2>12. SameLife(x, z)
    BY <1>1, <2>8 DEF SameLife
  <2> QED BY <1>1, <2>3, <2>5, <2>8, <2>9, <2>10, <2>11, <2>12 DEF y, t, z
<1> QED BY <1>2, <1>3

\* A usage event is added to what turn t has of completion c.
LEMMA OnUsageEventKeeps ==
    ASSUME NEW x, Core(x), NEW c \in Completion, NEW l \in Completion \cup {None},
           \A u \in TurnId : x.turns[u].tokens[c] < MaxUsage
    PROVE  /\ Core(OnUsageEvent(x, c, l))
           /\ SameLife(x, OnUsageEvent(x, c, l))
           /\ \A u \in TurnId, d \in Completion :
                 OnUsageEvent(x, c, l).turns[u].tokens[d]
                    \in {x.turns[u].tokens[d],
                         x.turns[u].tokens[d] + IF d = c THEN 1 ELSE 0}
           /\ Claim(x, l) = x =>
                 \/ TurnFor(x, l) = None /\ OnUsageEvent(x, c, l) = x
                 \/ /\ TurnFor(x, l) \in TurnId
                    /\ Revises(x, OnUsageEvent(x, c, l), TurnFor(x, l))
                    /\ OnUsageEvent(x, c, l).seen = x.seen
                    /\ OnUsageEvent(x, c, l).turns[TurnFor(x, l)].completion
                          = x.turns[TurnFor(x, l)].completion
                    /\ OnUsageEvent(x, c, l).turns[TurnFor(x, l)].heard
                          = x.turns[TurnFor(x, l)].heard
                    /\ \A d \in Completion :
                          OnUsageEvent(x, c, l).turns[TurnFor(x, l)].tokens[d]
                             = x.turns[TurnFor(x, l)].tokens[d] + IF d = c THEN 1 ELSE 0
<1> DEFINE t == TurnFor(x, l)
           y == Claim(x, l)
           z == OnUsageEvent(x, c, l)
<1>1. /\ Core(y) /\ SameLife(x, y) /\ Owing(y) = Owing(x)
      /\ \A u \in TurnId : y.turns[u].tokens = x.turns[u].tokens
  BY ClaimKeeps
<1>2. CASE t = None
  <2>1. z = y
    BY <1>2 DEF OnUsageEvent
  <2> QED BY <1>1, <1>2, <2>1
<1>3. CASE t # None
  <2> DEFINE n == y.turns[t].tokens
             more == [n EXCEPT ![c] = n[c] + 1]
             new == [y.turns[t] EXCEPT !.tokens = more]
  <2>1. z = [y EXCEPT !.turns = [y.turns EXCEPT ![t] = new]]
    BY <1>3 DEF OnUsageEvent
  <2>2. t \in Owing(y)
    BY <1>1, <1>3, TurnForOwes
  <2> HIDE DEF y, t, z
  <2>3. t \in TurnId /\ y.turns[t] \in Turn
    BY <1>1, <2>2, OwingIsUnbilled
  <2> DEFINE turn == y.turns[t]
  <2>4. n \in [Completion -> 0..MaxUsage] /\ n[c] < MaxUsage
    BY <1>1, <2>3 DEF Turn
  <2>5. turn \in Turn /\ new = [turn EXCEPT !.tokens = more]
    BY <2>3
  <2> HIDE DEF n
  <2>6. /\ more \in [Completion -> 0..MaxUsage]
        /\ \A d \in Completion : more[d] = n[d] + IF d = c THEN 1 ELSE 0
    BY <2>4, BoundsAssumption
  <2>7. /\ new \in Turn /\ new.phase = turn.phase /\ new.billed = turn.billed
        /\ new.completion = turn.completion /\ new.heard = turn.heard
        /\ new.tokens = more
    <3> HIDE DEF more, turn, new
    <3> QED BY <2>5, <2>6 DEF Turn
  <2> HIDE DEF new, more
  <2>8. [y.turns EXCEPT ![t] = new] \in [TurnId -> Turn]
    BY <1>1, <2>3, <2>7, Fields DEF Core
  <2>9. z \in Session
    BY <1>1, <2>1, <2>8 DEF Core, Session
  <2>10. /\ z.counter = y.counter /\ z.active = y.active /\ z.awaiting = y.awaiting
         /\ z.started = y.started /\ z.ended = y.ended /\ z.cut = y.cut
         /\ z.usages = y.usages /\ z.seen = y.seen /\ SameLife(y, z)
         /\ z.turns[t] = new /\ \A u \in TurnId \ {t} : z.turns[u] = y.turns[u]
    BY <1>1, <2>1, <2>3, Fields DEF Core, Session, SameLife
  <2>11. Revises(y, z, t)
    BY <2>7, <2>9, <2>10 DEF Revises
  <2>12. Core(z)
    BY <1>1, <2>2, <2>11, RevisionKeeps
  <2>13. SameLife(x, z)
    BY <1>1, <2>10 DEF SameLife
  <2>14. \A d \in Completion :
            z.turns[t].tokens[d] = x.turns[t].tokens[d] + IF d = c THEN 1 ELSE 0
    BY <1>1, <2>3, <2>6, <2>7, <2>10 DEF n
  <2>15. ASSUME NEW u \in TurnId \ {t}, NEW d \in Completion
         PROVE  z.turns[u].tokens[d] = x.turns[u].tokens[d]
    BY <1>1, <2>10
  <2>16. z.turns[t].completion = y.turns[t].completion
         /\ z.turns[t].heard = y.turns[t].heard
    BY <2>7, <2>10
  <2> QED BY <2>3, <2>10, <2>11, <2>12, <2>13, <2>14, <2>15, <2>16 DEF y, t, z
<1> QED BY <1>2, <1>3

\* The turn an event is for is ended.
LEMMA OnInterruptedKeeps ==
    ASSUME NEW x, Core(x), NEW l \in Completion \cup {None}
    PROVE  /\ Core(OnInterrupted(x, l))
           /\ SameLife(x, OnInterrupted(x, l))
           /\ \A u \in TurnId : OnInterrupted(x, l).turns[u].tokens = x.turns[u].tokens
           /\ Claim(x, l) = x => SameBooks(x, OnInterrupted(x, l))
<1> DEFINE t == TurnFor(x, l)
           y == Claim(x, l)
<1>1. /\ Core(y) /\ SameLife(x, y) /\ Owing(y) = Owing(x)
      /\ \A u \in TurnId : y.turns[u].tokens = x.turns[u].tokens
  BY ClaimKeeps
<1>2. CASE t = None
  <2>1. OnInterrupted(x, l) = y
    BY <1>2 DEF OnInterrupted
  <2> QED BY <1>1, <2>1 DEF SameBooks, SameShare
<1>3. CASE t # None
  <2>1. OnInterrupted(x, l) = EndTurn(y, t, TRUE)
    BY <1>3 DEF OnInterrupted
  <2>2. t \in Owing(x)
    BY <1>3, TurnForOwes
  <2>3. t \in TurnId
    BY <2>2 DEF Owing
  <2> HIDE DEF t, y
  <2>4. Core(EndTurn(y, t, TRUE)) /\ SameLife(y, EndTurn(y, t, TRUE))
        /\ SameBooks(y, EndTurn(y, t, TRUE))
    BY <1>1, <2>3, EndTurnKeeps
  <2> QED BY <1>1, <2>1, <2>4 DEF SameLife, SameBooks, SameShare, y
<1> QED BY <1>2, <1>3

\* The turn an event is for is ended and billed.
LEMMA OnCompletionEndKeeps ==
    ASSUME NEW x, Core(x), NEW l \in Completion \cup {None}
    PROVE  /\ Core(OnCompletionEnd(x, l))
           /\ SameLife(x, OnCompletionEnd(x, l))
           /\ \A u \in TurnId : OnCompletionEnd(x, l).turns[u].tokens = x.turns[u].tokens
           /\ Claim(x, l) = x /\ TurnFor(x, l) # None =>
                 /\ OnCompletionEnd(x, l).seen = x.seen
                 /\ \A u \in TurnId :
                       /\ SameShare(x, OnCompletionEnd(x, l), u)
                       /\ OnCompletionEnd(x, l).turns[u].billed
                             <=> x.turns[u].billed \/ u = TurnFor(x, l)
<1> DEFINE t == TurnFor(x, l)
           y == Claim(x, l)
<1>1. /\ Core(y) /\ SameLife(x, y) /\ Owing(y) = Owing(x)
      /\ \A u \in TurnId : y.turns[u].tokens = x.turns[u].tokens
  BY ClaimKeeps
<1>2. CASE t = None
  <2>1. OnCompletionEnd(x, l) = y
    BY <1>2 DEF OnCompletionEnd
  <2> QED BY <1>1, <1>2, <2>1
<1>3. CASE t # None
  <2> DEFINE e == EndTurn(y, t, FALSE)
             T == {t}
             z == Bill(e, T)
  <2>1. OnCompletionEnd(x, l) = z
    BY <1>3 DEF OnCompletionEnd
  <2>2. t \in Owing(y)
    BY <1>1, <1>3, TurnForOwes
  <2> HIDE DEF t, y
  <2>3. t \in TurnId /\ y.turns[t].phase \in {"open", "ended"}
    BY <1>1, <2>2, OwingIsUnbilled
  <2>4. Core(e) /\ SameLife(y, e) /\ SameBooks(y, e) /\ e.turns[t].phase = "ended"
    BY <1>1, <2>3, EndTurnKeeps
  <2> HIDE DEF e
  <2>5. T \in SUBSET TurnId /\ \A u \in T : e.turns[u].phase = "ended"
    BY <2>3, <2>4
  <2> HIDE DEF T
  <2>6. /\ Core(z) /\ SameLife(e, z) /\ z.seen = e.seen
        /\ \A u \in TurnId :
              SameShare(e, z, u) /\ (z.turns[u].billed <=> e.turns[u].billed \/ u \in T)
    BY <2>4, <2>5, BillKeeps
  <2> HIDE DEF z
  <2>7. SameLife(x, z)
    BY <1>1, <2>4, <2>6 DEF SameLife
  <2>8. ASSUME NEW u \in TurnId
        PROVE  /\ SameShare(y, z, u)
               /\ z.turns[u].billed <=> y.turns[u].billed \/ u = t
               /\ z.turns[u].tokens = x.turns[u].tokens
    BY <1>1, <2>4, <2>6 DEF SameBooks, SameShare, T
  <2>9. z.seen = y.seen
    BY <2>4, <2>6 DEF SameBooks
  <2> QED BY <2>1, <2>6, <2>7, <2>8, <2>9 DEF y, t
<1> QED BY <1>2, <1>3

-----------------------------------------------------------------------------
(* Output events of a vendor that labels them and announces its completions. *)

\* What is neither heard, counted nor bound does not matter to the books; nor what is
\* billed, once the session is closed.
LEMMA BooksStay ==
    ASSUME NEW x, NEW y, NEW v, Books(x, v),
           y.seen = x.seen, \A t \in TurnId : SameShare(x, y, t),
           \/ y.closed
           \/ ~x.closed /\ \A t \in TurnId : y.turns[t].billed = x.turns[t].billed
    PROVE  Books(y, v)
<1> SUFFICES ASSUME NEW c \in Completion
             PROVE  Stage(y, v, c) /\ \A t \in TurnId : Share(y, v, t, c)
  BY DEF Books
<1>1. Stage(x, v, c) /\ \A t \in TurnId : Share(x, v, t, c)
  BY DEF Books
<1>2. \A t \in TurnId : Bound(y, t, c) <=> Bound(x, t, c)
  BY DEF Bound, SameShare
<1>3. Stage(y, v, c)
  BY <1>1, <1>2 DEF Stage
<1>4. ASSUME NEW t \in TurnId PROVE Share(y, v, t, c)
  BY <1>1, <1>2 DEF Share, SameShare
<1> QED BY <1>3, <1>4

\* What is said of a completion that has begun is for its turn.
LEMMA OpenHasTurn ==
    ASSUME NEW x, Core(x), NEW v, Books(x, v), ~x.closed, NEW c \in Completion,
           v.stage[c] = "open"
    PROVE  /\ TurnFor(x, c) \in TurnId /\ TurnFor(x, c) # None
           /\ Bound(x, TurnFor(x, c), c)
           /\ Claim(x, c) = x
<1>1. Stage(x, v, c)
  BY DEF Books
<1>2. PICK t \in TurnId : Bound(x, t, c)
  BY <1>1 DEF Stage
<1>3. ~x.turns[t].billed
  BY <1>1, <1>2 DEF Stage
<1>4. c # None /\ c \in Completion \cup {None}
  BY DEF Completion, None
<1>5. x.turns[t] # NoTurn
  BY <1>2, <1>4 DEF NoTurn, Bound
<1>6. t \in Owing(x)
  <2>1. Entry(x, t) /\ x.turns[t] \in Turn
    BY Fields DEF Core
  <2>2. x.turns[t].phase \in {"none", "open", "ended"}
    BY <2>1 DEF Turn
  <2> QED BY <1>3, <1>5, <2>1, <2>2 DEF Entry, Owing
<1>7. TurnFor(x, c) # None /\ x.turns[TurnFor(x, c)].completion = c
      /\ TurnFor(x, c) \in Owing(x)
  BY <1>2, <1>4, <1>6, TurnForOwes DEF Bound
<1>8. Claim(x, c) = x
  BY <1>2, <1>4, <1>6, ClaimKeeps DEF Bound
<1> QED BY <1>7, <1>8 DEF Bound, Owing

\* What is said of a completion that has ended is for nobody.
LEMMA OverHasNone ==
    ASSUME NEW x, Core(x), NEW v, Books(x, v), ~x.closed, NEW c \in Completion,
           v.stage[c] = "over"
    PROVE  TurnFor(x, c) = None /\ Claim(x, c) = x
<1>1. Stage(x, v, c) /\ c \in x.seen
  BY DEF Books, Stage
<1>2. c # None /\ c \in Completion \cup {None}
  BY DEF Completion, None
<1>3. ASSUME NEW t \in Owing(x) PROVE x.turns[t].completion # c
  <2>1. t \in TurnId /\ ~x.turns[t].billed
    BY OwingIsUnbilled
  <2> QED BY <1>1, <2>1 DEF Stage, Bound
<1> QED BY <1>1, <1>2, <1>3, TurnForOwes, ClaimKeeps

\* Sound of a completion goes to the turn bound to it.
LEMMA AudioBooks ==
    ASSUME NEW x, Core(x), NEW v, Books(x, v), ~x.closed, NEW c \in Completion,
           v.stage[c] = "open"
    PROVE  Books(OnAudioOutput(x, c, c), v)
<1> DEFINE z == OnAudioOutput(x, c, c)
           t == TurnFor(x, c)
<1>1. t \in TurnId /\ Bound(x, t, c) /\ Claim(x, c) = x
  BY OpenHasTurn
<1>2. /\ SameLife(x, z)
      /\ \A u \in TurnId : z.turns[u].tokens = x.turns[u].tokens
      /\ \/ z = x
         \/ /\ Revises(x, z, t) /\ z.seen = x.seen
            /\ z.turns[t].completion = x.turns[t].completion
            /\ z.turns[t].heard = x.turns[t].heard \cup {c}
  BY <1>1, OnAudioOutputKeeps
<1>3. CASE z = x
  BY <1>3
<1>4. CASE z # x
  <2> HIDE DEF z, t
  <2>1. /\ z.seen = x.seen /\ z.closed = x.closed
        /\ z.turns[t].heard = x.turns[t].heard \cup {c}
        /\ \A u \in TurnId : /\ z.turns[u].completion = x.turns[u].completion
                             /\ z.turns[u].billed = x.turns[u].billed
                             /\ u # t => z.turns[u].heard = x.turns[u].heard
    BY <1>1, <1>2, <1>4 DEF Revises, SameLife
  <2>2. ASSUME NEW d \in Completion
        PROVE  Stage(z, v, d) /\ \A u \in TurnId : Share(z, v, u, d)
    <3>1. Stage(x, v, d) /\ \A u \in TurnId : Share(x, v, u, d)
      BY DEF Books
    <3>2. \A u \in TurnId : Bound(z, u, d) <=> Bound(x, u, d)
      BY <2>1 DEF Bound
    <3>3. Stage(z, v, d)
      BY <2>1, <3>1, <3>2 DEF Stage
    <3>4. ASSUME NEW u \in TurnId PROVE Share(z, v, u, d)
      BY <1>1, <1>2, <2>1, <3>1, <3>2 DEF Share, Bound
    <3> QED BY <3>3, <3>4
  <2> QED BY <2>2 DEF Books, z
<1> QED BY <1>3, <1>4

\* So does a usage event, which that turn is owed.
LEMMA UsageBooks ==
    ASSUME NEW x, Core(x), NEW v \in Vendor, Books(x, v), ~x.closed,
           NEW c \in Completion, v.stage[c] = "open",
           \A u \in TurnId : x.turns[u].tokens[c] < MaxUsage,
           NEW w, w.stage = v.stage, w.owed = [v.owed EXCEPT ![c] = @ + 1]
    PROVE  Books(OnUsageEvent(x, c, c), w)
<1> DEFINE z == OnUsageEvent(x, c, c)
           t == TurnFor(x, c)
<1>1. t \in TurnId /\ t # None /\ Bound(x, t, c) /\ Claim(x, c) = x
  BY OpenHasTurn
<1>2. /\ SameLife(x, z) /\ Revises(x, z, t) /\ z.seen = x.seen
      /\ z.turns[t].completion = x.turns[t].completion
      /\ z.turns[t].heard = x.turns[t].heard
      /\ \A d \in Completion :
            z.turns[t].tokens[d] = x.turns[t].tokens[d] + IF d = c THEN 1 ELSE 0
  BY <1>1, OnUsageEventKeeps
<1> HIDE DEF z, t
<1>3. /\ z.seen = x.seen /\ z.closed = x.closed
      /\ \A u \in TurnId : /\ z.turns[u].completion = x.turns[u].completion
                           /\ z.turns[u].billed = x.turns[u].billed
                           /\ z.turns[u].heard = x.turns[u].heard
                           /\ u # t => z.turns[u].tokens = x.turns[u].tokens
  BY <1>1, <1>2 DEF Revises, SameLife
<1>4. /\ v.owed \in [Completion -> 0..MaxUsage]
      /\ \A d \in Completion : w.owed[d] = v.owed[d] + IF d = c THEN 1 ELSE 0
  BY BoundsAssumption DEF Vendor
<1>5. ASSUME NEW d \in Completion
      PROVE  Stage(z, w, d) /\ \A u \in TurnId : Share(z, w, u, d)
  <2>1. Stage(x, v, d) /\ \A u \in TurnId : Share(x, v, u, d)
    BY DEF Books
  <2>2. \A u \in TurnId : Bound(z, u, d) <=> Bound(x, u, d)
    BY <1>3 DEF Bound
  <2>3. w.owed[d] > 0 => d \in z.seen
    <3>1. CASE d = c
      BY <1>1, <1>3, <2>1, <3>1 DEF Share
    <3>2. CASE d # c
      BY <1>3, <1>4, <2>1, <3>2 DEF Stage
    <3> QED BY <3>1, <3>2
  <2>4. Stage(z, w, d)
    BY <1>3, <2>1, <2>2, <2>3 DEF Stage
  <2>5. ASSUME NEW u \in TurnId PROVE Share(z, w, u, d)
    <3>1. Share(x, v, u, d)
      BY <2>1
    <3>2. z.turns[u].tokens[d] = IF Bound(z, u, d) THEN w.owed[d] ELSE 0
      <4>1. CASE u = t /\ d = c
        BY <1>1, <1>2, <1>4, <2>2, <3>1, <4>1 DEF Share
      <4>2. CASE u = t /\ d # c
        <5>1. ~Bound(x, u, d)
          BY <1>1, <4>2 DEF Bound
        <5> QED BY <1>2, <2>2, <3>1, <4>2, <5>1 DEF Share
      <4>3. CASE u # t
        <5>1. z.turns[u].tokens[d] = x.turns[u].tokens[d]
          BY <1>3, <4>3
        <5>2. d = c => ~Bound(x, u, d)
          <6>1. Share(x, v, t, c)
            BY <1>1 DEF Books
          <6> QED BY <1>1, <4>3, <6>1 DEF Share
        <5> QED BY <1>4, <2>2, <3>1, <5>1, <5>2 DEF Share
      <4> QED BY <4>1, <4>2, <4>3
    <3> QED BY <1>3, <2>1, <2>2, <3>2 DEF Share
  <2> QED BY <2>4, <2>5
<1> QED BY <1>5 DEF Books, z

\* The end of a completion bills the turn bound to it.
LEMMA EndBooks ==
    ASSUME NEW x, Core(x), NEW v \in Vendor, Books(x, v), ~x.closed,
           NEW c \in Completion, v.stage[c] = "open",
           NEW w, w.owed = v.owed, w.stage = [v.stage EXCEPT ![c] = "over"]
    PROVE  Books(OnCompletionEnd(x, c), w)
<1> DEFINE z == OnCompletionEnd(x, c)
           t == TurnFor(x, c)
<1>1. t \in TurnId /\ t # None /\ Bound(x, t, c) /\ Claim(x, c) = x
  BY OpenHasTurn
<1>2. /\ SameLife(x, z) /\ z.seen = x.seen
      /\ \A u \in TurnId :
            SameShare(x, z, u) /\ (z.turns[u].billed <=> x.turns[u].billed \/ u = t)
  BY <1>1, OnCompletionEndKeeps
<1> HIDE DEF z, t
<1>3. \A d \in Completion : w.stage[d] = IF d = c THEN "over" ELSE v.stage[d]
  BY DEF Vendor
<1>4. ASSUME NEW d \in Completion
      PROVE  Stage(z, w, d) /\ \A u \in TurnId : Share(z, w, u, d)
  <2>1. Stage(x, v, d) /\ \A u \in TurnId : Share(x, v, u, d)
    BY DEF Books
  <2>2. \A u \in TurnId : Bound(z, u, d) <=> Bound(x, u, d)
    BY <1>2 DEF Bound, SameShare
  <2>3. ASSUME NEW u \in TurnId PROVE Share(z, w, u, d)
    BY <1>2, <2>1, <2>2 DEF Share, SameShare
  <2>4. ASSUME NEW u \in TurnId, Bound(z, u, d)
        PROVE  z.turns[u].billed <=> w.stage[d] = "over"
    <3>1. CASE d = c
      <4>1. u = t
        BY <1>1, <2>1, <2>2, <2>4, <3>1 DEF Share
      <4> QED BY <1>2, <1>3, <3>1, <4>1
    <3>2. CASE d # c
      <4>1. u # t
        BY <1>1, <2>2, <2>4, <3>2 DEF Bound
      <4> QED BY <1>2, <1>3, <2>1, <2>2, <2>4, <3>2, <4>1 DEF Stage
    <3> QED BY <3>1, <3>2
  <2>5. Stage(z, w, d)
    BY <1>2, <1>3, <2>1, <2>2, <2>4 DEF Stage, SameLife
  <2> QED BY <2>3, <2>5
<1> QED BY <1>4 DEF Books, z

\* The start of a completion binds a turn that has none.
LEMMA StartBooks ==
    ASSUME NEW x, Core(x), NEW v \in Vendor, Books(x, v), ~x.closed,
           x.counter < MaxTurns, NEW c \in Completion, v.stage[c] = "none",
           NEW w, w.owed = v.owed, w.stage = [v.stage EXCEPT ![c] = "open"]
    PROVE  Books(BindCompletion(x, c), w)
<1> DEFINE z == BindCompletion(x, c)
<1>1. c \notin x.seen /\ v.owed[c] = 0 /\ \A u \in TurnId : ~Bound(x, u, c)
  <2>1. Stage(x, v, c) /\ \A u \in TurnId : Share(x, v, u, c)
    BY DEF Books
  <2>2. v.owed[c] \in Nat
    BY DEF Vendor
  <2> QED BY <2>1, <2>2 DEF Stage, Share
<1>2. c # None /\ c \in Completion \cup {None}
  BY DEF Completion, None
<1>3. /\ SameLife(x, z) /\ z.seen = x.seen \cup {c}
      /\ \A u \in TurnId : /\ z.turns[u].tokens = x.turns[u].tokens
                           /\ z.turns[u].heard = x.turns[u].heard
                           /\ z.turns[u].billed = x.turns[u].billed
  BY <1>2, BindCompletionKeeps
<1>4. PICK t \in TurnId :
         /\ x.turns[t].completion \in {None, c} /\ ~x.turns[t].billed
         /\ z.turns[t].completion = c
         /\ \A u \in TurnId \ {t} : z.turns[u].completion = x.turns[u].completion
  BY <1>2, BindCompletionKeeps
<1> HIDE DEF z
<1>5. x.turns[t].completion = None
  BY <1>1, <1>4 DEF Bound
<1>6. \A d \in Completion : w.stage[d] = IF d = c THEN "open" ELSE v.stage[d]
  BY DEF Vendor
<1>7. ASSUME NEW d \in Completion
      PROVE  Stage(z, w, d) /\ \A u \in TurnId : Share(z, w, u, d)
  <2>1. Stage(x, v, d) /\ \A u \in TurnId : Share(x, v, u, d)
    BY DEF Books
  <2>2. d # None
    BY DEF Completion, None
  <2>3. CASE d = c
    <3>1. \A u \in TurnId : Bound(z, u, c) <=> u = t
      BY <1>1, <1>4 DEF Bound
    <3>2. Stage(z, w, c)
      BY <1>1, <1>3, <1>4, <1>6, <3>1 DEF Stage
    <3>3. ASSUME NEW u \in TurnId PROVE Share(z, w, u, c)
      <4>1. /\ c \notin z.turns[u].heard /\ z.turns[u].tokens[c] = 0
        BY <1>1, <1>3, <2>1, <2>3 DEF Share
      <4> QED BY <1>1, <1>3, <3>1, <4>1 DEF Share
    <3> QED BY <2>3, <3>2, <3>3
  <2>4. CASE d # c
    <3>1. \A u \in TurnId : Bound(z, u, d) <=> Bound(x, u, d)
      BY <1>4, <1>5, <2>2, <2>4 DEF Bound
    <3>2. Stage(z, w, d)
      BY <1>3, <1>6, <2>1, <2>4, <3>1 DEF Stage, SameLife
    <3>3. ASSUME NEW u \in TurnId PROVE Share(z, w, u, d)
      BY <1>3, <2>1, <2>4, <3>1 DEF Share
    <3> QED BY <3>2, <3>3
  <2> QED BY <2>3, <2>4
<1> QED BY <1>7 DEF Books, z

-----------------------------------------------------------------------------
(* The invariant.                                                           *)

\* How the vendor's record changes.
LEMMA StageMoves ==
    ASSUME vendor \in Vendor, NEW c \in Completion,
           NEW st \in {"early", "open", "over"},
           vendor' = [vendor EXCEPT !.stage[c] = st]
    PROVE  /\ vendor' \in Vendor
           /\ vendor'.stage = [vendor.stage EXCEPT ![c] = st]
           /\ vendor'.owed = vendor.owed /\ vendor'.usage = vendor.usage
           /\ vendor'.labelled = vendor.labelled /\ vendor'.early = vendor.early
BY DEF Vendor

\* A usage event adds to one turn what the vendor has sent.
LEMMA UsageMoves ==
    ASSUME vendor \in Vendor, NEW c \in Completion, vendor.usage[c] < MaxUsage,
           vendor.owed[c] <= vendor.usage[c], NEW more \in 0..1,
           vendor' = [vendor EXCEPT !.usage[c] = @ + 1, !.owed[c] = @ + more]
    PROVE  /\ vendor' \in Vendor
           /\ vendor'.usage = [vendor.usage EXCEPT ![c] = @ + 1]
           /\ vendor'.owed = [vendor.owed EXCEPT ![c] = @ + more]
           /\ vendor'.stage = vendor.stage
           /\ vendor'.labelled = vendor.labelled /\ vendor'.early = vendor.early
<1>1. /\ vendor.usage \in [Completion -> 0..MaxUsage]
      /\ vendor.owed \in [Completion -> 0..MaxUsage]
  BY DEF Vendor
<1>2. vendor.usage[c] + 1 \in 0..MaxUsage /\ vendor.owed[c] + more \in 0..MaxUsage
  BY <1>1, BoundsAssumption
<1>3. /\ [vendor.usage EXCEPT ![c] = @ + 1] \in [Completion -> 0..MaxUsage]
      /\ [vendor.owed EXCEPT ![c] = @ + more] \in [Completion -> 0..MaxUsage]
  BY <1>1, <1>2
<1> QED BY <1>3 DEF Vendor

\* An open session has not begun to end.
LEMMA OverStays ==
    ASSUME NEW x, NEW y, Over(x), ~x.closed, SameLife(x, y)
    PROVE  Over(y)
BY DEF Over, SameLife

\* Where neither the counts sent nor the tokens of the turns change, they still agree.
LEMMA CountedStays ==
    ASSUME NEW x, NEW y, NEW v, NEW w, Counted(x, v),
           w.usage = v.usage, w.owed = v.owed,
           \A t \in TurnId : y.turns[t].tokens = x.turns[t].tokens
    PROVE  Counted(y, w)
BY DEF Counted

\* To a closed session, the vendor's events change nothing.
LEMMA ClosedBooks ==
    ASSUME NEW x, NEW v, NEW w, Books(x, v), x.closed, w.owed = v.owed,
           \A c \in Completion : /\ c \in x.seen => w.stage[c] \in {"open", "over"}
                                 /\ w.stage[c] # "early"
    PROVE  Books(x, w)
BY DEF Books, Stage, Share

\* An event carries its completion's id, or none.
LEMMA LabelIsLabel ==
    ASSUME NEW c \in Completion
    PROVE  Label(c) \in Completion \cup {None} /\ (vendor.labelled => Label(c) = c)
BY DEF Label

\* The session as it is made.
LEMMA InitIInv == Init => IInv
<1> SUFFICES ASSUME Init PROVE IInv
  OBVIOUS
<1>1. NoTurn \in Turn /\ NoTurn.phase = "none" /\ ~NoTurn.billed /\ ~Ran(NoTurn)
  BY NoTurnIsTurn
<1>2. /\ s.turns = [t \in TurnId |-> NoTurn] /\ s.counter = 0 /\ s.active = None
      /\ s.starting = "opening" /\ s.closing = "no" /\ s.closed = FALSE
      /\ s.started = [t \in TurnId |-> 0] /\ s.ended = [t \in TurnId |-> 0]
      /\ s.cut = [t \in TurnId |-> 0] /\ s.usages = [t \in TurnId |-> 0]
      /\ s.awaiting = {} /\ s.seen = {} /\ s.lost = 0
  BY DEF Init
<1>3. s \in Session
  <2> DEFINE turns == [t \in TurnId |-> NoTurn]
             zero == [t \in TurnId |-> 0]
  <2>1. turns \in [TurnId -> Turn] /\ zero \in [TurnId -> 0..1] /\ 0 \in 0..MaxTurns
    BY <1>1, BoundsAssumption
  <2>2. PICK vad \in BOOLEAN :
          s = [starting |-> "opening", closing |-> "no", closed |-> FALSE,
               vad |-> vad, blockOpen |-> TRUE, counter |-> 0, active |-> None,
               turns |-> turns, awaiting |-> {}, seen |-> {},
               started |-> zero, ended |-> zero,
               cut |-> zero, usages |-> zero, lost |-> 0]
    BY DEF Init
  <2> HIDE DEF turns, zero
  <2> QED BY <2>1, <2>2 DEF Session
<1>4. ASSUME NEW t \in TurnId PROVE Entry(s, t)
  <2>1. t > 0 /\ t # None
    BY DEF TurnId, None
  <2> QED BY <1>1, <1>2, <2>1 DEF Entry
<1>5. Core(s) /\ Over(s)
  BY <1>2, <1>3, <1>4 DEF Core, Over
<1>6. vendor \in Vendor /\ stream \in {"connecting", "up", "down"}
  <2> DEFINE zero == [c \in Completion |-> 0]
             none == [c \in Completion |-> "none"]
  <2>1. zero \in [Completion -> 0..MaxUsage]
        /\ none \in [Completion -> {"none", "early", "open", "over"}]
    BY BoundsAssumption
  <2>2. PICK l \in BOOLEAN : vendor = [labelled |-> l, early |-> FALSE, stage |-> none,
                                        usage |-> zero, owed |-> zero]
    BY DEF Init
  <2>3. stream = "connecting"
    BY DEF Init
  <2> HIDE DEF zero, none
  <2> QED BY <2>1, <2>2, <2>3 DEF Vendor
<1>7. \A c \in Completion :
         vendor.owed[c] = 0 /\ vendor.usage[c] = 0 /\ vendor.stage[c] = "none"
  BY DEF Init
<1>8. ASSUME NEW t \in TurnId
      PROVE  /\ s.turns[t].completion = None /\ s.turns[t].heard = {}
             /\ \A c \in Completion : s.turns[t].tokens[c] = 0
  BY <1>2 DEF NoTurn
<1>9. Counted(s, vendor)
  BY <1>7, <1>8 DEF Counted
<1>10. Books(s, vendor)
  <2>1. \A c \in Completion : c # None
    BY DEF Completion, None
  <2> QED BY <1>2, <1>7, <1>8, <2>1 DEF Books, Stage, Share, Bound
<1> QED BY <1>3, <1>5, <1>6, <1>9, <1>10 DEF IInv, TypeOK

\* What is left to show of the step of an open session.
LEMMA OpenStep ==
    ASSUME IInv, ~s.closed, Core(s'), SameLife(s, s'), UNCHANGED stream,
           vendor' \in Vendor, Counted(s', vendor'), InOrder' => Books(s', vendor')
    PROVE  IInv'
<1>1. Over(s')
  BY OverStays DEF IInv
<1>2. TypeOK'
  BY DEF IInv, TypeOK, Core
<1> QED BY <1>1, <1>2 DEF IInv

\* And of an event that comes too late for the session.
LEMMA ClosedStep ==
    ASSUME IInv, s.closed, s' = s, UNCHANGED stream, vendor' \in Vendor,
           Counted(s, vendor'), vendor'.owed = vendor.owed,
           InOrder' => InOrder,
           InOrder' => \A c \in Completion :
                          /\ c \in s.seen => vendor'.stage[c] \in {"open", "over"}
                          /\ vendor'.stage[c] # "early"
    PROVE  IInv'
<1>1. InOrder' => Books(s, vendor')
  <2> SUFFICES ASSUME InOrder' PROVE Books(s, vendor')
    OBVIOUS
  <2>1. Books(s, vendor)
    BY DEF IInv
  <2> HIDE DEF Books
  <2> QED BY <2>1, ClosedBooks
<1> QED BY <1>1 DEF IInv, TypeOK

\* The step of an open session that only its client or its detector takes.
LEMMA ClientStep ==
    ASSUME IInv, ~s.closed, Core(s'), SameLife(s, s'), SameBooks(s, s'),
           UNCHANGED <<stream, vendor>>
    PROVE  IInv'
<1>1. Counted(s', vendor') /\ vendor' \in Vendor
  BY CountedStays DEF IInv, TypeOK, SameBooks, SameShare
<1>2. InOrder' => Books(s', vendor')
  BY BooksStay DEF IInv, InOrder, SameBooks, SameShare
<1> QED BY <1>1, <1>2, OpenStep

\* One step of each event, call and end of the stream.
LEMMA CompletionStartStep ==
    ASSUME IInv, NEW c \in Completion, CompletionStart(c)
    PROVE  IInv'
<1> DEFINE l == Label(c)
           z == BindCompletion(s, l)
<1>1. /\ s.counter < MaxTurns /\ vendor.stage[c] \in {"none", "early"}
      /\ vendor' = [vendor EXCEPT !.stage[c] = "open"]
      /\ s' = IF s.closed THEN s ELSE z
      /\ UNCHANGED stream
  BY DEF CompletionStart, RoomToOpen, Handle
<1>2. /\ vendor' \in Vendor
      /\ vendor'.stage = [vendor.stage EXCEPT ![c] = "open"]
      /\ vendor'.owed = vendor.owed /\ vendor'.usage = vendor.usage
      /\ vendor'.labelled = vendor.labelled /\ vendor'.early = vendor.early
  BY <1>1, StageMoves DEF IInv, TypeOK
<1>3. l \in Completion \cup {None} /\ (vendor.labelled => l = c)
  BY LabelIsLabel
<1>4. /\ Core(z) /\ SameLife(s, z)
      /\ \A t \in TurnId : z.turns[t].tokens = s.turns[t].tokens
  BY <1>1, <1>3, BindCompletionKeeps DEF IInv
<1>5. InOrder' => InOrder /\ Books(s, vendor) /\ l = c
  BY <1>2, <1>3 DEF InOrder, IInv
<1>6. Core(s) /\ vendor \in Vendor /\ Counted(s, vendor)
  BY DEF IInv, TypeOK
<1> HIDE DEF l
<1>7. CASE s.closed
  <2>1. \A d \in Completion :
           vendor'.stage[d] = IF d = c THEN "open" ELSE vendor.stage[d]
    BY <1>2, <1>6 DEF Vendor
  <2>2. ASSUME Books(s, vendor), NEW d \in Completion
        PROVE  /\ d \in s.seen => vendor'.stage[d] \in {"open", "over"}
               /\ vendor'.stage[d] # "early"
    BY <2>1, <2>2 DEF Books, Stage
  <2>3. Counted(s, vendor')
    BY <1>2, <1>6, CountedStays
  <2> QED BY <1>1, <1>2, <1>5, <1>7, <2>2, <2>3, ClosedStep
<1>8. CASE ~s.closed
  <2>1. s' = z
    BY <1>1, <1>8
  <2> HIDE DEF z
  <2>2. Counted(s', vendor')
    BY <1>2, <1>4, <1>6, <2>1, CountedStays
  <2>3. ASSUME InOrder' PROVE Books(s', vendor')
    <3>1. Books(s, vendor) /\ vendor.stage[c] = "none"
      BY <1>1, <1>5, <2>3 DEF Books, Stage
    <3>2. Books(BindCompletion(s, c), vendor')
      <4>1. s.counter < MaxTurns
        BY <1>1
      <4>2. /\ vendor'.owed = vendor.owed
            /\ vendor'.stage = [vendor.stage EXCEPT ![c] = "open"]
        BY <1>2
      <4> QED BY <1>6, <1>8, <3>1, <4>1, <4>2, StartBooks
    <3>3. s' = BindCompletion(s, c)
      BY <1>5, <2>1, <2>3 DEF z
    <3> QED BY <3>2, <3>3
  <2> QED BY <1>1, <1>2, <1>4, <1>8, <2>1, <2>2, <2>3, OpenStep
<1> QED BY <1>7, <1>8

\* Sound of a completion, however late.
LEMMA AudioOutputStep ==
    ASSUME IInv, NEW c \in Completion, AudioOutput(c)
    PROVE  IInv'
<1> DEFINE l == Label(c)
           z == OnAudioOutput(s, c, l)
<1>1. s' = (IF s.closed THEN s ELSE z) /\ UNCHANGED stream
  BY DEF AudioOutput, Handle
<1>2. l \in Completion \cup {None} /\ (vendor.labelled => l = c)
  BY LabelIsLabel
<1>3. /\ Core(z) /\ SameLife(s, z)
      /\ \A t \in TurnId : z.turns[t].tokens = s.turns[t].tokens
  BY <1>2, OnAudioOutputKeeps DEF IInv
<1>4. Core(s) /\ vendor \in Vendor /\ Counted(s, vendor)
  BY DEF IInv, TypeOK
<1>5. /\ vendor' \in Vendor
      /\ vendor'.owed = vendor.owed /\ vendor'.usage = vendor.usage
      /\ InOrder' => vendor' = vendor /\ vendor.stage[c] = "open"
  <2>1. CASE vendor.stage[c] = "open" /\ UNCHANGED vendor
    BY <1>4, <2>1
  <2>2. CASE vendor' = [vendor EXCEPT !.stage[c] = "early", !.early = TRUE]
    BY <1>4, <2>2 DEF Vendor, InOrder
  <2> QED BY <2>1, <2>2 DEF AudioOutput
<1>6. InOrder' => InOrder /\ Books(s, vendor) /\ l = c
  BY <1>2, <1>5 DEF InOrder, IInv
<1> HIDE DEF l
<1>7. CASE s.closed
  <2>1. ASSUME Books(s, vendor), NEW d \in Completion
        PROVE  /\ d \in s.seen => vendor.stage[d] \in {"open", "over"}
               /\ vendor.stage[d] # "early"
    BY <2>1 DEF Books, Stage
  <2>2. Counted(s, vendor')
    BY <1>4, <1>5, CountedStays
  <2> QED BY <1>1, <1>5, <1>6, <1>7, <2>1, <2>2, ClosedStep
<1>8. CASE ~s.closed
  <2>1. s' = z
    BY <1>1, <1>8
  <2> HIDE DEF z
  <2>2. Counted(s', vendor')
    BY <1>3, <1>4, <1>5, <2>1, CountedStays
  <2>3. ASSUME InOrder' PROVE Books(s', vendor')
    <3>1. Books(OnAudioOutput(s, c, c), vendor)
      BY <1>4, <1>5, <1>6, <1>8, <2>3, AudioBooks
    <3> QED BY <1>5, <1>6, <2>1, <2>3, <3>1 DEF z
  <2> QED BY <1>1, <1>3, <1>5, <1>8, <2>1, <2>2, <2>3, OpenStep
<1> QED BY <1>7, <1>8

\* Text, and an interruption: the vendor's record stays.
LEMMA TextOutputStep ==
    ASSUME IInv, NEW c \in Completion, TextOutput(c) \/ Interrupted(c)
    PROVE  IInv'
<1> DEFINE l == Label(c)
           z == IF TextOutput(c) THEN Claim(s, l) ELSE OnInterrupted(s, l)
<1>1. /\ s' = IF s.closed THEN s ELSE z
      /\ vendor.stage[c] = "open" /\ UNCHANGED <<stream, vendor>>
  BY DEF TextOutput, Interrupted, Handle
<1>2. l \in Completion \cup {None} /\ (vendor.labelled => l = c)
  BY LabelIsLabel
<1>3. Core(s) /\ vendor \in Vendor /\ Counted(s, vendor) /\ (InOrder => Books(s, vendor))
  BY DEF IInv, TypeOK
<1> HIDE DEF l
<1>4. /\ Core(z) /\ SameLife(s, z)
      /\ \A t \in TurnId : z.turns[t].tokens = s.turns[t].tokens
      /\ Claim(s, l) = s => SameBooks(s, z)
  <2>1. CASE TextOutput(c)
    <3>1. z = Claim(s, l)
      BY <2>1
    <3> HIDE DEF z
    <3> QED BY <1>2, <1>3, <3>1, ClaimKeeps DEF SameBooks, SameShare
  <2>2. CASE ~TextOutput(c)
    <3>1. z = OnInterrupted(s, l)
      BY <2>2
    <3> HIDE DEF z
    <3> QED BY <1>2, <1>3, <3>1, OnInterruptedKeeps
  <2> QED BY <2>1, <2>2
<1> HIDE DEF z
<1>5. CASE s.closed
  BY <1>1, <1>5 DEF IInv, TypeOK, InOrder
<1>6. CASE ~s.closed
  <2>1. s' = z
    BY <1>1, <1>6
  <2>2. Counted(s', vendor')
    BY <1>1, <1>3, <1>4, <2>1, CountedStays
  <2>3. ASSUME InOrder' PROVE Books(s', vendor')
    <3>1. InOrder /\ l = c /\ Books(s, vendor)
      BY <1>1, <1>2, <1>3, <2>3 DEF InOrder
    <3>2. SameBooks(s, z)
      BY <1>1, <1>3, <1>4, <1>6, <3>1, OpenHasTurn
    <3>3. /\ z.seen = s.seen /\ \A t \in TurnId : SameShare(s, z, t)
          /\ \A t \in TurnId : z.turns[t].billed = s.turns[t].billed
      BY <3>2 DEF SameBooks
    <3>4. Books(z, vendor)
      BY <1>6, <3>1, <3>3, BooksStay
    <3> QED BY <1>1, <2>1, <3>4
  <2> QED BY <1>1, <1>3, <1>4, <1>6, <2>1, <2>2, <2>3, OpenStep
<1> QED BY <1>5, <1>6

\* The end of a completion bills the turn bound to it.
LEMMA CompletionEndStep ==
    ASSUME IInv, NEW c \in Completion, CompletionEnd(c)
    PROVE  IInv'
<1> DEFINE l == Label(c)
           z == OnCompletionEnd(s, l)
<1>1. /\ s' = (IF s.closed THEN s ELSE z) /\ UNCHANGED stream
      /\ vendor.stage[c] = "open" /\ vendor' = [vendor EXCEPT !.stage[c] = "over"]
  BY DEF CompletionEnd, Handle
<1>2. l \in Completion \cup {None} /\ (vendor.labelled => l = c)
  BY LabelIsLabel
<1>3. Core(s) /\ vendor \in Vendor /\ Counted(s, vendor)
  BY DEF IInv, TypeOK
<1>4. /\ Core(z) /\ SameLife(s, z)
      /\ \A t \in TurnId : z.turns[t].tokens = s.turns[t].tokens
  BY <1>2, <1>3, OnCompletionEndKeeps
<1>5. /\ vendor' \in Vendor
      /\ vendor'.stage = [vendor.stage EXCEPT ![c] = "over"]
      /\ vendor'.owed = vendor.owed /\ vendor'.usage = vendor.usage
      /\ vendor'.labelled = vendor.labelled /\ vendor'.early = vendor.early
  BY <1>1, <1>3, StageMoves
<1>6. InOrder' => InOrder /\ Books(s, vendor) /\ l = c
  BY <1>2, <1>5 DEF InOrder, IInv
<1> HIDE DEF l
<1>7. CASE s.closed
  <2>1. \A d \in Completion :
           vendor'.stage[d] = IF d = c THEN "over" ELSE vendor.stage[d]
    BY <1>3, <1>5 DEF Vendor
  <2>2. ASSUME Books(s, vendor), NEW d \in Completion
        PROVE  /\ d \in s.seen => vendor'.stage[d] \in {"open", "over"}
               /\ vendor'.stage[d] # "early"
    BY <2>1, <2>2 DEF Books, Stage
  <2>3. Counted(s, vendor')
    BY <1>3, <1>5, CountedStays
  <2> QED BY <1>1, <1>5, <1>6, <1>7, <2>2, <2>3, ClosedStep
<1>8. CASE ~s.closed
  <2>1. s' = z
    BY <1>1, <1>8
  <2> HIDE DEF z
  <2>2. Counted(s', vendor')
    BY <1>3, <1>4, <1>5, <2>1, CountedStays
  <2>3. ASSUME InOrder' PROVE Books(s', vendor')
    <3>1. Books(OnCompletionEnd(s, c), vendor')
      <4>1. Books(s, vendor) /\ vendor.stage[c] = "open"
        BY <1>1, <1>6, <2>3
      <4>2. /\ vendor'.owed = vendor.owed
            /\ vendor'.stage = [vendor.stage EXCEPT ![c] = "over"]
        BY <1>5
      <4> QED BY <1>3, <1>8, <4>1, <4>2, EndBooks
    <3>2. s' = OnCompletionEnd(s, c)
      BY <1>6, <2>1, <2>3 DEF z
    <3> QED BY <3>1, <3>2
  <2> QED BY <1>1, <1>4, <1>5, <1>8, <2>1, <2>2, <2>3, OpenStep
<1> QED BY <1>7, <1>8

\* A usage event of a completion that has ended is nobody's.
LEMMA UsageEventStep ==
    ASSUME IInv, NEW c \in Completion, UsageEvent(c)
    PROVE  IInv'
<1> DEFINE l == Label(c)
           z == OnUsageEvent(s, c, l)
           more == IF vendor.stage[c] = "open" /\ ~s.closed THEN 1 ELSE 0
<1>1. /\ s' = (IF s.closed THEN s ELSE z) /\ UNCHANGED stream
      /\ vendor.stage[c] \in {"open", "over"} /\ vendor.usage[c] < MaxUsage
      /\ vendor' = [vendor EXCEPT !.usage[c] = @ + 1, !.owed[c] = @ + more]
  BY DEF UsageEvent, Handle
<1>2. l \in Completion \cup {None} /\ (vendor.labelled => l = c)
  BY LabelIsLabel
<1>3. Core(s) /\ vendor \in Vendor /\ Counted(s, vendor)
  BY DEF IInv, TypeOK
<1>4. more \in 0..1 /\ vendor.owed[c] <= vendor.usage[c]
  BY <1>3 DEF Counted
<1>5. /\ vendor' \in Vendor
      /\ vendor'.usage = [vendor.usage EXCEPT ![c] = @ + 1]
      /\ vendor'.owed = [vendor.owed EXCEPT ![c] = @ + more]
      /\ vendor'.stage = vendor.stage
      /\ vendor'.labelled = vendor.labelled /\ vendor'.early = vendor.early
  <2> HIDE DEF more
  <2> QED BY <1>1, <1>3, <1>4, UsageMoves
<1>6. InOrder' => InOrder /\ Books(s, vendor) /\ l = c
  BY <1>2, <1>5 DEF InOrder, IInv
<1>7. \A u \in TurnId : /\ s.turns[u].tokens \in [Completion -> 0..MaxUsage]
                        /\ s.turns[u].tokens[c] < MaxUsage
  <2>1. ASSUME NEW u \in TurnId PROVE s.turns[u].tokens \in [Completion -> 0..MaxUsage]
    BY <1>3, Fields DEF Core, Turn
  <2>2. vendor.usage[c] \in Nat /\ \A u \in TurnId : s.turns[u].tokens[c] <= vendor.usage[c]
    BY <1>3 DEF Counted, Vendor
  <2> QED BY <1>1, <2>1, <2>2, BoundsAssumption
<1>8. /\ Core(z) /\ SameLife(s, z)
      /\ \A u \in TurnId, d \in Completion :
            z.turns[u].tokens[d] \in {s.turns[u].tokens[d],
                                      s.turns[u].tokens[d] + IF d = c THEN 1 ELSE 0}
  BY <1>2, <1>3, <1>7, OnUsageEventKeeps
<1>9. /\ \A d \in Completion :
            /\ vendor.usage[d] \in Nat /\ vendor.owed[d] \in Nat
            /\ vendor'.usage[d] = vendor.usage[d] + IF d = c THEN 1 ELSE 0
            /\ vendor'.owed[d] = vendor.owed[d] + IF d = c THEN more ELSE 0
  <2> HIDE DEF more
  <2> QED BY <1>3, <1>4, <1>5 DEF Vendor
<1> HIDE DEF l, z
<1>10. CASE s.closed
  <2>1. s' = s /\ more = 0
    BY <1>1, <1>10
  <2>2. vendor'.owed = vendor.owed
    BY <1>3, <1>5, <2>1 DEF Vendor
  <2>3. Counted(s, vendor')
    <3>1. ASSUME NEW d \in Completion
          PROVE  /\ vendor'.owed[d] <= vendor'.usage[d]
                 /\ \A t \in TurnId : s.turns[t].tokens[d] <= vendor'.usage[d]
      <4>1. /\ vendor.owed[d] <= vendor.usage[d]
            /\ \A t \in TurnId : s.turns[t].tokens[d] <= vendor.usage[d]
        BY <1>3 DEF Counted
      <4>2. \A t \in TurnId : s.turns[t].tokens[d] \in Nat
        BY <1>7
      <4> QED BY <1>9, <2>1, <4>1, <4>2
    <3> QED BY <3>1 DEF Counted
  <2>4. ASSUME Books(s, vendor), NEW d \in Completion
        PROVE  /\ d \in s.seen => vendor'.stage[d] \in {"open", "over"}
               /\ vendor'.stage[d] # "early"
    BY <1>5, <2>4 DEF Books, Stage
  <2> QED BY <1>1, <1>5, <1>6, <1>10, <2>1, <2>2, <2>3, <2>4, ClosedStep
<1>11. CASE ~s.closed
  <2>1. s' = z
    BY <1>1, <1>11
  <2>2. Counted(s', vendor')
    <3>1. ASSUME NEW d \in Completion
          PROVE  /\ vendor'.owed[d] <= vendor'.usage[d]
                 /\ \A t \in TurnId : z.turns[t].tokens[d] <= vendor'.usage[d]
      <4>1. /\ vendor.owed[d] <= vendor.usage[d]
            /\ \A t \in TurnId : s.turns[t].tokens[d] <= vendor.usage[d]
        BY <1>3 DEF Counted
      <4>2. \A t \in TurnId : s.turns[t].tokens[d] \in Nat
        BY <1>7
      <4> QED BY <1>4, <1>8, <1>9, <4>1, <4>2
    <3> QED BY <2>1, <3>1 DEF Counted
  <2>3. ASSUME InOrder' PROVE Books(s', vendor')
    <3>1. Books(s, vendor) /\ l = c
      BY <1>6, <2>3
    <3>2. CASE vendor.stage[c] = "open"
      <4>1. vendor'.owed = [vendor.owed EXCEPT ![c] = @ + 1]
        BY <1>5, <1>11, <3>2
      <4>2. Books(OnUsageEvent(s, c, c), vendor')
        <5>1. /\ Core(s) /\ vendor \in Vendor /\ Books(s, vendor) /\ ~s.closed
              /\ vendor.stage[c] = "open" /\ \A u \in TurnId : s.turns[u].tokens[c] < MaxUsage
              /\ vendor'.stage = vendor.stage
          BY <1>3, <1>5, <1>7, <1>11, <3>1, <3>2
        <5> QED BY <4>1, <5>1, UsageBooks
      <4>3. s' = OnUsageEvent(s, c, c)
        BY <2>1, <3>1 DEF z
      <4> QED BY <4>2, <4>3
    <3>3. CASE vendor.stage[c] = "over"
      <4>1. TurnFor(s, c) = None /\ Claim(s, c) = s
        BY <1>3, <1>11, <3>1, <3>3, OverHasNone
      <4>2. s' = s
        BY <2>1, <3>1, <4>1 DEF z, OnUsageEvent
      <4>3. vendor'.owed = vendor.owed
        BY <1>3, <1>5, <3>3 DEF Vendor
      <4>4. Books(s, vendor')
        BY <1>5, <3>1, <4>3 DEF Books, Stage, Share
      <4> QED BY <4>2, <4>4
    <3> QED BY <1>1, <3>2, <3>3
  <2> QED BY <1>1, <1>5, <1>8, <1>11, <2>1, <2>2, <2>3, OpenStep
<1> QED BY <1>10, <1>11

-----------------------------------------------------------------------------
(* start(), close() and the client's calls.                                 *)

\* The stream opens, and the books are as they were.
LEMMA OpenedStep ==
    ASSUME IInv, Opened
    PROVE  IInv'
<1>1. /\ s.starting = "opening" /\ s' = [s EXCEPT !.starting = "ready"]
      /\ stream' = "up" /\ UNCHANGED vendor
  BY DEF Opened
<1>2. Core(s) /\ Over(s) /\ vendor \in Vendor /\ Counted(s, vendor)
  BY DEF IInv, TypeOK
<1>3. s' \in Session
  BY <1>1, <1>2 DEF Core, Session
<1>4. /\ s'.counter = s.counter /\ s'.active = s.active /\ s'.turns = s.turns
      /\ s'.awaiting = s.awaiting /\ s'.seen = s.seen /\ s'.started = s.started
      /\ s'.ended = s.ended /\ s'.cut = s.cut /\ s'.usages = s.usages
      /\ s'.closed = s.closed /\ s'.closing = s.closing /\ s'.lost = s.lost
      /\ s'.starting = "ready"
  BY <1>1, <1>2 DEF Core, Session
<1>5. Core(s')
  BY <1>2, <1>3, <1>4 DEF Core, Entry
<1>6. Over(s')
  BY <1>1, <1>2, <1>4 DEF Over
<1>7. Counted(s', vendor')
  BY <1>1, <1>2, <1>4 DEF Counted
<1>8. InOrder' => Books(s', vendor')
  BY <1>1, <1>4 DEF IInv, InOrder, Books, Stage, Share, Bound
<1> QED BY <1>1, <1>2, <1>3, <1>5, <1>6, <1>7, <1>8 DEF IInv, TypeOK

\* A rejected start() closes the session, and leaves the rest as it is.
LEMMA StartFailsStep ==
    ASSUME IInv, StartFails
    PROVE  IInv'
<1>1. /\ s.starting = "opening"
      /\ s' = [s EXCEPT !.starting = "rejected", !.closed = TRUE]
      /\ stream' = "down" /\ UNCHANGED vendor
  BY DEF StartFails
<1>2. Core(s) /\ Over(s) /\ vendor \in Vendor /\ Counted(s, vendor)
  BY DEF IInv, TypeOK
<1>3. s' \in Session
  BY <1>1, <1>2 DEF Core, Session
<1>4. /\ s'.counter = s.counter /\ s'.active = s.active /\ s'.turns = s.turns
      /\ s'.awaiting = s.awaiting /\ s'.seen = s.seen /\ s'.started = s.started
      /\ s'.ended = s.ended /\ s'.cut = s.cut /\ s'.usages = s.usages
      /\ s'.closed /\ s'.closing = s.closing /\ s'.lost = s.lost
      /\ s'.starting = "rejected"
  BY <1>1, <1>2 DEF Core, Session
<1>5. Core(s')
  BY <1>2, <1>3, <1>4 DEF Core, Entry
<1>6. Over(s')
  BY <1>1, <1>2, <1>4 DEF Over
<1>7. Counted(s', vendor')
  BY <1>1, <1>2, <1>4 DEF Counted
<1>8. \A t \in TurnId : SameShare(s, s', t)
  BY <1>4 DEF SameShare
<1>9. InOrder' => InOrder /\ Books(s, vendor)
  BY <1>1 DEF IInv, InOrder
<1>10. InOrder' => Books(s', vendor')
  BY <1>1, <1>4, <1>8, <1>9, BooksStay
<1> QED BY <1>1, <1>2, <1>3, <1>5, <1>6, <1>7, <1>10 DEF IInv, TypeOK

\* A session that closes, with what it makes of its open turn.
LEMMA ClosingStep ==
    ASSUME IInv, Core(s'), Over(s'), s'.closed, s'.seen = s.seen,
           \A t \in TurnId : SameShare(s, s', t),
           stream' \in {"connecting", "up", "down"}, UNCHANGED vendor
    PROVE  IInv'
<1>1. Counted(s', vendor') /\ vendor' \in Vendor
  BY CountedStays DEF IInv, TypeOK, SameShare
<1>2. InOrder' => Books(s', vendor')
  BY BooksStay DEF IInv, InOrder
<1> QED BY <1>1, <1>2 DEF IInv, TypeOK, Core

\* A stream that ends closes a session that is open, and bills what is awaited.
LEMMA StreamEndsStep ==
    ASSUME IInv, StreamEnds
    PROVE  IInv'
<1>1. s' = OnStreamClosed(s) /\ stream' = "down" /\ UNCHANGED vendor
  BY DEF StreamEnds
<1>2. Core(s) /\ Over(s)
  BY DEF IInv
<1>3. CASE s.closed
  <2>1. s' = s
    BY <1>1, <1>3 DEF OnStreamClosed
  <2> QED BY <1>1, <1>2, <1>3, <2>1, ClosingStep DEF SameShare
<1>4. CASE ~s.closed
  <2> DEFINE a == [s EXCEPT !.closed = TRUE, !.closing = "lost", !.lost = @ + 1]
             e == EndActive(a, FALSE)
             f == FlushBilling(e)
  <2>1. s' = f
    BY <1>1, <1>4 DEF OnStreamClosed
  <2>2. s.closing = "no" /\ s.lost = 0
    BY <1>2, <1>4 DEF Over
  <2>3. a \in Session
    <3>1. s \in Session /\ s.lost + 1 = 1
      BY <1>2, <2>2 DEF Core
    <3>2. a = [s EXCEPT !.closed = TRUE, !.closing = "lost", !.lost = 1]
      BY <3>1
    <3> DEFINE b == [s EXCEPT !.closed = TRUE, !.closing = "lost"]
    <3>3. b \in Session
      BY <3>1 DEF Session
    <3>4. a = [b EXCEPT !.lost = 1]
      BY <3>1, <3>2 DEF Session
    <3> HIDE DEF a, b
    <3> QED BY <3>3, <3>4 DEF Session
  <2>4. /\ a.counter = s.counter /\ a.active = s.active /\ a.turns = s.turns
        /\ a.awaiting = s.awaiting /\ a.seen = s.seen /\ a.started = s.started
        /\ a.ended = s.ended /\ a.cut = s.cut /\ a.usages = s.usages
        /\ a.closed /\ a.closing = "lost" /\ a.lost = 1 /\ a.starting = s.starting
    BY <1>2, <2>2 DEF Core, Session
  <2> HIDE DEF a
  <2>5. Core(a)
    BY <1>2, <2>3, <2>4 DEF Core, Entry
  <2>6. Core(e) /\ SameLife(a, e) /\ SameBooks(a, e) /\ e.active = None
    BY <2>5, EndActiveKeeps
  <2> HIDE DEF e
  <2>7. /\ Core(f) /\ SameLife(e, f) /\ f.active = None /\ f.seen = e.seen
        /\ f.awaiting = {} /\ \A t \in TurnId : SameShare(e, f, t)
    BY <2>6, FlushBillingKeeps
  <2> HIDE DEF f
  <2>8. Over(f) /\ f.closed
    BY <1>2, <1>4, <2>4, <2>6, <2>7 DEF Over, SameLife
  <2>9. f.seen = s.seen /\ \A t \in TurnId : SameShare(s, f, t)
    BY <2>4, <2>6, <2>7 DEF SameBooks, SameShare
  <2> QED BY <1>1, <2>1, <2>7, <2>8, <2>9, ClosingStep
<1> QED BY <1>3, <1>4

\* close() ends the open turn before it waits.
LEMMA CloseStep ==
    ASSUME IInv, Close
    PROVE  IInv'
<1> DEFINE a == [s EXCEPT !.closed = TRUE]
           e == EndActive(a, FALSE)
<1>1. /\ ~s.closed /\ s.starting # "rejected" /\ UNCHANGED <<stream, vendor>>
      /\ s' = [e EXCEPT !.blockOpen = FALSE, !.closing = "draining"]
  BY DEF Close, Held
<1>2. Core(s) /\ Over(s) /\ stream \in {"connecting", "up", "down"}
  BY DEF IInv, TypeOK
<1>3. a \in Session
  BY <1>2 DEF Core, Session
<1>4. /\ a.counter = s.counter /\ a.active = s.active /\ a.turns = s.turns
      /\ a.awaiting = s.awaiting /\ a.seen = s.seen /\ a.started = s.started
      /\ a.ended = s.ended /\ a.cut = s.cut /\ a.usages = s.usages
      /\ a.closed /\ a.closing = s.closing /\ a.lost = s.lost /\ a.starting = s.starting
  BY <1>2 DEF Core, Session
<1> HIDE DEF a
<1>5. Core(a)
  BY <1>2, <1>3, <1>4 DEF Core, Entry
<1>6. Core(e) /\ SameLife(a, e) /\ SameBooks(a, e) /\ e.active = None
  BY <1>5, EndActiveKeeps
<1> HIDE DEF e
<1>7. s' \in Session
  BY <1>1, <1>6 DEF Core, Session
<1>8. /\ s'.counter = e.counter /\ s'.active = e.active /\ s'.turns = e.turns
      /\ s'.awaiting = e.awaiting /\ s'.seen = e.seen /\ s'.started = e.started
      /\ s'.ended = e.ended /\ s'.cut = e.cut /\ s'.usages = e.usages
      /\ s'.closed = e.closed /\ s'.closing = "draining" /\ s'.lost = e.lost
      /\ s'.starting = e.starting
  BY <1>1, <1>6 DEF Core, Session
<1>9. Core(s')
  BY <1>6, <1>7, <1>8 DEF Core, Entry
<1>10. Over(s') /\ s'.closed
  <2>1. s.closing = "no" /\ s.lost = 0
    BY <1>1, <1>2 DEF Over
  <2>2. /\ s'.lost = 0 /\ s'.closed /\ s'.active = None
        /\ s'.closing = "draining" /\ s'.starting = s.starting
    BY <1>4, <1>6, <1>8, <2>1 DEF SameLife
  <2> QED BY <1>1, <2>2 DEF Over
<1>11. s'.seen = s.seen /\ \A t \in TurnId : SameShare(s, s', t)
  BY <1>4, <1>6, <1>8 DEF SameBooks, SameShare
<1> QED BY <1>1, <1>2, <1>9, <1>10, <1>11, ClosingStep

\* close() bills what is awaited after it has waited.
LEMMA CloseOutStep ==
    ASSUME IInv, CloseOut
    PROVE  IInv'
<1> DEFINE f == FlushBilling(s)
<1>1. /\ s.closing = "draining" /\ stream' = "down" /\ UNCHANGED vendor
      /\ s' = [f EXCEPT !.closing = "done"]
  BY DEF CloseOut
<1>2. Core(s) /\ Over(s)
  BY DEF IInv
<1>3. /\ Core(f) /\ SameLife(s, f) /\ f.active = s.active /\ f.seen = s.seen
      /\ f.awaiting = {} /\ \A t \in TurnId : SameShare(s, f, t)
  BY <1>2, FlushBillingKeeps
<1> HIDE DEF f
<1>4. s' \in Session
  BY <1>1, <1>3 DEF Core, Session
<1>5. /\ s'.counter = f.counter /\ s'.active = f.active /\ s'.turns = f.turns
      /\ s'.awaiting = f.awaiting /\ s'.seen = f.seen /\ s'.started = f.started
      /\ s'.ended = f.ended /\ s'.cut = f.cut /\ s'.usages = f.usages
      /\ s'.closed = f.closed /\ s'.closing = "done" /\ s'.lost = f.lost
      /\ s'.starting = f.starting
  BY <1>1, <1>3 DEF Core, Session
<1>6. Core(s')
  BY <1>3, <1>4, <1>5 DEF Core, Entry
<1>7. Over(s') /\ s'.closed
  BY <1>1, <1>2, <1>3, <1>5 DEF Over, SameLife
<1>8. s'.seen = s.seen /\ \A t \in TurnId : SameShare(s, s', t)
  BY <1>3, <1>5 DEF SameShare
<1> QED BY <1>1, <1>6, <1>7, <1>8, ClosingStep

\* A call that may open a turn.
LEMMA BeginStep ==
    ASSUME IInv, PushAudio \/ CommitAudio \/ SendText
    PROVE  IInv'
<1>1. ~s.closed /\ s.counter < MaxTurns /\ UNCHANGED <<stream, vendor>>
  BY DEF PushAudio, CommitAudio, SendText, RoomToOpen
<1>2. s' = BeginTurn(s) \/ s' = s
  BY DEF PushAudio, CommitAudio, SendText
<1>3. /\ Core(BeginTurn(s)) /\ SameLife(s, BeginTurn(s)) /\ SameBooks(s, BeginTurn(s))
  BY <1>1, BeginTurnKeeps DEF IInv
<1>4. CASE s' = BeginTurn(s)
  BY <1>1, <1>3, <1>4, ClientStep
<1>5. CASE s' = s
  BY <1>1, <1>5, ClientStep DEF IInv, SameLife, SameBooks, SameShare
<1> QED BY <1>2, <1>4, <1>5

\* A session with an open turn, and a start() that was not rejected, is not closed.
LEMMA InterruptStep ==
    ASSUME IInv, Interrupt
    PROVE  IInv' /\ ~s.closed
<1>1. s' = EndActive(s, TRUE) /\ s.active # None /\ s.starting # "rejected"
      /\ UNCHANGED <<stream, vendor>>
  BY DEF Interrupt, Held
<1>2. ~s.closed
  BY <1>1 DEF IInv, Over
<1>3. Core(s') /\ SameLife(s, s') /\ SameBooks(s, s')
  BY <1>1, EndActiveKeeps DEF IInv
<1> QED BY <1>1, <1>2, <1>3, ClientStep

\* Nothing happens.
LEMMA StutterStep ==
    ASSUME IInv, UNCHANGED vars
    PROVE  IInv'
BY DEF IInv, TypeOK, InOrder, vars

\* The session's books stand in every reachable state, however the vendor behaves.
THEOREM Invariant == Spec => []IInv
<1>1. IInv /\ [Next]_vars => IInv'
  <2> SUFFICES ASSUME IInv, [Next]_vars PROVE IInv'
    OBVIOUS
  <2>1. CASE VendorStep
    BY <2>1, CompletionStartStep, AudioOutputStep, TextOutputStep, UsageEventStep,
       CompletionEndStep DEF VendorStep
  <2>2. CASE Opened \/ StartFails \/ StreamEnds
    BY <2>2, OpenedStep, StartFailsStep, StreamEndsStep
  <2>3. CASE PushAudio \/ CommitAudio \/ SendText \/ Interrupt
    BY <2>3, BeginStep, InterruptStep
  <2>4. CASE Close \/ CloseOut
    BY <2>4, CloseStep, CloseOutStep
  <2>5. CASE UNCHANGED vars
    BY <2>5, StutterStep
  <2> QED BY <2>1, <2>2, <2>3, <2>4, <2>5 DEF Next
<1> QED BY <1>1, InitIInv, PTL DEF Spec


-----------------------------------------------------------------------------
(* What the runs check.                                                     *)

\* The records keep their types, for any number of turns and completions: a turn is
\* begun, ended and billed at most once.
THEOREM TypesHold == Spec => []TypeOK
BY Invariant, PTL DEF IInv

\* A completion's usage is in the bill of the turn bound to it, if there is one.
LEMMA UsageIsInOneBill ==
    ASSUME IInv, InOrder, NEW c \in Completion
    PROVE  \E t \in TurnId :
              /\ s.turns[t].tokens[c] = vendor.owed[c]
              /\ vendor.owed[c] > 0 => s.turns[t].completion = c
              /\ \A u \in TurnId \ {t} : s.turns[u].tokens[c] = 0
<1>1. Stage(s, vendor, c) /\ \A t \in TurnId : Share(s, vendor, t, c)
  BY DEF IInv, Books
<1>2. CASE c \in s.seen
  <2>1. PICK t \in TurnId : Bound(s, t, c)
    BY <1>1, <1>2 DEF Stage
  <2>2. s.turns[t].tokens[c] = vendor.owed[c] /\ s.turns[t].completion = c
    BY <1>1, <2>1 DEF Share, Bound
  <2>3. \A u \in TurnId \ {t} : s.turns[u].tokens[c] = 0
    BY <1>1, <2>1 DEF Share
  <2> QED BY <2>2, <2>3
<1>3. CASE c \notin s.seen
  <2>1. 1 \in TurnId
    BY BoundsAssumption DEF TurnId
  <2>2. \A t \in TurnId : s.turns[t].tokens[c] = 0
    BY <1>1, <1>3 DEF Share
  <2>3. vendor.owed[c] \in Nat
    BY BoundsAssumption DEF IInv, TypeOK, Vendor
  <2>4. vendor.owed[c] = 0
    BY <1>1, <1>3, <2>3 DEF Stage
  <2> QED BY <2>1, <2>2, <2>4
<1> QED BY <1>2, <1>3

\* From a vendor that labels its events and announces its completions: no sound and
\* no token reaches the turn of another completion, no two turns claim one, and each
\* usage event that an open session took while its completion ran is in one bill.
THEOREM CompletionsStayApart == Spec => []CompletionsKeptApart
<1>1. IInv => CompletionsKeptApart
  <2> SUFFICES ASSUME IInv, InOrder PROVE CompletionsKeptApart
    BY DEF CompletionsKeptApart
  <2>1. ASSUME NEW t \in TurnId
        PROVE  /\ s.turns[t].heard \subseteq {s.turns[t].completion}
               /\ \A u \in TurnId \ {t} :
                     s.turns[t].completion # None
                         => s.turns[u].completion # s.turns[t].completion
    <3>1. Books(s, vendor) /\ s.turns[t] \in Turn
      BY DEF IInv, Core, Session
    <3>2. \A c \in Completion : Share(s, vendor, t, c)
      BY <3>1 DEF Books
    <3>3. /\ s.turns[t].heard \subseteq Completion
          /\ s.turns[t].completion \in Completion \cup {None}
      BY <3>1 DEF Turn
    <3>4. s.turns[t].heard \subseteq {s.turns[t].completion}
      BY <3>2, <3>3 DEF Share, Bound
    <3>5. ASSUME NEW u \in TurnId \ {t}, s.turns[t].completion # None
          PROVE  s.turns[u].completion # s.turns[t].completion
      BY <3>2, <3>3, <3>5 DEF Share, Bound
    <3> QED BY <3>4, <3>5
  <2>2. \A c \in Completion :
           \E t \in TurnId :
              /\ s.turns[t].tokens[c] = vendor.owed[c]
              /\ vendor.owed[c] > 0 => s.turns[t].completion = c
              /\ \A u \in TurnId \ {t} : s.turns[u].tokens[c] = 0
    BY UsageIsInOneBill
  <2> QED BY <2>1, <2>2 DEF CompletionsKeptApart
<1> QED BY <1>1, Invariant, PTL

\* However the vendor behaves, a session that is over has ended each of its turns
\* once, and reported the usage of each turn that anything came of once.
THEOREM EveryRunIsBilled == Spec => []RanIsBilled
<1>1. IInv => RanIsBilled
  <2> SUFFICES ASSUME IInv, Settled
               PROVE  /\ s.awaiting = {}
                      /\ \A t \in 1..s.counter :
                            /\ s.ended[t] = 1
                            /\ s.usages[t] = IF Ran(s.turns[t]) THEN 1 ELSE 0
    BY DEF RanIsBilled
  <2>1. Core(s) /\ s.awaiting = {} /\ s.active = None
    BY DEF IInv, Over, Settled
  <2>2. ASSUME NEW t \in 1..s.counter
        PROVE  s.ended[t] = 1 /\ s.usages[t] = IF Ran(s.turns[t]) THEN 1 ELSE 0
    <3>1. s.counter \in 0..MaxTurns /\ s.turns \in [TurnId -> Turn]
      BY <2>1 DEF Core, Session
    <3>2. t \in TurnId /\ t <= s.counter /\ t # None /\ ~(t > s.counter)
      BY <2>2, <3>1, BoundsAssumption DEF TurnId, None
    <3>3. Entry(s, t) /\ s.turns[t] \in Turn
      BY <2>1, <3>1, <3>2 DEF Core
    <3>4. s.turns[t].phase \notin {"none", "open"}
      BY <2>1, <3>2, <3>3 DEF Entry
    <3>5. s.turns[t].phase = "ended"
      BY <3>3, <3>4 DEF Turn
    <3>6. s.turns[t].billed
      BY <2>1, <3>3, <3>5 DEF Entry
    <3> QED BY <3>3, <3>5, <3>6 DEF Entry
  <2> QED BY <2>1, <2>2
<1> QED BY <1>1, Invariant, PTL

\* A session that is over, or whose start() was rejected, never reports again,
\* whatever the vendor and the client still do.
THEOREM SilentOnceGone == Spec => ClosedIsSilent
<1>1. IInv /\ [Next]_vars => (Gone => Reports' = Reports)
  <2> SUFFICES ASSUME IInv, [Next]_vars, Gone PROVE Reports' = Reports
    OBVIOUS
  <2>1. s \in Session /\ s.closed
    BY DEF IInv, Core, Over, Gone, Settled
  <2>2. CASE s' = s
    BY <2>2 DEF Reports
  <2>3. CASE VendorStep
    <3>1. s' = s
      BY <2>1, <2>3 DEF VendorStep, CompletionStart, AudioOutput, TextOutput, Interrupted,
         UsageEvent, CompletionEnd, Handle
    <3> QED BY <2>2, <3>1
  <2>4. CASE Opened
    <3>1. s' = [s EXCEPT !.starting = "ready"]
      BY <2>4 DEF Opened
    <3> QED BY <2>1, <3>1 DEF Reports, Session
  <2>5. CASE StartFails
    <3>1. s' = [s EXCEPT !.starting = "rejected", !.closed = TRUE]
      BY <2>5 DEF StartFails
    <3> QED BY <2>1, <3>1 DEF Reports, Session
  <2>6. CASE StreamEnds
    BY <2>1, <2>2, <2>6 DEF StreamEnds, OnStreamClosed
  <2>7. CASE PushAudio \/ CommitAudio \/ SendText \/ Close
    BY <2>1, <2>7 DEF PushAudio, CommitAudio, SendText, Close
  <2>8. CASE Interrupt
    BY <2>1, <2>8, InterruptStep
  <2>9. CASE CloseOut
    BY <2>9 DEF CloseOut, Gone, Settled
  <2>10. CASE UNCHANGED vars
    BY <2>2, <2>10 DEF vars
  <2> QED BY <2>3, <2>4, <2>5, <2>6, <2>7, <2>8, <2>9, <2>10 DEF Next
<1> QED BY <1>1, Invariant, PTL DEF Spec, ClosedIsSilent
=============================================================================

------------------------------ MODULE RunsPage ------------------------------
(***************************************************************************)
(* The Runs page, ComparePage of src/frontend/src/components: the listing  *)
(* of the conversations on disk, the records of the selected ones, and the *)
(* requests that are out for either.  Answers come in any order or fail.   *)
(*                                                                         *)
(* A record is rewritten after every turn, so what is loaded is told apart *)
(* by the refresh it was asked for in.  The effect that fetches what is    *)
(* selected and missing runs after each step that sets `slots` or          *)
(* `loaded`, and is part of that step.  What was asked for by a page that  *)
(* has been left touches nothing any more, and is dropped with it.         *)
(***************************************************************************)
EXTENDS Naturals, Sequences, FiniteSets, SequencesExt

CONSTANTS
    Records,       \* the conversations on disk
    Newest,        \* those of them the first listing selects
    MaxLoads,      \* bound: listings asked for on one visit of the page
    MaxOpens,      \* bound: rows being opened at a time
    MaxFails       \* bound: requests that fail

VARIABLE s

Gen == 0..MaxLoads
Request == [id : Records, for : {"slot", "open"}, gen : Gen]

Page ==
    [mounted    : BOOLEAN,
     generation : Gen,
     listing    : SUBSET Gen,           \* listings in flight
     index      : Gen,                  \* the one that is shown
     slots      : SUBSET Records,
     loaded     : [Records -> Gen],     \* 0: not loaded
     inFlight   : SUBSET Records,
     out        : Seq(Request),
     gaveUp     : SUBSET Records,       \* their last request failed
     opening    : SUBSET Records,       \* the row that says it is being opened
     listFailed : BOOLEAN,              \* the newest listing failed
     crossed    : SUBSET Records,       \* history: in flight at the last refresh
     fails      : 0..MaxFails]

TypeOK == s \in Page

\* What the effect goes through: selected, not loaded, not asked for.
Missing(x) == {r \in x.slots : x.loaded[r] = 0 /\ r \notin x.inFlight}

Ask(x, ids, why) ==
    x.out \o SetToSeq({[id |-> r, for |-> why, gen |-> x.generation] : r \in ids})

Fetch(x) ==
    [x EXCEPT !.out = Ask(x, Missing(x), "slot"), !.inFlight = @ \cup Missing(x),
              !.gaveUp = @ \ Missing(x)]

\* load()
Load(x) ==
    Fetch([x EXCEPT !.generation = @ + 1, !.listing = @ \cup {x.generation + 1},
                    !.loaded = [r \in Records |-> 0], !.listFailed = FALSE,
                    !.crossed = x.inFlight])

Unmounted(slots, fails) ==
    [mounted |-> FALSE, generation |-> 0, listing |-> {}, index |-> 0, slots |-> slots,
     loaded |-> [r \in Records |-> 0], inFlight |-> {}, out |-> <<>>, gaveUp |-> {},
     opening |-> {}, listFailed |-> FALSE, crossed |-> {}, fails |-> fails]

\* The selection is in the memory that the parent keeps.
Unmount(x) == Unmounted(x.slots, x.fails)

Init == s = Unmounted({}, 0)

-----------------------------------------------------------------------------
Visit == ~s.mounted /\ s' = Load([s EXCEPT !.mounted = TRUE])

Leave == s.mounted /\ s' = Unmount(s)

Refresh == s.mounted /\ s.generation < MaxLoads /\ s' = Load(s)

Toggle(r) ==
    /\ s.mounted
    /\ s.index # 0
    /\ s' = Fetch([s EXCEPT !.slots = IF r \in @ THEN @ \ {r} ELSE @ \cup {r}])

\* Mutant: whichever listing comes last is shown.
ListArrives_Any(g) ==
    /\ g \in s.listing
    /\ LET y == [s EXCEPT !.listing = @ \ {g}, !.index = g]
       IN  s' = IF s.slots = {} THEN Fetch([y EXCEPT !.slots = Newest]) ELSE y

\* Only the newest request may write; with nothing selected it selects.
ListArrives(g) ==
    /\ g \in s.listing
    /\ LET y == [s EXCEPT !.listing = @ \ {g}]
           z == [y EXCEPT !.index = g]
       IN  s' = IF g # s.generation THEN y
                ELSE IF s.slots = {} THEN Fetch([z EXCEPT !.slots = Newest]) ELSE z

ListFails(g) ==
    /\ g \in s.listing
    /\ s.fails < MaxFails
    /\ s' = [s EXCEPT !.listing = @ \ {g}, !.fails = @ + 1,
                      !.listFailed = @ \/ g = s.generation]

Opens == {i \in DOMAIN s.out : s.out[i].for = "open"}

\* A click on a row: a record that is there opens at once, and the page gives way.
Open(r) ==
    /\ s.mounted
    /\ s.index # 0
    /\ r \notin s.opening
    /\ Cardinality(Opens) < MaxOpens
    /\ s' = IF s.loaded[r] # 0 THEN Unmount(s)
            ELSE [s EXCEPT !.out = Ask(s, {r}, "open"), !.opening = {r}]

Answered(i) == [s EXCEPT !.out = RemoveAt(@, i)]

RecordArrives(i) ==
    /\ i \in DOMAIN s.out
    /\ LET q == s.out[i]
           y == [Answered(i) EXCEPT !.loaded[q.id] = q.gen, !.inFlight = @ \ {q.id}]
       IN  s' = IF q.for = "open" THEN Unmount(s) ELSE Fetch(y)

\* Nothing is loaded, so the effect does not run: reselecting retries.
RecordFails(i) ==
    /\ i \in DOMAIN s.out
    /\ s.fails < MaxFails
    /\ LET q == s.out[i]
           y == [Answered(i) EXCEPT !.fails = @ + 1]
       IN  s' = IF q.for = "open" THEN [y EXCEPT !.opening = {}]
                ELSE [y EXCEPT !.inFlight = @ \ {q.id}, !.gaveUp = @ \cup {q.id}]

-----------------------------------------------------------------------------
Next ==
    \/ Visit \/ Leave \/ Refresh
    \/ \E r \in Records : Toggle(r) \/ Open(r)
    \/ \E g \in s.listing : ListArrives(g) \/ ListFails(g)
    \/ \E i \in DOMAIN s.out : RecordArrives(i) \/ RecordFails(i)

Spec == Init /\ [][Next]_s

-----------------------------------------------------------------------------
(* Properties                                                                *)

\* The listing on the page is the one that was asked for last, once that is in,
\* whatever order the answers of fast refreshes come in.
ListIsNewest ==
    s.mounted /\ ~s.listFailed =>
        (s.generation \in s.listing \/ s.index = s.generation)

\* A record on the page is as the last refresh found it; but one that was on its way
\* at that refresh lands after it, as it was before, and is not asked for again.
RecordsAreFresh ==
    \A r \in Records : s.loaded[r] \in {0, s.generation} \/ r \in s.crossed

\* A selected record is there, was asked for by exactly one request, or failed.
AskedForOnce ==
    /\ \A r \in Records :
         Cardinality({i \in DOMAIN s.out : s.out[i].id = r /\ s.out[i].for = "slot"})
            = (IF r \in s.inFlight THEN 1 ELSE 0)
    /\ s.mounted =>
         \A r \in s.slots : s.loaded[r] # 0 \/ r \in s.inFlight \/ r \in s.gaveUp
=============================================================================

----------------------------- MODULE Comparison -----------------------------
(***************************************************************************)
(* What the Runs page makes of its records: the part of ComparePage.tsx    *)
(* that selects, filters and numbers the runs, and says which of them is   *)
(* the fastest and the cheapest.  RunsPage has the requests; here a record *)
(* that is asked for comes, or has not come yet.                           *)
(*                                                                         *)
(* A listing is newest first.  A record is its legs, its mode, a word to   *)
(* search for, its turns, cost and figures; -1 is a figure never measured. *)
(***************************************************************************)
EXTENDS Integers, Sequences, SequencesExt, FiniteSetsExt

CONSTANTS
    Runs,        \* id -> record
    Listings,    \* what GET /api/sessions may answer: ids, newest first
    Filters,     \* that may be set
    Preselected, \* 4: how many runs the first listing selects
    Colours,     \* how many RIG_COLORS has
    Scale        \* a multiple of every number of turns

VARIABLE s

Unmeasured == -1
NoSlots == [r \in {} |-> 0]

\* isMockRun()
IsMock(r) == \A i \in DOMAIN Runs[r].legs : Runs[r].legs[i] = "mock"

\* filterRuns()
Shown(filter, r) ==
    /\ filter.mode \in {"all", Runs[r].mode}
    /\ ~(filter.hideMock /\ IsMock(r))
    /\ filter.query \in Runs[r].words \cup {""}
Rows(x) == SelectSeq(x.index, LAMBDA r : Shown(x.filter, r))

\* freeSlot()
FreeSlot(slots) ==
    Min({n \in 0..Cardinality(DOMAIN slots) : \A r \in DOMAIN slots : slots[r] # n})

\* load(): with nothing selected, the newest that are no mocks.
Preselect(listing) ==
    LET real == SelectSeq(listing, LAMBDA r : ~IsMock(r))
        few == SubSeq(real, 1, Min({Preselected, Len(real)}))
    IN  [r \in ToSet(few) |-> SelectInSeq(few, LAMBDA q : q = r) - 1]

Fresh == [query |-> "", mode |-> "all", hideMock |-> TRUE]

Init ==
    s = [mounted |-> FALSE, asked |-> FALSE, index |-> <<>>, listed |-> FALSE,
         loaded |-> {}, slots |-> NoSlots, filter |-> Fresh]

-----------------------------------------------------------------------------
(* The page.  The selection and the filter are in the memory of its parent.  *)

Visit ==
    /\ ~s.mounted
    /\ s' = [s EXCEPT !.mounted = TRUE, !.asked = TRUE]

Leave ==
    /\ s.mounted
    /\ s' = [s EXCEPT !.mounted = FALSE, !.asked = FALSE, !.index = <<>>,
                      !.listed = FALSE, !.loaded = {}]

\* load() again: records are rewritten after every turn, so none is kept.
Refresh ==
    /\ s.mounted
    /\ s' = [s EXCEPT !.asked = TRUE, !.loaded = {}]

List(listing) ==
    /\ s.asked
    /\ s' = [s EXCEPT !.asked = FALSE, !.index = listing, !.listed = TRUE,
                      !.slots = IF @ = NoSlots THEN Preselect(listing) ELSE @]

\* The record of a selected run, be it listed or not.
Load(r) ==
    /\ s.mounted
    /\ r \in DOMAIN s.slots \ s.loaded
    /\ s' = [s EXCEPT !.loaded = @ \cup {r}]

Toggle(r) ==
    /\ s.listed /\ r \in ToSet(Rows(s))
    /\ s' = [s EXCEPT !.slots =
                 IF r \in DOMAIN @ THEN [q \in DOMAIN @ \ {r} |-> @[q]]
                 ELSE [q \in DOMAIN @ \cup {r} |-> IF q = r THEN FreeSlot(@) ELSE @[q]]]

Clear ==
    /\ s.listed
    /\ s' = [s EXCEPT !.slots = NoSlots]

SetFilter(filter) ==
    /\ s.mounted
    /\ s' = [s EXCEPT !.filter = filter]

Next ==
    \/ Visit \/ Leave \/ Refresh \/ Clear
    \/ \E listing \in Listings : List(listing)
    \/ \E r \in DOMAIN Runs : Load(r) \/ Toggle(r)
    \/ \E filter \in Filters : SetFilter(filter)

-----------------------------------------------------------------------------
(* The right-hand side                                                       *)

Selected == {r \in DOMAIN s.slots : r \in ToSet(s.index)}

\* Selected, listed and loaded, in the order of their numbers.
Series ==
    SetToSortSeq(Selected \cap s.loaded, LAMBDA a, b : s.slots[a] < s.slots[b])
Colour(r) == s.slots[r] % Colours

\* Three columns of the matrix.  A realtime run's STT figure is when a transcript
\* came, and no leg.
PerTurn ==
    [r \in DOMAIN Runs |->
        IF Runs[r].turns = 0 THEN Unmeasured ELSE Runs[r].cost * (Scale \div Runs[r].turns)]
Ttfa == [r \in DOMAIN Runs |-> Runs[r].ttfa]
Stt == [r \in DOMAIN Runs |-> IF Runs[r].mode = "realtime" THEN Unmeasured ELSE Runs[r].stt]

\* pickBest()
PickBest(runs, column) ==
    LET values == {column[runs[i]] : i \in DOMAIN runs} \ {Unmeasured}
    IN  IF values = {} THEN Unmeasured ELSE Min(values)

\* Matrix: the cells of a column that are marked.
Best(runs, column) ==
    {r \in ToSet(runs) : column[r] # Unmeasured /\ column[r] = PickBest(runs, column)}

Absent == "none"

\* Verdicts.  Where nothing was measured, the first run is the one that has not
\* measured the best either.
Found(runs, column) == SelectSeq(runs, LAMBDA r : column[r] = PickBest(runs, column))
Fastest == IF Len(Series) < 2 THEN Absent ELSE Head(Found(Series, Ttfa))
Cheapest ==
    LET ran == SelectSeq(Series, LAMBDA r : Runs[r].turns # 0)
        found == SelectSeq(ran, LAMBDA r : PerTurn[r] = PickBest(Series, PerTurn))
    IN  IF Len(Series) < 2 \/ found = <<>> THEN Absent ELSE Head(found)
Slowest == Max({0} \cup {Ttfa[r] : r \in ToSet(Series)})
Dearest == Max({0} \cup {PerTurn[r] : r \in ToSet(Series)})

-----------------------------------------------------------------------------
(* Properties                                                                *)

\* No two selected runs have a number, and so a colour while the colours last, in
\* common, however they were selected, cleared, pruned from the disk and found again.
SeriesApart ==
    \A r, q \in DOMAIN s.slots :
        r # q => /\ s.slots[r] # s.slots[q]
                 /\ Colour(r) = Colour(q) => Max({s.slots[r], s.slots[q]}) >= Colours

\* The words of the verdicts and the marks of the matrix are about one run, which no
\* other selected run undercuts, and the leads they name are not below zero; but where
\* no selected run has a time, the first of them is called the fastest (`find` there
\* compares nothing with nothing), though the matrix marks none.
VerdictIsBest ==
    /\ Fastest # Absent =>
          IF \A r \in ToSet(Series) : Ttfa[r] = Unmeasured
          THEN Fastest = Head(Series) /\ Best(Series, Ttfa) = {}
          ELSE /\ Fastest \in Best(Series, Ttfa)
               /\ \A r \in ToSet(Series) : Ttfa[r] = Unmeasured \/ Ttfa[Fastest] <= Ttfa[r]
               /\ Slowest >= Ttfa[Fastest]
    /\ Cheapest # Absent =>
           /\ Cheapest \in Best(Series, PerTurn)
           /\ \A r \in ToSet(Series) :
                  Runs[r].turns = 0
                  \/ Runs[Cheapest].cost * Runs[r].turns <= Runs[r].cost * Runs[Cheapest].turns
           /\ Dearest >= PerTurn[Cheapest]
    /\ \A r \in Best(Series, Stt) : Runs[r].mode = "pipeline"

\* A run that the page has selected by itself can be seen in the table, also when the
\* mock filter is on; but for one that the words or the mode of a filter hide, which
\* the page may have been left with before it selected.
PreselectionIsShown ==
    s.slots = Preselect(s.index) =>
        \A r \in Selected :
            r \in ToSet(Rows(s)) \/ ~Shown([s.filter EXCEPT !.hideMock = FALSE], r)
=============================================================================

---------------------------- MODULE UsageLedger ----------------------------
(***************************************************************************)
(* src/backend/src/pricing/UsageLedger.ts: the turns of one conversation,  *)
(* each priced as it lands, the figures banked of their latency, and the   *)
(* summary that adds both up whenever it is asked for; and the figures the *)
(* page shows meanwhile, src/frontend/src/lib/stats.ts.                    *)
(*                                                                         *)
(* Of the six latency arrays there are two, which are filled alike; a      *)
(* median is doubled, so that it is a whole number.  Of the counts of a    *)
(* row, which are all summed alike, there are two as well.                 *)
(***************************************************************************)
EXTENDS Pricing, Sequences, SequencesExt

CONSTANTS
    Reports,   \* the turns a session may report: sequences of legs without a cost
    Figures,   \* what turns are measured at; Missing: no such mark
    MaxCalls,  \* bound: calls of record() and noteLatency()
    MaxDays    \* bound: the last day of the conversation

VARIABLE s

Init ==
    s = [turns |-> <<>>, ttfas |-> <<>>, stts |-> <<>>, today |-> 0, calls |-> 0,
         page |-> <<>>]   \* what its turns were measured at

\* l.cost?.amount ?? 0, summed.
Sum(costs) == FoldLeft(LAMBDA sum, c : sum + Or(c, 0), 0, costs)

Cost(legs) == Sum([i \in DOMAIN legs |-> legs[i].cost])

Turn(legs, at) ==
    LET priced == [i \in DOMAIN legs |-> PriceLeg(legs[i], at)]
    IN  [legs |-> priced, cost |-> Cost(priced),
         unpriced |-> {<<l.provider, l.model>> :
                          l \in {m \in Range(priced) : m.reason # "none"}}]

Called == s.calls < MaxCalls

Record ==
    /\ Called
    /\ \E legs \in Reports :
          s' = [s EXCEPT !.calls = @ + 1, !.turns = Append(@, Turn(legs, s.today))]

Note(figures, ms) == IF ms >= 0 THEN Append(figures, ms) ELSE figures

NoteLatency ==
    /\ Called
    /\ \E d \in Figures :
          s' = [s EXCEPT !.calls = @ + 1, !.ttfas = Note(@, d.ttfa),
                         !.stts = Note(@, d.stt), !.page = Append(@, d)]

DayPasses ==
    /\ s.today < MaxDays
    /\ s' = [s EXCEPT !.today = @ + 1]

Next == Record \/ NoteLatency \/ DayPasses

-----------------------------------------------------------------------------
(* summary()                                                                 *)

Key(leg) == <<leg.kind, leg.provider, leg.model, leg.unit>>

AddLeg(row, leg) ==
    [row EXCEPT !.input = @ + leg.input, !.cached = @ + leg.cached,
                !.local = @ \/ leg.local,
                !.reason = IF @ = "none" THEN leg.reason ELSE @,
                !.cost = IF @ = Missing THEN leg.cost ELSE @ + Or(leg.cost, 0)]

AllLegs(turns) == FlattenSeq([i \in DOMAIN turns |-> turns[i].legs])

\* One row for each leg, vendor, model and unit.
TotalsByLeg(turns) ==
    LET legs == AllLegs(turns)
        Row(key) == LET own == SelectSeq(legs, LAMBDA l : Key(l) = key)
                    IN  FoldLeft(AddLeg, Head(own), Tail(own))
    IN  {Row(key) : key \in {Key(l) : l \in Range(legs)}}

Sorted(figures) == SortSeq(figures, <)

MedianTwice(sorted) ==
    LET mid == Len(sorted) \div 2
    IN  IF Len(sorted) % 2 = 1 THEN 2 * sorted[mid + 1] ELSE sorted[mid] + sorted[mid + 1]

\* Math.ceil(q * sorted.length), kept within the array; q in percent.
Percentile(sorted, q) ==
    LET rank == (q * Len(sorted) + 99) \div 100
    IN  sorted[Least(Len(sorted), IF rank < 1 THEN 1 ELSE rank)]

\* stats.ts: medianOf() and summarize(), of what is left when undefined and negative
\* figures are dropped.
Clean(values) == SelectSeq(values, LAMBDA v : v >= 0)
PageMedianTwice(sorted) ==
    LET mid == Len(sorted) \div 2
        lower == IF Len(sorted) % 2 = 1 THEN mid + 1 ELSE mid
    IN  sorted[lower] + sorted[mid + 1]

PageRank(n, q) == Least(n, IF q * n <= 100 THEN 1 ELSE (q * n + 99) \div 100)
Summarize(values) ==
    LET sorted == SortSeq(Clean(values), <)
        n == Len(sorted)
    IN  [n |-> n, medianTwice |-> PageMedianTwice(sorted),
         p95 |-> sorted[PageRank(n, 95)], min |-> sorted[1], max |-> sorted[n]]

Summary ==
    [totals |-> TotalsByLeg(s.turns),
     cost |-> Sum([i \in DOMAIN s.turns |-> s.turns[i].cost]),
     unpriced |-> UNION {t.unpriced : t \in Range(s.turns)}]

-----------------------------------------------------------------------------
(* Properties                                                                *)

LegsOf(key) == SelectSeq(AllLegs(s.turns), LAMBDA l : Key(l) = key)

\* The rows of a summary cost what its turns cost, in whatever order priced and
\* unpriced turns came and whatever day they fell on; a row has a cost if any of
\* its legs has, is an estimate if any of them is, and says so if any is missing.
RowsAddUp ==
    /\ FoldSet(LAMBDA row, sum : sum + Or(row.cost, 0), 0, Summary.totals)
         = Summary.cost
    /\ \A row \in Summary.totals :
          LET own == Range(LegsOf(Key(row)))
          IN  /\ row.cost # Missing <=> \E l \in own : l.cost # Missing
              /\ row.local <=> \E l \in own : l.local
              /\ row.reason # "none"
                   <=> <<row.provider, row.model>> \in Summary.unpriced
                       /\ \E l \in own : l.reason # "none"

\* A leg has a cost or the reason why it has none; and every token of a spoken leg
\* that has one is billed in one class, the cached ones as cached.
TokensBilledOnce ==
    \A l \in Range(AllLegs(s.turns)) :
        /\ l.cost = Missing <=> l.reason # "none"
        /\ l.cost # Missing =>
              LET n == Split(l)
              IN  /\ n.audio + n.cachedAudio = l.audioIn
                  /\ n.text + n.cachedText = l.input - l.audioIn
                  /\ n.cachedAudio + n.cachedText = l.cached
                  /\ n.cachedAudio >= l.cachedAudio

\* Being served from the cache makes no turn dearer, on any day of its rate.
CacheNeverDearer ==
    \A l \in Range(AllLegs(s.turns)), at \in 0..MaxDays :
        l.cost # Missing =>
            LET rate == Effective(RateFor(l), at)
            IN  Amount(l, rate)
                  <= Amount([l EXCEPT !.cached = 0, !.cachedAudio = 0], rate)

\* At least q percent of what was banked lies at or below the q-th percentile, and
\* no smaller figure will do; half of it lies on either side of the median.
FiguresAreRanks ==
    \A figures \in {s.ttfas, s.stts} \ {<<>>} :
        LET sorted == Sorted(figures)
            n == Len(figures)
            AtMost(v) == Cardinality({i \in 1..n : figures[i] <= v})
            twice == MedianTwice(sorted)
        IN  /\ \A q \in {25, 50, 75, 95} :
                  LET v == Percentile(sorted, q)
                  IN  /\ v \in Range(figures)
                      /\ 100 * AtMost(v) >= q * n
                      /\ \A u \in Range(figures) : u < v => 100 * AtMost(u) < q * n
            /\ 2 * Cardinality({i \in 1..n : 2 * figures[i] <= twice}) >= n
            /\ 2 * Cardinality({i \in 1..n : 2 * figures[i] >= twice}) >= n

\* The panel of a conversation that is under way and the record that is filed of it
\* say the same of the same turns, which each works out for itself.
PanelAgrees ==
    LET Of(name) == [i \in DOMAIN s.page |-> s.page[i][name]]
        Agree(figures, values) ==
            IF figures = <<>> THEN Clean(values) = <<>>
            ELSE LET sorted == Sorted(figures)
                 IN  Summarize(values) =
                         [n |-> Len(sorted), medianTwice |-> MedianTwice(sorted),
                          p95 |-> Percentile(sorted, 95), min |-> sorted[1],
                          max |-> sorted[Len(sorted)]]
    IN  Agree(s.ttfas, Of("ttfa")) /\ Agree(s.stts, Of("stt"))
=============================================================================

------------------------------ MODULE Pricing ------------------------------
(***************************************************************************)
(* src/backend/src/pricing/rates.ts: from what a turn's leg reports to     *)
(* what it costs, or to the reason why it has no cost.                     *)
(*                                                                         *)
(* Rates are natural numbers and nothing is rounded; of the two currencies *)
(* a cost is given in, which differ by a factor, there is one.  A count    *)
(* that is not reported is 0, as priceLeg() reads it; a rate or a cost     *)
(* that is not there is Missing.  The table itself is the parameter Rates. *)
(***************************************************************************)
EXTENDS Integers

CONSTANTS
    Rates,  \* RATES: by provider, the rates of its models and its fallback
    Base    \* of a model id, what stands before its first '@'

Missing == -1
NoRate == [unit |-> "none"]

Or(x, y) == IF x = Missing THEN y ELSE x
Least(a, b) == IF a < b THEN a ELSE b
OrZero(a) == IF a > 0 THEN a ELSE 0

\* What a session reports of one leg.  Each breakdown is meant to lie inside its
\* total: cached and audioIn inside input, cachedAudio inside both of them.
Leg ==
    [kind : STRING, provider : STRING, model : STRING, unit : STRING,
     input : Nat, output : Nat, cached : Nat,
     audioIn : Nat, audioOut : Nat, cachedAudio : Nat,
     local : BOOLEAN,      \* source: counted here, not by the vendor
     reason : STRING,      \* unpricedReason, or "none"
     cost : Nat \cup {Missing}]

\* The rate of the model without its variant, of the model as it is spelt, or of
\* the vendor.
RateOf(entry, model) ==
    IF Base[model] \in DOMAIN entry.models THEN entry.models[Base[model]]
    ELSE IF model \in DOMAIN entry.models THEN entry.models[model]
    ELSE entry.fallback

RateFor(leg) ==
    IF leg.provider \in DOMAIN Rates THEN RateOf(Rates[leg.provider], leg.model)
    ELSE NoRate

\* The dated step: `until` is the last day before it.
Effective(rate, at) ==
    IF rate = NoRate \/ rate.until = Missing \/ at <= rate.until THEN rate
    ELSE [rate EXCEPT !.input = rate.step.input, !.output = rate.step.output,
                      !.cachedInput = rate.step.cachedInput]

IsSplit(rate) == rate.audioInput # Missing \/ rate.audioOutput # Missing

\* A breakdown that is larger than what it breaks down.
Contradicts(leg) ==
    \/ leg.audioIn > leg.input
    \/ leg.audioOut > leg.output
    \/ leg.cached > leg.input
    \/ leg.cachedAudio > Least(leg.cached, leg.audioIn)

Reason(leg, rate) ==
    IF leg.reason # "none" THEN leg.reason
    ELSE IF rate = NoRate THEN "no rate"
    ELSE IF rate.unit # leg.unit THEN "unit"
    ELSE IF leg.audioIn + leg.audioOut > 0 /\ ~IsSplit(rate) THEN "one price"
    ELSE IF Contradicts(leg) THEN "contradiction"
    ELSE "none"

\* Mutant: what was not said to be cached audio is taken to be cached text.
Split_RestIsText(leg) ==
    LET textIn == OrZero(leg.input - leg.audioIn)
        spoken == Least(leg.cachedAudio, Least(leg.cached, leg.audioIn))
        cachedText == OrZero(leg.cached - spoken)
    IN  [audio |-> leg.audioIn - spoken, cachedAudio |-> spoken,
         text |-> OrZero(textIn - cachedText), cachedText |-> cachedText]

\* The four classes the input tokens of a spoken turn are billed in.  The vendor
\* may not say how many of the cached ones are audio: the text takes what it can
\* hold, and the rest has to be audio.
Split(leg) ==
    LET textIn == OrZero(leg.input - leg.audioIn)
        spoken == Least(leg.cachedAudio, Least(leg.cached, leg.audioIn))
        cachedText == Least(OrZero(leg.cached - spoken), textIn)
        unallocated == leg.cached - spoken - cachedText
        cachedAudio == IF unallocated > 0 THEN Least(leg.audioIn, spoken + unallocated)
                       ELSE spoken
    IN  [audio |-> OrZero(leg.audioIn - cachedAudio), cachedAudio |-> cachedAudio,
         text |-> OrZero(textIn - cachedText), cachedText |-> cachedText]

SplitAmount(leg, rate) ==
    LET n == Split(leg)
        audioRate == Or(rate.audioInput, rate.input)
    IN  n.audio * audioRate
          + n.cachedAudio * Or(rate.cachedAudioInput, audioRate)
          + n.text * rate.input
          + n.cachedText * Or(rate.cachedInput, rate.input)
          + leg.audioOut * Or(rate.audioOutput, rate.output)
          + OrZero(leg.output - leg.audioOut) * rate.output

PlainAmount(leg, rate) ==
    OrZero(leg.input - leg.cached) * rate.input
      + leg.cached * Or(rate.cachedInput, rate.input)
      + leg.output * rate.output

Amount(leg, rate) ==
    IF IsSplit(rate) THEN SplitAmount(leg, rate) ELSE PlainAmount(leg, rate)

PriceLeg(leg, at) ==
    LET rate == Effective(RateFor(leg), at)
        reason == Reason(leg, rate)
    IN  [leg EXCEPT !.reason = reason,
                    !.cost = IF reason = "none" THEN Amount(leg, rate) ELSE Missing]
=============================================================================

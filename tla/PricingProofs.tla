---------------------------- MODULE PricingProofs ----------------------------
(***************************************************************************)
(* What holds of a priced leg for all counts and all rates: the tokens of  *)
(* a spoken turn are billed in one class each, an amount is an amount, and *)
(* what came from the cache is no reason to pay more.                      *)
(***************************************************************************)
EXTENDS Pricing, TLAPS

\* The split only lets through a leg whose breakdowns fit, as Reason sees to.
LEMMA PricedFits ==
    ASSUME NEW leg, NEW rate, Reason(leg, rate) = "none"
    PROVE  /\ ~Contradicts(leg)
           /\ leg.audioIn + leg.audioOut > 0 => IsSplit(rate)
  BY DEF Reason

LEMMA LegType ==
    ASSUME NEW leg \in Leg
    PROVE  /\ leg.input \in Nat /\ leg.output \in Nat /\ leg.cached \in Nat
           /\ leg.audioIn \in Nat /\ leg.audioOut \in Nat /\ leg.cachedAudio \in Nat
  BY DEF Leg

\* However many of the cached tokens the vendor calls audio, priceLeg() bills each
\* input token in exactly one class: the audio ones as audio, the others as text, the
\* cached ones as cached; and never fewer as cached audio than it was told of.
THEOREM SplitIsExact ==
    ASSUME NEW leg \in Leg, ~Contradicts(leg)
    PROVE  /\ Split(leg) \in [audio : Nat, cachedAudio : Nat, text : Nat, cachedText : Nat]
           /\ Split(leg).audio + Split(leg).cachedAudio = leg.audioIn
           /\ Split(leg).text + Split(leg).cachedText = leg.input - leg.audioIn
           /\ Split(leg).cachedAudio + Split(leg).cachedText = leg.cached
           /\ Split(leg).cachedAudio >= leg.cachedAudio
<1> DEFINE textIn == OrZero(leg.input - leg.audioIn)
           spoken == Least(leg.cachedAudio, Least(leg.cached, leg.audioIn))
           cachedText == Least(OrZero(leg.cached - spoken), textIn)
           unallocated == leg.cached - spoken - cachedText
           cachedAudio == IF unallocated > 0 THEN Least(leg.audioIn, spoken + unallocated)
                          ELSE spoken
<1>0. /\ leg.input \in Nat /\ leg.cached \in Nat
      /\ leg.audioIn \in Nat /\ leg.cachedAudio \in Nat
  BY LegType
<1>1. /\ textIn \in Nat /\ textIn = leg.input - leg.audioIn
      /\ spoken \in Nat /\ spoken = leg.cachedAudio
      /\ spoken <= leg.audioIn /\ spoken <= leg.cached /\ leg.cached <= leg.input
  BY <1>0 DEF Contradicts, OrZero, Least
<1> HIDE DEF textIn, spoken
<1>2. /\ cachedText \in Nat /\ cachedText <= textIn
      /\ cachedText = leg.cached - spoken \/ cachedText = textIn
      /\ unallocated \in Nat
      /\ spoken + unallocated <= leg.audioIn
  BY <1>0, <1>1 DEF OrZero, Least
<1>3. unallocated = leg.cached - spoken - cachedText
  OBVIOUS
<1> HIDE DEF cachedText, unallocated
<1>4. cachedAudio = spoken + unallocated
  BY <1>0, <1>1, <1>2 DEF Least
<1> HIDE DEF cachedAudio
<1>5. OrZero(leg.audioIn - cachedAudio) = leg.audioIn - cachedAudio
  BY <1>0, <1>1, <1>2, <1>4 DEF OrZero
<1>6. OrZero(textIn - cachedText) = textIn - cachedText
  BY <1>1, <1>2 DEF OrZero
<1>7. Split(leg) = [audio |-> leg.audioIn - cachedAudio, cachedAudio |-> cachedAudio,
                    text |-> textIn - cachedText, cachedText |-> cachedText]
  BY <1>5, <1>6 DEF Split, textIn, spoken, cachedText, unallocated, cachedAudio
<1>8. /\ cachedAudio \in Nat /\ leg.audioIn - cachedAudio \in Nat
      /\ textIn - cachedText \in Nat
  BY <1>0, <1>1, <1>2, <1>4
<1>9. cachedAudio + cachedText = leg.cached
  BY <1>0, <1>1, <1>2, <1>3, <1>4
<1>10. /\ (leg.audioIn - cachedAudio) + cachedAudio = leg.audioIn
       /\ (textIn - cachedText) + cachedText = leg.input - leg.audioIn
       /\ cachedAudio >= leg.cachedAudio
  BY <1>0, <1>1, <1>2, <1>4, <1>8
<1>11. /\ Split(leg).audio = leg.audioIn - cachedAudio
       /\ Split(leg).cachedAudio = cachedAudio
       /\ Split(leg).text = textIn - cachedText
       /\ Split(leg).cachedText = cachedText
  BY <1>7
<1>12. Split(leg) \in [audio : Nat, cachedAudio : Nat, text : Nat, cachedText : Nat]
  BY <1>2, <1>7, <1>8
<1> QED
  BY <1>9, <1>10, <1>11, <1>12

-----------------------------------------------------------------------------
\* A rate of tokens: a price in the table is not below zero, and of a dated step
\* nothing is left that matters here.
IsRate(rate) ==
    /\ rate.input \in Nat /\ rate.output \in Nat
    /\ rate.cachedInput \in Nat \cup {Missing}
    /\ rate.audioInput \in Nat \cup {Missing}
    /\ rate.audioOutput \in Nat \cup {Missing}
    /\ rate.cachedAudioInput \in Nat \cup {Missing}

LEMMA OrIsNat ==
    ASSUME NEW x \in Nat \cup {Missing}, NEW y \in Nat
    PROVE  Or(x, y) \in Nat
  BY DEF Or

LEMMA ProductIsNat ==
    ASSUME NEW x \in Nat, NEW y \in Nat
    PROVE  x * y \in Nat
  BY SMT

LEMMA OrZeroIsNat ==
    ASSUME NEW x \in Int
    PROVE  OrZero(x) \in Nat
  BY DEF OrZero

\* A leg that is priced has an amount, and never the mark that says it has none:
\* priceLeg() leaves out a cost exactly where it says why.
THEOREM CostOrReason ==
    ASSUME NEW leg \in Leg, NEW at,
           \A rate : rate = Effective(RateFor(leg), at) /\ rate # NoRate => IsRate(rate)
    PROVE  /\ PriceLeg(leg, at).reason = "none" => PriceLeg(leg, at).cost \in Nat
           /\ PriceLeg(leg, at).reason # "none" => PriceLeg(leg, at).cost = Missing
<1> DEFINE rate == Effective(RateFor(leg), at)
           reason == Reason(leg, rate)
<1>1. /\ PriceLeg(leg, at).reason = reason
      /\ PriceLeg(leg, at).cost = IF reason = "none" THEN Amount(leg, rate) ELSE Missing
  BY DEF PriceLeg, Leg
<1>2. ASSUME reason = "none"
      PROVE  Amount(leg, rate) \in Nat
  <2>1. rate # NoRate /\ ~Contradicts(leg)
    BY <1>2, PricedFits DEF Reason
  <2>2. IsRate(rate)
    BY <2>1
  <2> HIDE DEF rate
  <2>3. CASE IsSplit(rate)
    <3> DEFINE n == Split(leg)
               audioRate == Or(rate.audioInput, rate.input)
    <3>1. n.audio \in Nat /\ n.cachedAudio \in Nat /\ n.text \in Nat /\ n.cachedText \in Nat
      BY <2>1, SplitIsExact
    <3>2. audioRate \in Nat
      BY <2>2, OrIsNat DEF IsRate
    <3>3. Or(rate.cachedAudioInput, audioRate) \in Nat
      BY <2>2, <3>2, OrIsNat DEF IsRate
    <3>4. Or(rate.cachedInput, rate.input) \in Nat /\ Or(rate.audioOutput, rate.output) \in Nat
      BY <2>2, OrIsNat DEF IsRate
    <3>5. OrZero(leg.output - leg.audioOut) \in Nat
      BY LegType, OrZeroIsNat
    <3> HIDE DEF n, audioRate
    <3>6. /\ n.audio * audioRate \in Nat
          /\ n.cachedAudio * Or(rate.cachedAudioInput, audioRate) \in Nat
          /\ n.text * rate.input \in Nat
          /\ n.cachedText * Or(rate.cachedInput, rate.input) \in Nat
          /\ leg.audioOut * Or(rate.audioOutput, rate.output) \in Nat
          /\ OrZero(leg.output - leg.audioOut) * rate.output \in Nat
      BY <2>2, <3>1, <3>2, <3>3, <3>4, <3>5, LegType, ProductIsNat DEF IsRate
    <3>7. SplitAmount(leg, rate) \in Nat
      BY <3>6 DEF SplitAmount, n, audioRate
    <3> QED
      BY <2>3, <3>7 DEF Amount
  <2>4. CASE ~IsSplit(rate)
    <3>1. OrZero(leg.input - leg.cached) \in Nat
      BY LegType, OrZeroIsNat
    <3>2. Or(rate.cachedInput, rate.input) \in Nat
      BY <2>2, OrIsNat DEF IsRate
    <3>3. /\ OrZero(leg.input - leg.cached) * rate.input \in Nat
          /\ leg.cached * Or(rate.cachedInput, rate.input) \in Nat
          /\ leg.output * rate.output \in Nat
      BY <2>2, <3>1, <3>2, LegType, ProductIsNat DEF IsRate
    <3> QED
      BY <2>4, <3>3 DEF Amount, PlainAmount
  <2> QED
    BY <2>3, <2>4
<1> QED
  BY <1>1, <1>2

-----------------------------------------------------------------------------
\* Of some tokens a part is sold at a price that is no higher.
LEMMA Blend ==
    ASSUME NEW n \in Nat, NEW m \in Nat, NEW x \in Nat, NEW y \in Nat, y <= x
    PROVE  n * x + m * y <= (n + m) * x + 0 * y
<1>1. m * y <= m * x
  BY SMT
<1>2. n * x + m * x = (n + m) * x /\ 0 * y = 0
  BY SMT
<1>3. n * x \in Nat /\ m * y \in Nat /\ m * x \in Nat /\ (n + m) * x \in Nat
  BY ProductIsNat
<1> QED
  BY <1>1, <1>2, <1>3

\* Where the vendor sells cached tokens no dearer than others, of text and of audio, a
\* leg that took some of its input from the cache costs no more than the same leg
\* without a cache, in text or in speech and however the vendor says how much of it was
\* audio: "nine times the true cost" is what the split of rates.ts is there to rule out.
THEOREM CacheNeverDearer ==
    ASSUME NEW leg \in Leg, NEW rate, IsRate(rate), ~Contradicts(leg),
           Or(rate.cachedInput, rate.input) <= rate.input,
           Or(rate.cachedAudioInput, Or(rate.audioInput, rate.input))
              <= Or(rate.audioInput, rate.input)
    PROVE  Amount(leg, rate) <= Amount([leg EXCEPT !.cached = 0, !.cachedAudio = 0], rate)
<1> DEFINE cachedRate == Or(rate.cachedInput, rate.input)
           audioRate == Or(rate.audioInput, rate.input)
           cachedAudioRate == Or(rate.cachedAudioInput, audioRate)
           bare == [leg EXCEPT !.cached = 0, !.cachedAudio = 0]
<1>1. /\ leg.input \in Nat /\ leg.cached \in Nat /\ leg.output \in Nat
      /\ leg.audioIn \in Nat /\ leg.audioOut \in Nat
      /\ leg.cached <= leg.input /\ leg.audioIn <= leg.input /\ leg.audioOut <= leg.output
  BY LegType DEF Contradicts
<1>2. /\ bare \in Leg /\ bare.input = leg.input /\ bare.output = leg.output
      /\ bare.audioIn = leg.audioIn /\ bare.audioOut = leg.audioOut
      /\ bare.cached = 0 /\ bare.cachedAudio = 0
  BY DEF Leg
<1>3. /\ rate.input \in Nat /\ rate.output \in Nat /\ cachedRate \in Nat
      /\ audioRate \in Nat /\ cachedAudioRate \in Nat
      /\ Or(rate.audioOutput, rate.output) \in Nat
      /\ cachedRate <= rate.input /\ cachedAudioRate <= audioRate
  BY OrIsNat DEF IsRate
<1> HIDE DEF cachedRate, audioRate, cachedAudioRate, bare
<1>4. CASE ~IsSplit(rate)
  <2> DEFINE fresh == leg.input - leg.cached
  <2>1. /\ fresh \in Nat /\ fresh + leg.cached = leg.input
        /\ OrZero(leg.input - leg.cached) = fresh
        /\ OrZero(bare.input - bare.cached) = leg.input
    BY <1>1, <1>2 DEF OrZero
  <2> HIDE DEF fresh
  <2>2. fresh * rate.input + leg.cached * cachedRate <= leg.input * rate.input + 0 * cachedRate
    BY <1>1, <1>3, <2>1, Blend
  <2>3. /\ Amount(leg, rate) = fresh * rate.input + leg.cached * cachedRate
                                 + leg.output * rate.output
        /\ Amount(bare, rate) = leg.input * rate.input + 0 * cachedRate
                                  + leg.output * rate.output
    BY <1>2, <1>4, <2>1 DEF Amount, PlainAmount, cachedRate
  <2>4. /\ fresh * rate.input \in Nat /\ leg.cached * cachedRate \in Nat
        /\ leg.input * rate.input \in Nat /\ 0 * cachedRate \in Nat
        /\ leg.output * rate.output \in Nat
    BY <1>1, <1>3, <2>1, ProductIsNat
  <2> QED
    BY <2>2, <2>3, <2>4 DEF bare
<1>5. CASE IsSplit(rate)
  <2> DEFINE n == Split(leg)
             b == Split(bare)
             textOut == OrZero(leg.output - leg.audioOut)
             spoken == leg.audioOut * Or(rate.audioOutput, rate.output)
             written == textOut * rate.output
  <2>1. /\ n.audio \in Nat /\ n.cachedAudio \in Nat /\ n.text \in Nat /\ n.cachedText \in Nat
        /\ n.audio + n.cachedAudio = leg.audioIn
        /\ n.text + n.cachedText = leg.input - leg.audioIn
    BY SplitIsExact
  <2>2. ~Contradicts(bare)
    BY <1>1, <1>2 DEF Contradicts, Least
  <2>3. /\ b.audio \in Nat /\ b.cachedAudio \in Nat /\ b.text \in Nat /\ b.cachedText \in Nat
        /\ b.audio + b.cachedAudio = leg.audioIn
        /\ b.text + b.cachedText = leg.input - leg.audioIn
        /\ b.cachedAudio + b.cachedText = 0
    BY <1>2, <2>2, SplitIsExact
  <2> HIDE DEF n, b
  <2>4. /\ b.cachedAudio = 0 /\ b.cachedText = 0
        /\ b.audio = n.audio + n.cachedAudio /\ b.text = n.text + n.cachedText
    BY <1>1, <2>1, <2>3
  <2>5. n.audio * audioRate + n.cachedAudio * cachedAudioRate
          <= b.audio * audioRate + b.cachedAudio * cachedAudioRate
    BY <1>3, <2>1, <2>4, Blend
  <2>6. n.text * rate.input + n.cachedText * cachedRate
          <= b.text * rate.input + b.cachedText * cachedRate
    BY <1>3, <2>1, <2>4, Blend
  <2>7. textOut \in Nat
    BY <1>1, OrZeroIsNat
  <2>8. spoken \in Nat /\ written \in Nat
    BY <1>1, <1>3, <2>7, ProductIsNat
  <2>9. Amount(leg, rate) = n.audio * audioRate + n.cachedAudio * cachedAudioRate
                              + n.text * rate.input + n.cachedText * cachedRate
                              + spoken + written
    BY <1>5 DEF Amount, SplitAmount, n, audioRate, cachedAudioRate, cachedRate
  <2>10. Amount(bare, rate) = b.audio * audioRate + b.cachedAudio * cachedAudioRate
                                + b.text * rate.input + b.cachedText * cachedRate
                                + spoken + written
    BY <1>2, <1>5 DEF Amount, SplitAmount, b, audioRate, cachedAudioRate, cachedRate
  <2>11. /\ n.audio * audioRate \in Nat /\ n.cachedAudio * cachedAudioRate \in Nat
         /\ n.text * rate.input \in Nat /\ n.cachedText * cachedRate \in Nat
         /\ b.audio * audioRate \in Nat /\ b.cachedAudio * cachedAudioRate \in Nat
         /\ b.text * rate.input \in Nat /\ b.cachedText * cachedRate \in Nat
    BY <1>3, <2>1, <2>3, ProductIsNat
  <2> HIDE DEF spoken, written
  <2> QED
    BY <2>5, <2>6, <2>8, <2>9, <2>10, <2>11 DEF bare
<1> QED
  BY <1>4, <1>5
=============================================================================

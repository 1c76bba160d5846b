----------------------------- MODULE ScoreRubrics ------------------------------
(* Scores from graded readings: the rubric the three axes share               *)
(* (screening/axes.py), claim trust and the founder score                     *)
(* (screening/rubrics.py), and the two reads of a founder                     *)
(* (screening/founder_reads.py).  What is not known moves nothing.            *)
EXTENDS Integers, Sequences, SequencesExt, FiniteSetsExt, TLC

(* The axes.  A signal carries a reading of -3..3 points, or none when it is  *)
(* not known, and the claims behind it; a trend point carries the day it was  *)
(* observed and a position.                                                   *)
Levels == <<"low", "medium", "high">>
NotKnown == 99
Points == -3..3

(* The places of the present readings; any other contributes nothing.         *)
Present(signals) == {i \in DOMAIN signals : signals[i].reading # NotKnown}

PositiveSumAbsenceCountsBug(signals) ==
  SumFunction([i \in DOMAIN signals |-> IF signals[i].reading > 0 THEN 1 ELSE 0])

PositiveSum(signals) ==
  SumFunction([i \in Present(signals) |-> IF signals[i].reading > 0 THEN signals[i].reading ELSE 0])

NegativeSum(signals) ==
  SumFunction([i \in Present(signals) |-> IF signals[i].reading < 0 THEN -signals[i].reading ELSE 0])

HasSufficientSignals(count, level) == count >= IF level = "low" THEN 3 ELSE 2

PositionFromTotals(positive, negative) ==
  CASE positive - negative >= 3 /\ negative <= 1 -> "strong_positive"
    [] positive - negative <= -3 /\ positive <= 1 -> "negative"
    [] OTHER -> "mixed"

PositionCondemnsThinlyBug(signals, level) ==
  IF ~HasSufficientSignals(Cardinality(Present(signals)), level) THEN "unknown"
  ELSE PositionFromTotals(PositiveSum(signals), NegativeSum(signals))

(* Too few readings assert nothing, and thin coverage may never condemn.      *)
Position(signals, level) ==
  LET position == PositionFromTotals(PositiveSum(signals), NegativeSum(signals)) IN
  IF \/ ~HasSufficientSignals(Cardinality(Present(signals)), level)
     \/ position = "negative" /\ level = "low"
  THEN "unknown" ELSE position

Ordinal == [negative |-> -1, mixed |-> 0, strong_positive |-> 1]

DeriveTrendUnsortedBug(points) ==
  LET directional == SelectSeq(points, LAMBDA p : p.position # "unknown") IN
  IF Len(directional) < 2 THEN "unknown"
  ELSE LET change == Ordinal[Last(directional).position] - Ordinal[Head(directional).position]
       IN IF change > 0 THEN "improving" ELSE IF change < 0 THEN "declining" ELSE "stable"

(* The earliest directional observation against the latest; on one day the    *)
(* lower ordinal comes first.                                                 *)
DeriveTrend(points) ==
  LET places == {i \in DOMAIN points : points[i].position # "unknown"}
      directional == {points[i] : i \in places}
      Before(p, q) == \/ p.day < q.day
                      \/ p.day = q.day /\ Ordinal[p.position] < Ordinal[q.position]
      earliest == CHOOSE p \in directional : \A q \in directional : ~Before(q, p)
      latest   == CHOOSE p \in directional : \A q \in directional : ~Before(p, q)
      change   == Ordinal[latest.position] - Ordinal[earliest.position]
  IN IF Cardinality(places) < 2 THEN "unknown"
     ELSE IF change > 0 THEN "improving" ELSE IF change < 0 THEN "declining" ELSE "stable"

(* The product of the coverage, agreement, evidence and consistency factors,  *)
(* in hundredths, rounded; -1 stands for the explicit unknown of no reading.  *)
Confidence(signals, level, conflicted) ==
  LET count    == Cardinality(Present(signals))
      positive == PositiveSum(signals)
      negative == NegativeSum(signals)
      total    == positive + negative
      coverage == CASE level = "low" -> 30 [] level = "medium" -> 65 [] level = "high" -> 100
      agreed   == IF total = 0 THEN 1 ELSE Max({positive, negative})
      whole    == IF total = 0 THEN 1 ELSE total
      scaled   == coverage * agreed * Min({count, 3}) * (IF conflicted THEN 7 ELSE 10)
  IN IF count = 0 THEN -1 ELSE (2 * scaled + 30 * whole) \div (60 * whole)

(* A reading's claims support the axis or counter it; one on both sides is    *)
(* refused.                                                                   *)
Supporting(signals) == UNION {signals[i].claims : i \in {j \in Present(signals) : signals[j].reading > 0}}
Counter(signals) == UNION {signals[i].claims : i \in {j \in Present(signals) : signals[j].reading < 0}}
Refused(signals) == Supporting(signals) \cap Counter(signals) # {}

OpenQuestions(signals, level, points, conflicted) ==
  (IF Position(signals, level) # "unknown" THEN {}
     ELSE IF Present(signals) = {} THEN {<<"no signals">>} ELSE {<<"thin coverage">>})
    \cup {<<"assess", i>> : i \in {j \in DOMAIN signals : signals[j].reading = NotKnown}}
    \cup (IF DeriveTrend(points) = "unknown" THEN {<<"trend">>} ELSE {})
    \cup (IF conflicted THEN {<<"reconcile">>} ELSE {})

ComputeAxis(signals, level, points, conflicted) ==
  [position |-> Position(signals, level),
   trend |-> DeriveTrend(points),
   confidence |-> Confidence(signals, level, conflicted),
   supporting |-> Supporting(signals),
   counter |-> Counter(signals),
   questions |-> OpenQuestions(signals, level, points, conflicted)]

(* Each axis reads its own inputs and has its own words for a position.       *)
FounderRating == [strong_positive |-> "strong", mixed |-> "mixed",
                  negative |-> "weak", unknown |-> "unknown"]
MarketRating == [strong_positive |-> "bullish", mixed |-> "neutral",
                 negative |-> "bear", unknown |-> "unknown"]
IdeaVsMarketRating == [strong_positive |-> "viable", mixed |-> "pivotable",
                       negative |-> "weak", unknown |-> "unknown"]

-----------------------------------------------------------------------------
(* Claim trust and the founder score.                                         *)
Clamped(score) == Max({0, Min({100, score})})

-----------------------------------------------------------------------------
(* Claim trust: six factor kinds, each strengthening, neutral or weakening.   *)
Signals == {"strengthens", "neutral", "weakens", "unknown"}
TrustRaises == [provenance |-> 8, independence |-> 10, recency |-> 6,
            extraction_certainty |-> 6, corroboration |-> 12, contradiction |-> 0]
TrustLowers == [provenance |-> 8, independence |-> 6, recency |-> 6,
            extraction_certainty |-> 8, corroboration |-> 0, contradiction |-> 20]
TrustKinds == DOMAIN TrustRaises

TrustDelta(kind, signal) ==
  CASE signal = "strengthens" -> TrustRaises[kind]
    [] signal = "weakens" -> -TrustLowers[kind]
    [] OTHER -> 0

TrustStateNeutralBug(signals, supported, blocked) ==
  IF ~supported THEN "unsupported" ELSE IF blocked THEN "unscored" ELSE "scored"

(* The state is chosen before any number is produced.                         *)
TrustState(signals, supported, blocked) ==
  IF ~supported THEN "unsupported"
  ELSE IF blocked \/ \A k \in TrustKinds : signals[k] = "unknown" THEN "unscored"
  ELSE "scored"

NoScore == -1
ScoreClaimTrust(signals, supported, blocked) ==
  IF TrustState(signals, supported, blocked) # "scored" THEN NoScore
  ELSE Clamped(50 + SumFunction([k \in TrustKinds |-> TrustDelta(k, signals[k])]))

TrustBand(score) ==
  CASE score < 25 -> "very_low" [] score \in 25..44 -> "low" [] score \in 45..59 -> "moderate"
    [] score \in 60..79 -> "high" [] OTHER -> "very_high"

-----------------------------------------------------------------------------
(* The founder score: weighted factors over a baseline of 50.                 *)
CostlyPositive ==
  [shipped_adopted_work |-> 18, corroborated_domain_experience |-> 12,
   sustained_follow_through |-> 12, peer_validated_recognition |-> 10, work_product_quality |-> 10]
Positive ==
  [f \in DOMAIN CostlyPositive \cup {"public_writing_depth"} |->
     IF f \in DOMAIN CostlyPositive THEN CostlyPositive[f] ELSE 6]
Negative == [verified_negative_signal |-> 18]
Context == {"follower_reach", "institutional_pedigree", "presentation_polish", "team_size"}
FounderFactors == DOMAIN Positive \cup DOMAIN Negative \cup Context

EffectiveTierUnevidencedBug(factor, observation) ==
  IF ~observation.known THEN "absent" ELSE observation.tier

(* Absence, ignorance and an unevidenced accusation all weigh nothing.        *)
EffectiveTier(factor, observation) ==
  IF \/ ~observation.known
     \/ factor \in DOMAIN Negative /\ ~observation.evidenced
  THEN "absent" ELSE observation.tier

Share(weight, tier) ==
  CASE tier = "full" -> weight [] tier = "partial" -> weight \div 2 [] tier = "absent" -> 0

Contribution(factor, observations) ==
  IF factor \notin DOMAIN observations \/ factor \in Context THEN 0
  ELSE LET tier == EffectiveTier(factor, observations[factor])
       IN IF factor \in DOMAIN Negative THEN -Share(Negative[factor], tier)
          ELSE Share(Positive[factor], tier)

CostlyPresent(observations) ==
  {f \in DOMAIN CostlyPositive : Contribution(f, observations) > 0}

(* Coverage decides how sure the snapshot is, never the score itself.         *)
Uncertainty(observations, level, conflicted) ==
  LET base == CASE level = "low" -> 3 [] level = "medium" -> 2 [] level = "high" -> 1
  IN IF conflicted \/ CostlyPresent(observations) = {} THEN Min({3, base + 1}) ELSE base

ScoreFounder(observations, level, conflicted) ==
  [score |-> Clamped(50 + SumFunction([f \in FounderFactors |-> Contribution(f, observations)])),
   uncertainty |-> Uncertainty(observations, level, conflicted),
   provisional |-> \/ level = "low"
                   \/ conflicted
                   \/ Cardinality(CostlyPresent(observations)) < 2]

FounderBand(score) ==
  CASE score < 35 -> "weak" [] score \in 35..49 -> "below_baseline"
    [] score \in 50..59 -> "baseline" [] score \in 60..74 -> "moderate" [] OTHER -> "strong"

-----------------------------------------------------------------------------
(* Two readings of the same graded observations, of what a founder has built  *)
(* and of what investors reward.  Scores are in hundredths of a point.        *)
Grades == <<"self_asserted", "corroborated", "outcome_backed">>
GradeFlatBug == [self_asserted |-> 6, corroborated |-> 6, outcome_backed |-> 10]

(* Tenths of a contribution that each grade of evidence is worth.             *)
Grade == [self_asserted |-> 3, corroborated |-> 6, outcome_backed |-> 10]
Halves == [full |-> 2, partial |-> 1, absent |-> 0]

BuilderWeightsVanityBug ==
  [f \in FounderFactors |-> IF f \in DOMAIN Positive THEN Positive[f]
                            ELSE IF f \in DOMAIN Negative THEN Negative[f] ELSE 2]

(* What was built: the taxonomy's own weights, nothing for the context.       *)
BuilderWeights ==
  [f \in FounderFactors |-> IF f \in DOMAIN Positive THEN Positive[f]
                            ELSE IF f \in DOMAIN Negative THEN Negative[f] ELSE 0]

(* What investors reward: pedigree, polish and reach, and no craft.           *)
FundabilityWeights ==
  [shipped_adopted_work |-> 14, corroborated_domain_experience |-> 6,
   sustained_follow_through |-> 0, peer_validated_recognition |-> 8,
   work_product_quality |-> 0, public_writing_depth |-> 0,
   follower_reach |-> 10, institutional_pedigree |-> 16,
   presentation_polish |-> 12, team_size |-> 8, verified_negative_signal |-> 18]

(* Observations of unknown factors, or two of one factor, are refused.        *)
IndexObservations(observations) ==
  /\ \A i \in DOMAIN observations : observations[i].factor \in FounderFactors
  /\ \A i, j \in DOMAIN observations : observations[i].factor = observations[j].factor => i = j

(* Every weight is even, so a contribution is a whole number of tenths and    *)
(* the rounding of the code changes nothing.                                  *)
GradedContribution(o, weights) ==
  IF ~o.known \/ (o.factor \in DOMAIN Negative /\ ~o.evidenced) THEN 0
  ELSE LET magnitude == 5 * weights[o.factor] * Halves[o.tier] * Grade[o.grade]
       IN IF o.factor \in DOMAIN Negative THEN -magnitude ELSE magnitude

Hundredths(score) == Max({0, Min({10000, score})})
FounderRead(kind, weights, observations) ==
  LET total == 5000 + SumFunction([i \in DOMAIN observations |->
                                     GradedContribution(observations[i], weights)])
  IN [kind |-> kind, score |-> Hundredths(total), band |-> FounderBand(Hundredths(total) \div 100),
      counted |-> {observations[i].factor : i \in
                     {j \in DOMAIN observations : GradedContribution(observations[j], weights) # 0}}]

BuilderSignalRead(observations) == FounderRead("builder_signal", BuilderWeights, observations)
FundabilityRead(observations) == FounderRead("fundability", FundabilityWeights, observations)

(* The signed gap, which never blends the two readings.                       *)
BuilderFundabilityGap(builder, fundability) ==
  LET gap == builder.score - fundability.score IN
  [builder |-> builder.score, fundability |-> fundability.score, gap |-> gap,
   label |-> CASE gap > 1500 -> "under_networked_strong_builder"
               [] gap < -1500 -> "substance_light_but_fundable"
               [] OTHER -> "aligned"]
=============================================================================

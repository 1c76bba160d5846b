---------------------------- MODULE ConfidenceBand ----------------------------
(* The band around repeated scores, the identity-swap check and the           *)
(* calibration report: screening/confidence.py.  Samples are whole scores of  *)
(* 0..100 and coverage is in tenths; inside, a score is counted in twentieths *)
(* so that the 80% interval of a few samples is exact.                        *)
EXTENDS Integers, Sequences, SequencesExt, FiniteSetsExt

Unit == 20
Top == 100 * Unit
Within(value, low, high) == Min({high, Max({low, value})})
Distance(a, b) == Max({a - b, b - a})

(* In order: the kth is the least of which k samples are at most.             *)
AtMost(samples, value) == Cardinality({i \in DOMAIN samples : samples[i] <= value})
Sorted(samples) ==
  [k \in DOMAIN samples |-> Min({value \in Range(samples) : k <= AtMost(samples, value)})]

(* The linear percentile at tenths/10, in tenths of a score.                  *)
Percentile(sorted, tenths) ==
  LET position == tenths * (Len(sorted) - 1)
      low      == position \div 10 + 1
      high     == (position + 9) \div 10 + 1
  IN 10 * sorted[low] + (sorted[high] - sorted[low]) * (position % 10)

(* Half the width of the central 80% of the samples.                          *)
SampleSpread(sorted) ==
  IF Len(sorted) < 2 THEN 0 ELSE Percentile(sorted, 9) - Percentile(sorted, 1)

Median(sorted) ==
  LET n == Len(sorted)
  IN (Unit \div 2) * (sorted[(n + 1) \div 2] + sorted[n \div 2 + 1])

QuantizeDown(value) == Unit * (value \div Unit)
QuantizeUp(value) == -QuantizeDown(-value)

Abstentions(count, coverage) ==
  (CASE count = 0 -> {"no_samples"} [] count \in 1..2 -> {"too_few_samples"} [] OTHER -> {})
    \cup (IF coverage < 5 THEN {"coverage_below_threshold"} ELSE {})

NoEstimate == -1

HalfWidthInvertedBug(sorted, coverage) ==
  SampleSpread(sorted) + 15 * coverage * (Unit \div 10) + 3 * Max({0, 5 - Len(sorted)}) * Unit

(* Thin coverage and few samples widen the band; the point never moves.       *)
HalfWidth(sorted, coverage) ==
  SampleSpread(sorted) + 15 * (10 - coverage) * (Unit \div 10)
    + 3 * Max({0, 5 - Len(sorted)}) * Unit

(* Dispersion, divergence from the snap read, coverage and sample count: each *)
(* can only pull the confidence, in hundredths, down.                         *)
BandConfidence(sorted, snap, coverage) ==
  LET steady == 400 - Min({400, SampleSpread(sorted)})
      agreed == IF snap = NoEstimate THEN 800
                ELSE 800 - Min({800, Distance(snap * Unit, Median(sorted))})
      scaled == steady * agreed * coverage * Min({5, Len(sorted)})
  IN (scaled + 80000) \div 160000

EstimateBand(samples, snap, coverage) ==
  LET sorted == Sorted(samples)
      center == Within(Median(sorted), 0, Top)
      lower  == Within(QuantizeDown(center - HalfWidth(sorted, coverage)), 0, Top)
      upper  == Within(QuantizeUp(center + HalfWidth(sorted, coverage)), 0, Top)
      codes  == Abstentions(Len(samples), coverage)
  IN IF samples = <<>>
     THEN [point |-> NoEstimate, lower |-> NoEstimate, upper |-> NoEstimate,
           confidence |-> 0, abstained |-> codes]
     ELSE [point |-> center, lower |-> Min({lower, center}), upper |-> Max({upper, center}),
           confidence |-> BandConfidence(sorted, snap, coverage), abstained |-> codes]

-----------------------------------------------------------------------------
(* Identity swap: how far the median moves; more than five points is bias.    *)
BiasCheck(baseline, swapped) ==
  IF baseline = <<>> \/ swapped = <<>>
  THEN [comparable |-> FALSE, shift |-> 0, biased |-> FALSE]
  ELSE LET shift == Median(Sorted(swapped)) - Median(Sorted(baseline))
       IN [comparable |-> TRUE, shift |-> shift, biased |-> Distance(shift, 0) > 5 * Unit]

-----------------------------------------------------------------------------
(* Calibration: an entry is [subgroup, confidence in tenths, outcome 0 or 1]. *)
BinCount == 5
BinIndexOverflowBug(confidence) == (confidence * BinCount) \div 10

BinIndex(confidence) == Min({BinCount - 1, (confidence * BinCount) \div 10})

Gap(members) ==
  Distance(FoldLeft(LAMBDA t, e : t + e.confidence, 0, members),
           10 * FoldLeft(LAMBDA t, e : t + e.outcome, 0, members))

(* One subgroup, errors as sums over its members: each non-empty bin's gap,   *)
(* and the whole subgroup's.                                                  *)
CalibrateSubgroup(members, least) ==
  LET Bin(b) == SelectSeq(members, LAMBDA e : BinIndex(e.confidence) = b)
      used   == {b \in 0..(BinCount - 1) : Bin(b) # <<>>}
  IN [size |-> Len(members),
      bins |-> [b \in used |-> Len(Bin(b))],
      error |-> FoldSet(LAMBDA b, t : t + Gap(Bin(b)), 0, used),
      gap |-> Gap(members),
      sufficient |-> Len(members) >= least]

CalibrationReport(entries, least) ==
  [s \in {e.subgroup : e \in Range(entries)} |->
     CalibrateSubgroup(SelectSeq(entries, LAMBDA e : e.subgroup = s), least)]

-----------------------------------------------------------------------------
(* The harness that scores past predictions: screening/evaluation.py.  A      *)
(* record without a realised outcome is pending and sits out every metric.    *)
Pending == -1
NoBand == <<>>

(* An inverted band or half an outcome is refused at the boundary.            *)
WellFormed(records) ==
  \A r \in Range(records) :
    /\ r.band = NoBand \/ r.band[1] <= r.band[2]
    /\ (r.outcome = Pending) = (r.success = Pending)

ResolveAllBug(records) == records

Resolve(records) == SelectSeq(records, LAMBDA r : r.outcome # Pending)

(* Kendall's tau-b from its pair counts; the coefficient is                   *)
(* (concordant - discordant) over the root of the product of the two factors, *)
(* and is undefined when a variable does not vary.                            *)
RankAgreement(xs, ys) ==
  LET pairs == {p \in (DOMAIN xs) \X (DOMAIN xs) : p[1] < p[2]}
      Dx(p) == xs[p[1]] - xs[p[2]]
      Dy(p) == ys[p[1]] - ys[p[2]]
      Count(Test(_)) == Cardinality({p \in pairs : Test(p)})
      c  == Count(LAMBDA p : Dx(p) # 0 /\ Dy(p) # 0 /\ (Dx(p) > 0) = (Dy(p) > 0))
      d  == Count(LAMBDA p : Dx(p) # 0 /\ Dy(p) # 0 /\ (Dx(p) > 0) # (Dy(p) > 0))
      tx == Count(LAMBDA p : Dx(p) = 0 /\ Dy(p) # 0)
      ty == Count(LAMBDA p : Dx(p) # 0 /\ Dy(p) = 0)
  IN [concordant |-> c, discordant |-> d, tied_predicted |-> tx, tied_outcome |-> ty,
      tied_both |-> Count(LAMBDA p : Dx(p) = 0 /\ Dy(p) = 0),
      defined |-> c + d + ty # 0 /\ c + d + tx # 0,
      factors |-> (c + d + ty) * (c + d + tx)]

Scores(resolved) == [i \in DOMAIN resolved |-> resolved[i].score]
Outcomes(resolved) == [i \in DOMAIN resolved |-> resolved[i].outcome]

BandCoverageMissBug(resolved) ==
  LET hits == SelectSeq(resolved, LAMBDA r : r.band # NoBand /\ r.band[1] <= r.outcome
                                               /\ r.outcome <= r.band[2])
  IN [covered |-> Len(hits), with_band |-> Len(resolved), without_band |->
        Len(SelectSeq(resolved, LAMBDA r : r.band = NoBand))]

(* A record without a band is counted apart, never as a miss.                 *)
BandCoverage(resolved) ==
  LET banded == SelectSeq(resolved, LAMBDA r : r.band # NoBand)
      hits   == SelectSeq(banded, LAMBDA r : r.band[1] <= r.outcome /\ r.outcome <= r.band[2])
  IN [covered |-> Len(hits), with_band |-> Len(banded),
      without_band |-> Len(resolved) - Len(banded)]

(* The system and a baseline ranked over the same subset.                     *)
BaselineLift(resolved, baseline) ==
  LET subset == SelectSeq(resolved, LAMBDA r : r.subject \in DOMAIN baseline)
      naive  == [i \in DOMAIN subset |-> baseline[subset[i].subject]]
  IN [compared |-> Len(subset), without_baseline |-> Len(resolved) - Len(subset),
      baseline |-> RankAgreement(naive, Outcomes(subset)),
      system |-> RankAgreement(Scores(subset), Outcomes(subset))]

SubgroupEvaluations(resolved, least) ==
  [s \in {r.subgroup : r \in Range(resolved)} |->
     LET members == SelectSeq(resolved, LAMBDA r : r.subgroup = s)
     IN [size |-> Len(members), sufficient |-> Len(members) >= least,
         rank |-> RankAgreement(Scores(members), Outcomes(members)),
         coverage |-> BandCoverage(members)]]

EvaluatePredictions(records, baseline, least) ==
  LET resolved == Resolve(records)
  IN [total |-> Len(records), evaluable |-> Len(resolved),
      excluded |-> Len(records) - Len(resolved),
      rank |-> RankAgreement(Scores(resolved), Outcomes(resolved)),
      coverage |-> BandCoverage(resolved),
      calibration |-> CalibrationReport([i \in DOMAIN resolved |->
                         [subgroup |-> resolved[i].subgroup, outcome |-> resolved[i].success,
                          confidence |-> resolved[i].confidence]], least),
      lift |-> BaselineLift(resolved, baseline),
      subgroups |-> SubgroupEvaluations(resolved, least)]
=============================================================================

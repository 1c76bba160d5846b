---------------------------- MODULE AssessmentCases ----------------------------
(* Cases of the rubrics, of the reads and verdicts made of them, and of the   *)
(* evaluation harness.                                                        *)
EXTENDS RuleCases, ScreeningBridge

-----------------------------------------------------------------------------
(* The axis rubric: at most three signals and one more, and dated positions.  *)
Signal == [reading : {NotKnown, -3, -1, 0, 1, 3}, claims : {{}, {"c"}}]
SignalsUpTo(n) == UNION {[1..k -> Signal] : k \in 0..n}
TrendPoint == [day : 1..2, position : {"negative", "mixed", "strong_positive", "unknown"}]

RateAnAxis ==
  /\ Fresh
  /\ \E signals \in SignalsUpTo(2) : \E extra \in Signal :
       Pick([kind |-> "axis", signals |-> signals, extra |-> extra])
FollowATrend ==
  /\ Fresh
  /\ \E points \in [1..3 -> TrendPoint] : Pick([kind |-> "trend", points |-> points])

Mirror(signals) ==
  [i \in DOMAIN signals |->
     [signals[i] EXCEPT !.reading = IF @ = NotKnown THEN @ ELSE -@]]
Opposite == [negative |-> "strong_positive", mixed |-> "mixed",
             strong_positive |-> "negative", unknown |-> "unknown"]

AxisIsFair(signals, extra) ==
  LET more == Append(signals, extra)
      At(given, level) == ComputeAxis(given, level, <<>>, FALSE)
  IN /\ At(more, "low").position # "negative"
     /\ \A level \in Range(Levels) :
          /\ extra.reading = NotKnown =>
               /\ At(more, level).position = At(signals, level).position
               /\ At(more, level).confidence = At(signals, level).confidence
               /\ <<"assess", Len(more)>> \in At(more, level).questions
          /\ extra.reading \in 1..3 =>
               (At(more, level).position = "negative" => At(signals, level).position = "negative")
          /\ extra.reading \in -3..-1 /\ At(signals, level).position # "unknown" =>
               (At(more, level).position = "strong_positive"
                  => At(signals, level).position = "strong_positive")
          /\ ComputeAxis(more, level, <<>>, TRUE).confidence <= At(more, level).confidence
     /\ At(more, "low").confidence <= At(more, "medium").confidence
     /\ At(more, "medium").confidence <= At(more, "high").confidence
     /\ At(Mirror(more), "high").position = Opposite[At(more, "high").position]

TrendIsFair(points) ==
  LET trend == DeriveTrend(points)
      later == Last(points)
  IN /\ trend = DeriveTrend(Reverse(points))
     /\ later.position = "unknown" => trend = DeriveTrend(Front(points))
     /\ trend \in {"improving", "declining"} =>
          \E p, q \in Range(points) : {p.position, q.position} \subseteq DOMAIN Ordinal
                                      /\ p.position # q.position
     /\ Cardinality({i \in DOMAIN points : points[i].position # "unknown"}) < 2 => trend = "unknown"

-----------------------------------------------------------------------------
(* Claim trust and the founder score.                                         *)
TrustAClaim ==
  /\ Fresh
  /\ \E signals \in [TrustKinds -> Signals] :
       /\ signals.recency = signals.provenance   \* the same weights, near enough
       /\ signals.extraction_certainty = signals.provenance
       /\ Pick([kind |-> "trust", signals |-> signals])

Observation(tier, known, evidenced) == [tier |-> tier, known |-> known, evidenced |-> evidenced]
ScoreAFounder ==
  /\ Fresh
  /\ \E seen \in SUBSET DOMAIN Positive, half \in SUBSET {"shipped_adopted_work"},
        accusation \in [tier : {"full"}, known : BOOLEAN, evidenced : BOOLEAN],
        level \in {"low", "medium"} :
       Pick([kind |-> "founder", level |-> level,
             observations |-> [f \in seen |-> Observation(IF f \in half THEN "partial" ELSE "full",
                                                         TRUE, TRUE)]
                                @@ ("verified_negative_signal" :> accusation)])

TrustIsFair(signals) ==
  LET score == ScoreClaimTrust(signals, TRUE, FALSE)
      Learn(k, s) == ScoreClaimTrust([signals EXCEPT ![k] = s], TRUE, FALSE)
  IN /\ (score = NoScore) = (\A k \in TrustKinds : signals[k] = "unknown")
     /\ NoScore \in {score} \/ score \in 0..100
     /\ score # NoScore => \A k \in TrustKinds :
          /\ signals[k] = "unknown" => /\ Learn(k, "strengthens") >= score
                                       /\ Learn(k, "neutral") = score
                                       /\ Learn(k, "weakens") <= score
          /\ signals[k] # "weakens" \/ Learn(k, "unknown") \in {NoScore} \cup score..100
     /\ ScoreClaimTrust(signals, FALSE, FALSE) = NoScore
     /\ ScoreClaimTrust(signals, TRUE, TRUE) = NoScore

FounderIsFair(observations, level) ==
  LET snapshot == ScoreFounder(observations, level, FALSE)
      Without(f) == ScoreFounder([g \in DOMAIN observations \ {f} |-> observations[g]], level, FALSE)
      accusation == observations["verified_negative_signal"]
  IN /\ snapshot.score < 50 => accusation.known /\ accusation.evidenced
     /\ (FounderBand(snapshot.score) \in {"weak", "below_baseline"}) = (snapshot.score < 50)
     /\ \A f \in DOMAIN observations \ DOMAIN Negative :
          /\ Without(f).score <= snapshot.score
          /\ Without(f).uncertainty >= snapshot.uncertainty
          /\ ~Without(f).provisional => ~snapshot.provisional
     /\ ScoreFounder(observations, level, TRUE).provisional
     /\ ScoreFounder(observations, level, TRUE).score = snapshot.score

-----------------------------------------------------------------------------
(* The confidence band, with and without a snap read.                         *)
EstimateABand ==
  /\ Fresh
  /\ \E n \in 0..4 : \E samples \in [1..n -> {0, 10, 50, 55, 100}], snap \in {NoEstimate, 40} :
       Pick([kind |-> "band", samples |-> samples, snap |-> snap])

BandIsHonest(samples, snap) ==
  \A coverage \in {0, 4, 5, 10} :
    LET band == EstimateBand(samples, snap, coverage)
        rich == EstimateBand(samples, snap, 10)
    IN /\ band = EstimateBand(Reverse(samples), snap, coverage)
       /\ band.point = rich.point
       /\ band.confidence \in 0..100 /\ band.confidence <= rich.confidence
       /\ samples = <<>> \/ /\ 0 <= band.lower /\ band.upper <= Top
                            /\ band.lower <= rich.lower /\ rich.upper <= band.upper
                            /\ band.lower <= band.point /\ band.point <= band.upper
       /\ (band.abstained = {}) = (Len(samples) >= 3 /\ coverage >= 5)
       /\ band.confidence > 0 => samples # <<>> /\ coverage > 0
       /\ BiasCheck(samples, <<50>>).biased = BiasCheck(<<50>>, samples).biased

(* Absence is never held against anyone: a missing, unknown or unevidenced    *)
(* read moves no score, position or confidence; thin coverage never condemns  *)
(* and only widens what is claimed; no number is given where nothing          *)
(* supports one; and the order of the inputs does not matter.                 *)
RatingsAreFair ==
  CASE case.kind = "axis" -> AxisIsFair(case.signals, case.extra)
    [] case.kind = "trend" -> TrendIsFair(case.points)
    [] case.kind = "trust" -> TrustIsFair(case.signals)
    [] case.kind = "founder" -> FounderIsFair(case.observations, case.level)
    [] case.kind = "band" -> BandIsHonest(case.samples, case.snap)
    [] OTHER -> TRUE

-----------------------------------------------------------------------------
(* The evaluation harness: at most three predictions in two subgroups.        *)
Prediction == [score : {10, 60}, confidence : {2, 10}, subgroup : {"g", "h"},
               outcome : {Pending, 10, 60}]
EvaluateAll ==
  /\ Fresh
  /\ \E n \in 0..3 : \E made \in [1..n -> Prediction] :
       /\ \A i \in 1..(n - 1) : made[i].subgroup = "g"
       /\ Pick([kind |-> "evaluation",
             records |-> [i \in 1..n |->
                [subject |-> i, score |-> made[i].score, confidence |-> made[i].confidence,
                 subgroup |-> made[i].subgroup, outcome |-> made[i].outcome,
                 band |-> IF i = 1 THEN NoBand ELSE <<0, 20>>,
                 success |-> CASE made[i].outcome = Pending -> Pending
                               [] made[i].outcome = 60 -> 1 [] OTHER -> 0]]])

(* A pending prediction changes no metric and no other one is left out; the   *)
(* pair counts are all the pairs and keep tau within its bounds; the order of *)
(* the records does not matter; and no subgroup hides a calibration error     *)
(* that its bins show.                                                        *)
EvaluationIsExact ==
  case.kind = "evaluation" =>
    LET Report(records) == EvaluatePredictions(records, (1 :> 5 @@ 2 :> 7), 2) IN
    \A report \in {Report(case.records)},
       settled \in {Report(SelectSeq(case.records, LAMBDA r : r.outcome # Pending))} :
    LET Total(r) == r.concordant + r.discordant + r.tied_predicted + r.tied_outcome + r.tied_both
    IN /\ WellFormed(case.records)
       /\ [report EXCEPT !.total = settled.total, !.excluded = 0] = settled
       /\ report.rank = Report(Reverse(case.records)).rank
       /\ 2 * Total(report.rank) = report.evaluable * (report.evaluable - 1)
       /\ \A r \in {report.rank, report.lift.system, report.lift.baseline} :
            (r.concordant - r.discordant) * (r.concordant - r.discordant) <= r.factors
       /\ report.coverage.with_band + report.coverage.without_band = report.evaluable
       /\ report.lift.compared + report.lift.without_baseline = report.evaluable
       /\ FoldSet(LAMBDA g, t : t + report.subgroups[g].size, 0, DOMAIN report.subgroups)
            = report.evaluable
       /\ \A g \in DOMAIN report.calibration :
            /\ report.calibration[g].error >= report.calibration[g].gap
            /\ FoldSet(LAMBDA b, t : t + report.calibration[g].bins[b], 0,
                       DOMAIN report.calibration[g].bins) = report.calibration[g].size

-----------------------------------------------------------------------------
(* The verdict on a candidate: every reading of the three axes, every         *)
(* knowledge of the founder and every coverage.                               *)
Reading == {[stance |-> st, confidence |-> -1] : st \in {"negative", "mixed", "unknown", "positive"}}
             \cup [stance : {"positive"}, confidence : {34, 35}]
Unheard == [stance |-> "unknown", confidence |-> -1]
FounderScores == {UnknownScore, [known |-> TRUE, provisional |-> TRUE],
                  [known |-> TRUE, provisional |-> FALSE]}

DecideACandidate ==
  /\ Fresh
  /\ \E reads \in [AxisNames -> Reading], score \in FounderScores, level \in Range(Levels) :
       Pick([kind |-> "conviction", reads |-> reads, score |-> score, level |-> level])

Worded(reads) ==
  [a \in AxisNames |->
     [rating |-> CHOOSE r \in DOMAIN StanceOf[a] : StanceOf[a][r] = reads[a].stance,
      confidence |-> reads[a].confidence]]

ConvictionIsCautious(reads, score, level) ==
  LET Decide(r, f, l) == DecideConviction(Worded(r), f, l)
      Verdict(r) == Decide(r, score, level).level
      Forget(a) == [reads EXCEPT ![a] = Unheard]
      decision == Decide(reads, score, level)
  IN /\ decision.level = "pursue" =>
          \A a \in AxisNames : /\ reads[a].stance # "negative"
                               /\ reads[a].stance # "positive" => Verdict(Forget(a)) = "pursue"
                               /\ reads[a].stance = "unknown" =>
                                    \A r \in Reading : r.stance = "positive"
                                      => Verdict([reads EXCEPT ![a] = r]) = "pursue"
     /\ \A a \in AxisNames : /\ Verdict(Forget(a)) # "pass"
                             /\ reads[a].stance = "positive"
                                  /\ Verdict([reads EXCEPT ![a].confidence = -1]) = "pursue"
                                    => Verdict(Forget(a)) = "pursue"
     /\ "pass" \notin {Decide(reads, score, "low").level}
                       \cup {Decide(reads, f, level).level : f \in {g \in FounderScores :
                              ~g.known \/ g.provisional}}
     /\ \A f \in FounderScores : (Decide(reads, f, level).level = "pursue") = decision.clears_bar
     /\ \A a, b \in AxisNames :
          Verdict([reads EXCEPT ![a] = reads[b], ![b] = reads[a]]) = decision.level
     /\ decision.level = "gather_more" /\ decision.requests = {} =>
          decision.hard_negative = {} /\ ConfidentPositiveCount(reads) < 2

-----------------------------------------------------------------------------
(* The two reads of a founder: three factors that are or are not observed, at *)
(* each grade, with an accusation; and one who asserts everything.            *)
Observed(f, tier, grade, known, evidenced) ==
  [factor |-> f, tier |-> tier, grade |-> grade, known |-> known, evidenced |-> evidenced]
Accusations ==
  {<<>>} \cup {<<Observed("verified_negative_signal", "full", g, k, e)>> :
                g \in Range(Grades), k \in BOOLEAN, e \in BOOLEAN}
Boasts == <<"shipped_adopted_work", "corroborated_domain_experience", "sustained_follow_through",
            "peer_validated_recognition", "work_product_quality", "public_writing_depth",
            "follower_reach", "institutional_pedigree", "presentation_polish", "team_size">>
Boast == [i \in DOMAIN Boasts |-> Observed(Boasts[i], "full", "self_asserted", TRUE, TRUE)]
Praises(f) ==
  {<<>>} \cup {<<Observed(f, t, g, TRUE, TRUE)>> : t \in {"full", "partial"}, g \in Range(Grades)}

ReadAFounder ==
  /\ Fresh
  /\ \E accused \in Accusations :
       \/ Pick([kind |-> "reads", observations |-> Boast \o accused])
       \/ \E shipped \in Praises("shipped_adopted_work"), kept \in Praises("sustained_follow_through"),
            followed \in Praises("follower_reach") :
            Pick([kind |-> "reads", observations |-> shipped \o kept \o followed \o accused])

Regraded(observations, i, grade) == [observations EXCEPT ![i].grade = grade]
ReadsAreEarned(observations) ==
  LET Builder(o) == BuilderSignalRead(o).score
      Fundable(o) == FundabilityRead(o).score
      accused == \E i \in DOMAIN observations :
                   observations[i].factor \in DOMAIN Negative /\ observations[i].known
                     /\ observations[i].evidenced
      Without(factors) ==
        Restrict(observations, {i \in DOMAIN observations : observations[i].factor \notin factors})
      Graded(i, g) == Regraded(observations, i, Grades[g])
  IN /\ IndexObservations(observations)
     /\ Builder(observations) = Builder(Without(Context))
     /\ (\A i \in DOMAIN observations : observations[i].grade = "self_asserted") =>
          BuilderSignalRead(observations).band # "strong"
     /\ \A i \in DOMAIN observations, g, h \in 1..3 :
          g <= h /\ observations[i].factor \notin DOMAIN Negative =>
            /\ Builder(Graded(i, g)) <= Builder(Graded(i, h))
            /\ Fundable(Graded(i, g)) <= Fundable(Graded(i, h))
     /\ ~accused => Builder(observations) >= 5000 /\ Fundable(observations) >= 5000
     /\ ~accused => BuilderSignalRead(observations) = BuilderSignalRead(Without(DOMAIN Negative))

-----------------------------------------------------------------------------
(* The bridge: one subject's bundle, resolved to a founder or not.            *)
Told(n) == [i \in 1..2 |-> [reading |-> n, claims |-> {<<"c", i>>}]]
Bundle == [founder : {<<>>} \cup {<<Observed("shipped_adopted_work", "full", "corroborated", k, e)>> :
                                   k \in BOOLEAN, e \in BOOLEAN}
                        \cup {<<Observed("verified_negative_signal", "full", "corroborated", k, TRUE)>> :
                              k \in BOOLEAN},
           signals : [AxisNames -> {<<>>, Told(3), Told(-3), Told(NotKnown)}],
           points : {[a \in AxisNames |-> <<>>]}, level : {"low", "high"}, conflicted : BOOLEAN,
           evidence_count : 0..1, samples : {<<50, 60, 70>>}, snap : {NoEstimate}, coverage : {10}]

BridgeASubject ==
  /\ Fresh
  /\ \E bundle \in Bundle, resolved \in BOOLEAN :
       /\ BundleHolds(bundle)
       /\ Pick([kind |-> "bridge", bundle |-> bundle, resolved |-> resolved])

BridgeIsCautious(bundle, resolved) ==
  LET identity == [known |-> resolved, id |-> 1] IN
  \A view \in {Project(bundle, identity)} :
  LET evaluated == EvaluatePreliminaryCandidate(identity, view.score, view.axes, bundle.level)
      told == \E i \in DOMAIN bundle.founder : bundle.founder[i].known
  IN /\ evaluated.accepted
     /\ view.score.known = (resolved /\ told)
     /\ (view.reads # NoReads) = view.score.known
     /\ evaluated.conviction.level = "pass" =>
          /\ view.score.known /\ ~bundle.conflicted
          /\ \A a \in AxisNames : bundle.signals[a] # <<>>
     /\ ~resolved =>
          /\ view.axes["founder"].rating = "unknown"
          /\ \A a \in AxisNames \ {"founder"} :
               view.axes[a] = Project(bundle, [identity EXCEPT !.known = TRUE]).axes[a]

(* No founder or company is condemned for what is not known of it: a pass     *)
(* needs a complete picture, no confidence is lent by a read that states      *)
(* none, a hard negative is never outvoted, vanity is no substance, and       *)
(* nothing is read of a founder whose identity is unresolved.                 *)
VerdictsAreEarned ==
  CASE case.kind = "conviction" -> ConvictionIsCautious(case.reads, case.score, case.level)
    [] case.kind = "reads" -> ReadsAreEarned(case.observations)
    [] case.kind = "bridge" -> BridgeIsCautious(case.bundle, case.resolved)
    [] OTHER -> TRUE

(* Ratings, scores, bands, verdicts and the harness that judges them alike:   *)
(* axes.py, rubrics.py, confidence.py, founder_reads.py, preliminary.py, the  *)
(* bridge and evaluation.py.                                                  *)
AssessmentsAreFair == RatingsAreFair /\ VerdictsAreEarned /\ EvaluationIsExact

NextAssessment == \/ RateAnAxis \/ FollowATrend \/ TrustAClaim \/ ScoreAFounder \/ EstimateABand
                  \/ EvaluateAll \/ DecideACandidate \/ ReadAFounder \/ BridgeASubject
=============================================================================

---------------------------- MODULE ScreeningBridge ----------------------------
(* The deterministic bridge from explicit signals to an assessment:           *)
(* application/screening_bridge.py.  A bundle holds one subject's signals,    *)
(* its coverage and its trend points.                                         *)
EXTENDS Conviction, ScoreRubrics, ConfidenceBand

KnownFounderSignals(b) == {i \in DOMAIN b.founder : b.founder[i].known}

(* A known signal rests on evidence or claims, which the coverage must count. *)
BundleHolds(b) ==
  LET readings == UNION {Range(b.signals[a]) : a \in AxisNames} IN
  /\ \A i \in KnownFounderSignals(b) : b.founder[i].evidenced
  /\ \A s \in readings : s.reading # NotKnown => s.claims # {}
  /\ (\E s \in readings : s.reading # NotKnown) \/ KnownFounderSignals(b) # {}
       => b.evidence_count > 0

AssessIgnoresIdentityBug(b, identity, axis) ==
  ComputeAxis(b.signals[axis], b.level, b.points[axis], b.conflicted)

(* Nothing is read of a founder whose identity is not resolved.               *)
Assess(b, identity, axis) ==
  IF axis = "founder" /\ ~identity.known THEN ComputeAxis(<<>>, b.level, <<>>, b.conflicted)
  ELSE ComputeAxis(b.signals[axis], b.level, b.points[axis], b.conflicted)

RatingOf ==
  [founder |-> FounderRating, market |-> MarketRating, idea_vs_market |-> IdeaVsMarketRating]

ObservationsOf(b) ==
  [f \in {b.founder[i].factor : i \in DOMAIN b.founder} |->
     b.founder[CHOOSE i \in DOMAIN b.founder : b.founder[i].factor = f]]

UnknownScore == [known |-> FALSE, provisional |-> FALSE]
FounderScoreOf(b, identity) ==
  IF ~identity.known \/ KnownFounderSignals(b) = {} THEN UnknownScore
  ELSE LET snapshot == ScoreFounder(ObservationsOf(b), b.level, b.conflicted)
       IN [known |-> TRUE, founder |-> identity.id, score |-> snapshot.score,
           uncertainty |-> snapshot.uncertainty, provisional |-> snapshot.provisional]

NoReads == <<>>
Project(b, identity) ==
  LET score == FounderScoreOf(b, identity)
      builder == BuilderSignalRead(b.founder)
      fundability == FundabilityRead(b.founder)
  IN [axes |-> [a \in AxisNames |->
                  LET axis == Assess(b, identity, a)
                  IN [rating |-> RatingOf[a][axis.position], trend |-> axis.trend,
                      confidence |-> axis.confidence]],
      score |-> score,
      reads |-> IF score.known
                THEN [builder |-> builder, fundability |-> fundability,
                      gap |-> BuilderFundabilityGap(builder, fundability)]
                ELSE NoReads,
      band |-> EstimateBand(b.samples, b.snap, b.coverage)]
=============================================================================

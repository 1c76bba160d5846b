------------------------------ MODULE Conviction ------------------------------
(* The preliminary verdict on an outbound candidate, and the envelope that    *)
(* carries it: screening/preliminary.py and the validators of                 *)
(* domain/assessment.py it must satisfy.  A confidence is in hundredths, -1   *)
(* when it is not known.                                                      *)
EXTENDS Integers, FiniteSets, FiniteSetsExt

AxisNames == {"founder", "market", "idea_vs_market"}

(* Each axis maps its own words to the shared stance.                         *)
StanceOf ==
  [founder |-> [strong |-> "positive", mixed |-> "mixed", weak |-> "negative", unknown |-> "unknown"],
   market  |-> [bullish |-> "positive", neutral |-> "mixed", bear |-> "negative", unknown |-> "unknown"],
   idea_vs_market |->
     [viable |-> "positive", pivotable |-> "mixed", weak |-> "negative", unknown |-> "unknown"]]

AxisReads(axes) ==
  [a \in AxisNames |-> [stance |-> StanceOf[a][axes[a].rating], confidence |-> axes[a].confidence]]

Names(reads, stance) == {a \in AxisNames : reads[a].stance = stance}

ConfidentPositiveCountAbsentBug(reads) == Cardinality(Names(reads, "positive"))

(* A positive axis whose confidence is unknown or thin does not count towards *)
(* the bar, and does not count against it.                                    *)
ConfidentPositiveCount(reads) ==
  Cardinality({a \in Names(reads, "positive") : reads[a].confidence >= 35})

CompleteIgnoresFounderBug(reads, founder, level) ==
  Names(reads, "unknown") = {} /\ level # "low"

(* Every axis read, coverage not thin, and an established founder record.     *)
Complete(reads, founder, level) ==
  /\ Names(reads, "unknown") = {}
  /\ level # "low"
  /\ founder.known
  /\ ~founder.provisional

ConvictionLevelAveragedBug(reads, founder, level) ==
  LET positive == Cardinality(Names(reads, "positive"))
      negative == Cardinality(Names(reads, "negative"))
  IN CASE negative > positive /\ Complete(reads, founder, level) -> "pass"
       [] positive > negative /\ level # "low" /\ ConfidentPositiveCount(reads) >= 2 -> "pursue"
       [] positive = negative /\ Complete(reads, founder, level) -> "hold"
       [] OTHER -> "gather_more"

ConvictionLevel(reads, founder, level) ==
  LET positive == Names(reads, "positive")
      negative == Names(reads, "negative")
      complete == Complete(reads, founder, level)
  IN CASE negative # {} /\ positive = {} /\ complete -> "pass"
       [] negative = {} /\ level # "low" /\ ConfidentPositiveCount(reads) >= 2 -> "pursue"
       [] negative # {} /\ positive # {} /\ complete -> "hold"
       [] OTHER -> "gather_more"

(* The gaps that a rationale names and that more evidence should fill.        *)
EvidenceRequests(reads, founder, level) ==
  Names(reads, "unknown")
    \cup (IF level = "low" THEN {"coverage"} ELSE {})
    \cup (IF ~founder.known THEN {"founder identity"}
          ELSE IF founder.provisional THEN {"founder record"} ELSE {})

DecideConviction(axes, founder, level) ==
  LET reads == AxisReads(axes) IN
  [level         |-> ConvictionLevel(reads, founder, level),
   clears_bar    |-> ConvictionLevel(reads, founder, level) = "pursue",
   hard_negative |-> Names(reads, "negative"),
   positive      |-> Names(reads, "positive"),
   requests      |-> EvidenceRequests(reads, founder, level)]

-----------------------------------------------------------------------------
(* What an envelope may say: one with a candidate's identity claims neither   *)
(* readiness nor a memo, the children of one with a case's identity are that  *)
(* case's, and a known founder score is of the founder it identifies.         *)
NoChild == <<>>
EnvelopeHolds(e) ==
  /\ e.mode = "preliminary" => e.readiness = NoChild /\ e.memo = NoChild
  /\ e.mode = "full" =>
       /\ e.readiness # NoChild => e.readiness.case = e.case
       /\ e.memo # NoChild => e.memo.case = e.case /\ e.memo.assessment = e.assessment
  /\ e.score.known => e.founder.known /\ e.score.founder = e.founder.id
  /\ e.memo # NoChild => e.memo.run = e.run
  /\ e.recommendation # NoChild => e.recommendation.assessment = e.assessment

AssemblePreliminaryAssessment(identity, score, axes, level) ==
  [mode |-> "preliminary", founder |-> identity, score |-> score, axes |-> axes, level |-> level,
   readiness |-> NoChild, memo |-> NoChild, recommendation |-> NoChild]

(* The verdict and the envelope read the same axes, score and coverage, and   *)
(* an inconsistent identity is refused.                                       *)
EvaluatePreliminaryCandidate(identity, score, axes, level) ==
  LET envelope == AssemblePreliminaryAssessment(identity, score, axes, level)
  IN [accepted   |-> EnvelopeHolds(envelope),
      envelope   |-> envelope,
      conviction |-> DecideConviction(axes, score, level)]
=============================================================================

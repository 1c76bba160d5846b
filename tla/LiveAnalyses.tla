----------------------------- MODULE LiveAnalyses -----------------------------
(* What the five inbound analyses may conclude from one immutable snapshot:   *)
(* screening/inbound_analysis.py, screening/live_analyses.py and the Claim of *)
(* domain/evidence.py.  A model's answer is a proposal; it becomes a result   *)
(* only if it passes the checks here, and otherwise the call raises.          *)
EXTENDS ScoreRubrics

ClaimHolds(c) ==
  /\ c.supports \cap c.counters = {}
  /\ c.status = "supported" => c.supports # {}
  /\ c.status = "contradicted" => c.supports # {} /\ c.counters # {}
  /\ c.status = "unsupported" => c.supports = {}

Ids(records) == {r.id : r \in records}
UniqueIds(records) == \A r, s \in records : r.id = s.id => r = s

(* Each cited identifier is of carried evidence of that claim and stance.     *)
Cites(c, ids, stance, evidence) ==
  \A id \in ids : \E e \in evidence : e.id = id /\ e.claim = c.id /\ e.stance = stance

CitationsClosed(claims, evidence) ==
  /\ UniqueIds(claims) /\ UniqueIds(evidence)
  /\ \A e \in evidence : e.claim \in Ids(claims)
  /\ \A c \in claims : /\ Cites(c, c.supports, "supports", evidence)
                       /\ Cites(c, c.counters, "refutes", evidence)

Contradicted(x, claims) ==
  \A id \in x.claims : \E c \in claims : c.id = id /\ c.status = "contradicted"

-----------------------------------------------------------------------------
(* What a result may carry.                                                   *)
AxisResultHolds(r) ==
  /\ CitationsClosed(r.claims, r.evidence)
  /\ r.supporting \cup r.counter \subseteq Ids(r.claims)
  /\ r.supporting \cap r.counter = {}

FounderResultTrustsProseBug(r) == AxisResultHolds(r)

(* A strong founder needs strong substance, derived from the builder's score. *)
FounderResultHolds(r) ==
  /\ AxisResultHolds(r)
  /\ r.gap.builder = r.builder.score /\ r.gap.fundability = r.fundability.score
  /\ r.builder.band = FounderBand(r.builder.score \div 100)
  /\ r.rating = "strong" => FounderBand(r.builder.score \div 100) = "strong"

AdversarialResultHolds(r) ==
  /\ CitationsClosed(r.claims, r.evidence)
  /\ \A x \in r.contradictions : /\ Contradicted(x, r.claims)
                                 /\ x.evidence \subseteq Ids(r.evidence)

(* Every material claim has support and is cited, and nothing else is.        *)
SectionClaims(memo) == UNION {s.claims : s \in Range(memo.sections)}
CitedClaims(memo) == SectionClaims(memo) \cup UNION memo.reasons
MemoResultHolds(r) ==
  /\ CitationsClosed(r.material, r.evidence)
  /\ \A c \in r.material : c.supports # {}
  /\ CitedClaims(r) = Ids(r.material)

-----------------------------------------------------------------------------
(* The snapshot all five analyses read.                                       *)
SnapshotHolds(s) ==
  /\ CitationsClosed(s.claims, s.evidence)
  /\ UniqueIds(s.contradictions)
  /\ \A x \in s.contradictions : /\ x.evidence \subseteq Ids(s.evidence)
                                 /\ Contradicted(x, s.claims)
  /\ \A i \in DOMAIN s.observations : s.observations[i].cited \subseteq Ids(s.evidence)

Selected(s, ids) == {c \in s.claims : c.id \in ids}
EvidenceOf(s, claims) ==
  {e \in s.evidence : e.id \in UNION {c.supports \cup c.counters : c \in claims}}

SelectableAnyStatusBug(s, supporting, counter) ==
  /\ supporting \cap counter = {}
  /\ supporting \cup counter \subseteq Ids(s.claims)

(* Only supported claims of the snapshot may be cited, each on one side.      *)
Selectable(s, supporting, counter) ==
  /\ supporting \cap counter = {}
  /\ supporting \cup counter \subseteq Ids(s.claims)
  /\ \A c \in Selected(s, supporting \cup counter) : c.status = "supported" /\ c.supports # {}

DirectionIsSupportedConfidentBug(p) == p.rating # "unknown" => p.confident

(* A direction needs a supporting claim and a stated confidence.              *)
DirectionIsSupported(p) == p.rating # "unknown" => p.supporting # {} /\ p.confident

AxisChecks(s, p) == DirectionIsSupported(p) /\ Selectable(s, p.supporting, p.counter)
AxisResult(s, p) ==
  LET claims == Selected(s, p.supporting \cup p.counter) IN
  [rating |-> p.rating, claims |-> claims, evidence |-> EvidenceOf(s, claims),
   supporting |-> p.supporting, counter |-> p.counter,
   confident |-> p.rating # "unknown"]

(* The founder's reads come from graded observations, not from the model, and *)
(* neither its questions nor the claims it leans on may speak of proxies.     *)
FounderChecks(s, p) ==
  /\ AxisChecks(s, p)
  /\ ~p.proxy_language
  /\ \A c \in Selected(s, p.supporting) : ~c.proxy
FounderResult(s, p) ==
  LET axis == AxisResult(s, p)
      builder == BuilderSignalRead(s.observations)
      fundability == FundabilityRead(s.observations)
  IN [rating |-> axis.rating, claims |-> axis.claims, evidence |-> axis.evidence,
      supporting |-> axis.supporting, counter |-> axis.counter, confident |-> axis.confident,
      builder |-> builder, fundability |-> fundability,
      gap |-> BuilderFundabilityGap(builder, fundability)]
FounderAccepted(s, p) == FounderChecks(s, p) /\ FounderResultHolds(FounderResult(s, p))

(* A cross-examination preserves the contradictions already recorded.         *)
AdversarialChecks(s, p) == p.contradictions = Ids(s.contradictions)
AdversarialResult(s) ==
  [claims |-> s.claims, evidence |-> s.evidence, contradictions |-> s.contradictions]

RequiredSections ==
  {"company_snapshot", "investment_hypotheses", "swot", "problem_and_product", "traction_and_kpis"}

(* A known section cites claims and an unknown one cites none.                *)
SectionHolds(section) == section.known = (section.claims # {})

MemoChecksUncitedReasonBug(s, p) ==
  /\ \A i \in DOMAIN p.sections : SectionHolds(p.sections[i])
  /\ Len(p.sections) = 5 /\ {p.sections[i].kind : i \in 1..5} = RequiredSections
  /\ p.contradictions \subseteq Ids(s.contradictions)
  /\ Selectable(s, CitedClaims(p), {})

MemoChecks(s, p) ==
  /\ \A i \in DOMAIN p.sections : SectionHolds(p.sections[i])
  /\ Len(p.sections) = 5 /\ {p.sections[i].kind : i \in 1..5} = RequiredSections
  /\ p.contradictions \subseteq Ids(s.contradictions)
  /\ Selectable(s, CitedClaims(p), {})
  /\ p.action \notin {"needs_information", "manual_review"} => {} \notin p.reasons

MemoResult(s, p) ==
  LET material == Selected(s, CitedClaims(p)) IN
  [sections |-> p.sections, reasons |-> p.reasons, material |-> material,
   evidence |-> EvidenceOf(s, material), action |-> p.action]

-----------------------------------------------------------------------------
(* The fallback asserts nothing: unknown axes, and a memo of five gaps.       *)
FallbackAxis == [rating |-> "unknown", supporting |-> {}, counter |-> {}, confident |-> FALSE,
                 proxy_language |-> FALSE]
SortedSections ==
  <<"company_snapshot", "investment_hypotheses", "problem_and_product", "swot", "traction_and_kpis">>
FallbackMemo ==
  [sections |-> [i \in 1..5 |-> [kind |-> SortedSections[i], known |-> FALSE, claims |-> {}]],
   reasons |-> {{}}, action |-> "needs_information", contradictions |-> {}]
=============================================================================

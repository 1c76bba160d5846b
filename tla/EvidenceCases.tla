----------------------------- MODULE EvidenceCases -----------------------------
(* Cases of what may be asserted from a deck and concluded from a snapshot.   *)
EXTENDS RuleCases, LiveAnalyses, DeckEvidence

-----------------------------------------------------------------------------
(* Decks: a page of at most three lines and perhaps another page, within wide *)
(* and within tight limits, however corroborated.                             *)
Line(kind, field, value) == [kind |-> kind, field |-> field, value |-> value]
Lines == {Line("label", "company", <<"acme">>), Line("label", "company", <<"ACME">>),
          Line("label", "company", <<"other">>), Line("heading", "product", <<>>),
          Line("text", "prose", <<"ai">>), Line("blank", "prose", <<>>)}
LaterPages == {<<>>, <<[lines |-> <<Line("label", "company", <<"other">>)>>, ocr |-> 50]>>,
               <<[lines |-> <<Line("label", "product", <<"ai">>)>>, ocr |-> Unread]>>}
Wide == [pages |-> 9, lines |-> 9, page_fields |-> 9, fields |-> 9, value |-> 4, section |-> 9]
Tight == [pages |-> 1, lines |-> 2, page_fields |-> 1, fields |-> 1, value |-> 4, section |-> 1]
Corroborated(independent) ==
  [field |-> "company", value |-> <<"acme">>, independent |-> independent, evidence |-> {<<0, 0>>}]
Decks == {[available |-> TRUE, age |-> 100, corroboration |-> {}],
          [available |-> TRUE, age |-> 1000, corroboration |-> {Corroborated(TRUE)}],
          [available |-> FALSE, age |-> Unread, corroboration |-> {Corroborated(FALSE)}]}

ProjectADeck ==
  /\ Fresh
  /\ \E n \in 1..3 : \E lines \in [1..n -> Lines], later \in LaterPages,
        deck \in Decks, limits \in {Wide, Tight} :
       Pick([kind |-> "deck", pages |-> <<[lines |-> lines, ocr |-> 95]>> \o later,
             deck |-> deck, limits |-> limits])

Uncorroborated(deck) == [deck EXCEPT !.corroboration = {}]
Essence(claims) == {<<c.id, c.status, c.trust>> : c \in claims}
Said(claims) == {<<c.id, c.status>> : c \in claims}

DeckIsGrounded(pages, deck, limits) ==
  \A view  \in {ProjectDeckEvidence(pages, deck, limits)},
     alone \in {ProjectDeckEvidence(pages, Uncorroborated(deck), limits)},
     whole \in {ProjectDeckEvidence(pages, deck, Wide)} :
  LET conflicted == {x.id : x \in view.contradictions}
      Amended(lines) ==
        ProjectDeckEvidence([pages EXCEPT ![1].lines = lines], deck, Wide).claims
  IN /\ UniqueIds(view.claims) /\ \A c \in view.claims : ClaimHolds(c)
     /\ CitationsClosed(alone.claims, alone.evidence)
     /\ SnapshotHolds([claims |-> alone.claims, evidence |-> alone.evidence,
                       contradictions |-> alone.contradictions, observations |-> <<>>])
          = (conflicted = {})
     /\ Ids(view.claims) # Ids(whole.claims) => view.truncated
     /\ \A c \in view.claims :
          IF c.field \in conflicted
          THEN /\ c.status = "unresolved" /\ c.trust = NoScore
               /\ \E x \in view.contradictions : c.id \in x.claims /\ c.supports \cap x.evidence # {}
               /\ \A k \in DOMAIN SectionFields :
                    c.field \in SectionFields[k] => view.sections[k].state = "conflicted"
          ELSE \A d \in view.claims : d.field = c.field => d = c
     /\ \A c \in view.claims, d \in alone.claims :
          c.id = d.id => /\ c.trust >= d.trust
                         /\ d.status # "supported"
                         /\ c.status = "supported" => \E x \in deck.corroboration : x.independent
     /\ Essence(ProjectDeckEvidence(Reverse(pages), deck, Wide).claims) = Essence(whole.claims)
     /\ Said(Amended(<<Line("text", "prose", <<"ai">>)>> \o pages[1].lines)) = Said(whole.claims)
     /\ Last(pages[1].lines).kind \in {"label", "text"} =>
          Essence(Amended(pages[1].lines \o <<Line("blank", "prose", <<>>),
                                             Line("text", "prose", <<"more">>)>>))
            = Essence(whole.claims)

-----------------------------------------------------------------------------
(* Analyses: a snapshot of at most two claims, and every answer of a model.   *)
Claim(id, status, supports, counters, proxy) ==
  [id |-> id, status |-> status, supports |-> supports, counters |-> counters, proxy |-> proxy]
Evidence == {[id |-> "e1", claim |-> "c1", stance |-> "supports"],
             [id |-> "e2", claim |-> "c1", stance |-> "refutes"],
             [id |-> "e3", claim |-> "c2", stance |-> "supports"]}
FirstClaims == {Claim("c1", "supported", {"e1"}, {}, FALSE),
                Claim("c1", "asserted_unverified", {"e1"}, {}, FALSE),
                Claim("c1", "contradicted", {"e1"}, {"e2"}, FALSE)}
SecondClaims == {Claim("c2", "supported", {"e3"}, {}, TRUE), Claim("c2", "unsupported", {}, {}, FALSE)}
Graded(factor, cited) ==
  [factor |-> factor, tier |-> "full", grade |-> "outcome_backed", known |-> TRUE,
   evidenced |-> TRUE, cited |-> cited]
Snapshots ==
  {s \in [claims : {{c, d} : c \in FirstClaims, d \in SecondClaims}, evidence : {Evidence},
          contradictions : {{}, {[id |-> "x", claims |-> {"c1"}, evidence |-> {"e1", "e2"}]}},
          observations : {<<>>, <<Graded("institutional_pedigree", {"e1"})>>,
                          <<Graded("shipped_adopted_work", {"e1"}),
                            Graded("work_product_quality", {"e3"}),
                            Graded("sustained_follow_through", {"e3"})>>}] : SnapshotHolds(s)}
SomeClaims == SUBSET {"c1", "c2"}
AxisProposal ==
  [rating : {"unknown", "mixed", "strong"}, supporting : SomeClaims \cup {{"c9"}},
   counter : SomeClaims, confident : BOOLEAN, proxy_language : BOOLEAN]
MemoProposal(first, reasons, action, contradictions) ==
  [FallbackMemo EXCEPT !.sections[1] = [kind |-> @.kind, known |-> first.known, claims |-> first.claims],
                       !.reasons = reasons, !.action = action, !.contradictions = contradictions]

AnalyzeASnapshot ==
  /\ Fresh
  /\ \E s \in Snapshots :
       \/ \E p \in AxisProposal : Pick([kind |-> "axis_answer", snapshot |-> s, proposal |-> p])
       \/ \E first \in [known : BOOLEAN, claims : SomeClaims],
            reasons \in {{{}}, {{"c1"}}, {{"c2"}, {}}, {{"c9"}}},
            action \in {"advance", "needs_information"}, named \in {{}, {"x"}, {"y"}} :
            Pick([kind |-> "memo_answer", snapshot |-> s,
                  proposal |-> MemoProposal(first, reasons, action, named)])

Contested(claims) == \E c \in claims : c.status # "supported"

AxisAnswerIsGrounded(s, p) ==
  LET result == AxisResult(s, p)
      grounds == {c \in result.claims : c.id \in p.supporting}
  IN /\ AxisChecks(s, p) =>
          /\ AxisResultHolds(result) /\ ~Contested(result.claims)
          /\ p.rating # "unknown" => \E c \in grounds, e \in s.evidence :
                                       e.id \in c.supports /\ e.stance = "supports"
     /\ FounderChecks(s, p) /\ ~FounderAccepted(s, p) =>
          p.rating = "strong" /\ BuilderSignalRead(s.observations).band # "strong"
     /\ FounderAccepted(s, p) /\ p.rating = "strong" =>
          /\ \E i \in DOMAIN s.observations : s.observations[i].factor \notin Context
          /\ \A c \in grounds : ~c.proxy
     /\ FounderAccepted(s, FallbackAxis)

MemoAnswerIsGrounded(s, p) ==
  /\ MemoChecks(s, p) =>
       /\ MemoResultHolds(MemoResult(s, p))
       /\ ~Contested(MemoResult(s, p).material)
       /\ p.action = "advance" => \A reason \in p.reasons : \E c \in s.claims :
                                    c.id \in reason /\ c.supports # {}
  /\ MemoChecks(s, FallbackMemo) /\ MemoResultHolds(MemoResult(s, FallbackMemo))
  /\ MemoResult(s, FallbackMemo).material = {}
  /\ AdversarialChecks(s, p) => AdversarialResultHolds(AdversarialResult(s))

(* Nothing is said without grounds.  A deck's claims cite the lines they came *)
(* from, whatever the order of its pages and the prose around them; a field   *)
(* with two answers supports neither, and it is the only thing that makes a   *)
(* deck unfit for a snapshot; nothing is left out unannounced; only           *)
(* independent corroboration makes a claim supported.  A model's answer that  *)
(* passes the checks makes a well-formed result that leans on supported       *)
(* claims, the only answer refused later is a strong founder without          *)
(* substance, and the fallback is always accepted.                            *)
EvidenceIsGrounded ==
  CASE case.kind = "deck" -> DeckIsGrounded(case.pages, case.deck, case.limits)
    [] case.kind = "axis_answer" -> AxisAnswerIsGrounded(case.snapshot, case.proposal)
    [] case.kind = "memo_answer" -> MemoAnswerIsGrounded(case.snapshot, case.proposal)
    [] OTHER -> TRUE

NextEvidence == ProjectADeck \/ AnalyzeASnapshot
=============================================================================

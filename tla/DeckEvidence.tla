----------------------------- MODULE DeckEvidence -----------------------------
(* What a pitch deck's text may assert: application/deck_evidence.py.  A page *)
(* is a sequence of lines: a labelled value (inline or a table row), a        *)
(* heading, text or a blank; a value is a sequence of words, of which some    *)
(* are spelt in two ways.                                                     *)
EXTENDS ScoreRubrics

Fields == <<"company", "problem", "product", "market", "traction", "founders", "funding">>
CompanyFields == {"company", "founders", "funding"}

(* A normalised value forgets case and spacing and nothing else.              *)
Folded(word) == IF word = "ACME" THEN "acme" ELSE word
NormalizeValue(value) == [i \in DOMAIN value |-> Folded(value[i])]
DisplayValue(value, limits) == SubSeq(value, 1, Min({Len(value), limits.value}))

(* The text a heading introduces: it ends at the next heading or label, or at *)
(* a blank after some text, and has at most four lines.                       *)
HeadingEnd(lines, i) ==
  LET Stops(j) == \/ lines[j].kind \in {"label", "heading"}
                  \/ lines[j].kind = "blank" /\ \E k \in (i + 1)..(j - 1) : lines[k].kind = "text"
  IN Min({j \in (i + 1)..Len(lines) : Stops(j)} \cup {Len(lines) + 1})

HeadingValueBehindGapBug(lines, i) ==
  FoldLeft(LAMBDA v, line : IF line.kind = "text" THEN v \o line.value ELSE v, <<>>,
           SubSeq(lines, i + 1, Len(lines)))

HeadingValue(lines, i) ==
  LET texts == SelectSeq(SubSeq(lines, i + 1, HeadingEnd(lines, i) - 1),
                         LAMBDA line : line.kind = "text")
  IN FoldLeft(LAMBDA v, line : v \o line.value, <<>>, SubSeq(texts, 1, Min({4, Len(texts)})))

(* The assertions of a page in the order of their lines.  Prose under no      *)
(* allowlisted label asserts nothing, nor does an empty value.                *)
ParsePage(page, p, limits) ==
  LET lines == SubSeq(page.lines, 1, Min({Len(page.lines), limits.lines}))
      Raw(i) == CASE lines[i].kind = "label" -> lines[i].value
                  [] lines[i].kind = "heading" -> HeadingValue(lines, i)
                  [] OTHER -> <<>>
      Asserts(i) == /\ lines[i].kind \in {"label", "heading"}
                    /\ lines[i].field \in Range(Fields)
                    /\ Raw(i) # <<>>
      At(i) == [field |-> lines[i].field, page |-> p, line |-> i, ocr |-> page.ocr,
                value |-> NormalizeValue(DisplayValue(Raw(i), limits))]
  IN [assertions |-> [k \in DOMAIN SelectSeq([i \in DOMAIN lines |-> i], Asserts) |->
                        At(SelectSeq([i \in DOMAIN lines |-> i], Asserts)[k])],
      truncated |-> Len(page.lines) > Len(lines)]

FirstOf(s, n) == SubSeq(s, 1, Min({n, Len(s)}))

AcceptedQuietlyBug(pages, limits) ==
  LET parsed == [p \in DOMAIN FirstOf(pages, limits.pages) |-> ParsePage(pages[p], p, limits)]
      kept   == FlattenSeq([p \in DOMAIN parsed |->
                              FirstOf(parsed[p].assertions, limits.page_fields)])
  IN [assertions |-> FirstOf(kept, limits.fields), truncated |-> Len(pages) > limits.pages]

(* The pages, lines and fields within the limits, and whether any was left    *)
(* out.                                                                       *)
Accepted(pages, limits) ==
  LET parsed == [p \in DOMAIN FirstOf(pages, limits.pages) |-> ParsePage(pages[p], p, limits)]
      kept   == FlattenSeq([p \in DOMAIN parsed |->
                              FirstOf(parsed[p].assertions, limits.page_fields)])
  IN [assertions |-> FirstOf(kept, limits.fields),
      truncated |-> \/ Len(pages) > limits.pages
                    \/ Len(kept) > limits.fields
                    \/ \E p \in DOMAIN parsed :
                         \/ parsed[p].truncated
                         \/ Len(parsed[p].assertions) > limits.page_fields]

ConflictedFieldsAdjacentBug(assertions) ==
  {assertions[i].field : i \in {j \in DOMAIN assertions :
     j > 1 /\ assertions[j - 1].field = assertions[j].field
           /\ assertions[j - 1].value # assertions[j].value}}

(* The fields that the deck gives two values.                                 *)
ConflictedFields(assertions) ==
  {a.field : a \in {b \in Range(assertions) :
     \E c \in Range(assertions) : c.field = b.field /\ c.value # b.value}}

-----------------------------------------------------------------------------
(* Trust in a deck's assertion: its age in days, the worst of its pages'      *)
(* OCR confidences in hundredths, and what independently corroborates it.     *)
Unread == -1
RecencySignal(age) ==
  CASE age = Unread \/ age < -1 -> "unknown"
    [] age \in 0..180 -> "strengthens"
    [] age \in 181..730 -> "neutral"
    [] OTHER -> "weakens"

ExtractionCertaintySignal(readings) ==
  CASE Unread \in readings -> "unknown"
    [] Unread \notin readings /\ Min(readings) >= 90 -> "strengthens"
    [] Unread \notin readings /\ Min(readings) < 60 -> "weakens"
    [] OTHER -> "neutral"

TrustFactors(group, deck, corroborated, conflicted) ==
  [provenance |-> IF deck.available THEN "strengthens" ELSE "weakens",
   independence |-> IF corroborated THEN "strengthens" ELSE "weakens",
   recency |-> RecencySignal(deck.age),
   extraction_certainty |-> ExtractionCertaintySignal({a.ocr : a \in group}),
   corroboration |-> IF corroborated THEN "strengthens" ELSE "neutral",
   contradiction |-> IF conflicted THEN "weakens" ELSE "neutral"]

ClaimStatusCorroboratedFirstBug(corroborated, conflicted) ==
  IF corroborated THEN "supported" ELSE IF conflicted THEN "unresolved" ELSE "asserted_unverified"

(* A conflict is not settled by corroborating one of its sides.               *)
ClaimStatus(corroborated, conflicted) ==
  IF conflicted THEN "unresolved" ELSE IF corroborated THEN "supported" ELSE "asserted_unverified"

Corroborating(deck, key) ==
  UNION {x.evidence : x \in {y \in deck.corroboration :
           <<y.field, NormalizeValue(y.value)>> = key /\ y.independent}}

(* One claim for each field and value, however often the deck repeats it.     *)
ProjectedClaim(key, assertions, deck) ==
  LET group == {a \in Range(assertions) : <<a.field, a.value>> = key}
      independent == Corroborating(deck, key)
      conflicted == key[1] \in ConflictedFields(assertions)
  IN [id |-> key, field |-> key[1],
      subject |-> IF key[1] \in CompanyFields THEN "company" ELSE "opportunity",
      status |-> ClaimStatus(independent # {}, conflicted),
      trust |-> ScoreClaimTrust(TrustFactors(group, deck, independent # {}, conflicted),
                                group # {}, conflicted),
      supports |-> {<<a.page, a.line>> : a \in group} \cup independent,
      counters |-> {}, proxy |-> FALSE]

DeckEvidenceOf(assertions) ==
  {[id |-> <<a.page, a.line>>, claim |-> <<a.field, a.value>>, stance |-> "supports"] :
     a \in Range(assertions)}

Contradictions(assertions) ==
  {[id |-> f, claims |-> {<<a.field, a.value>> : a \in {b \in Range(assertions) : b.field = f}},
    evidence |-> {<<a.page, a.line>> : a \in {b \in Range(assertions) : b.field = f}}] :
     f \in ConflictedFields(assertions)}

(* A memo section shows its claims, or that they conflict, or that there is   *)
(* nothing to show; a claim's statement is as long as its value.              *)
SectionFields ==
  [company_snapshot |-> {"company", "market", "founders", "funding"},
   problem_and_product |-> {"problem", "product"}, traction_and_kpis |-> {"traction"}]

MemoSection(kind, claims, conflicted, limits) ==
  LET selected == {c \in claims : c.field \in SectionFields[kind]}
      fits == {c \in selected : Len(c.id[2]) <= limits.section}
  IN [state |-> CASE selected = {} -> "unknown"
                  [] \E c \in selected : c.field \in conflicted -> "conflicted"
                  [] OTHER -> IF fits = {} THEN "unknown" ELSE "known",
      claims |-> {c.id : c \in selected},
      omitted |-> /\ selected # {}
                  /\ \A c \in selected : c.field \notin conflicted
                  /\ FoldSet(LAMBDA c, t : t + Len(c.id[2]), 0, selected) > limits.section]

ProjectionOf(accepted, deck, limits) ==
  LET assertions == accepted.assertions
      conflicted == ConflictedFields(assertions)
      claims == {ProjectedClaim(<<a.field, a.value>>, assertions, deck) : a \in Range(assertions)}
      sections == [k \in DOMAIN SectionFields |-> MemoSection(k, claims, conflicted, limits)]
  IN [claims |-> claims, evidence |-> DeckEvidenceOf(assertions),
      contradictions |-> Contradictions(assertions), sections |-> sections,
      truncated |-> accepted.truncated \/ \E k \in DOMAIN sections : sections[k].omitted]

ProjectDeckEvidence(pages, deck, limits) == ProjectionOf(Accepted(pages, limits), deck, limits)
=============================================================================

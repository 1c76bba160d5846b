----------------------------- MODULE SourcePlanner -----------------------------
(* The planner of sourcing requests: ingestion/query_planner.py.  A request   *)
(* is a sequence of words of one length: cue words of the lexicon, amounts,   *)
(* modifiers, clause separators, function words, a word nobody knows ("foo")  *)
(* and a letter ("x").  A match covers the words start..stop-1.               *)
EXTENDS Integers, Sequences, SequencesExt, FiniteSetsExt, Functions

Cue(phrase, field, operator, operand, strength, category) ==
  [phrase |-> phrase, field |-> field, operator |-> operator,
   operands |-> IF operator = "equals" THEN <<operand>> ELSE <<>>,
   strength |-> strength, category |-> category]

NoCategory == "none"
SourceRule(phrase, category) ==
  Cue(phrase, "source_category", "equals", category, "preference", category)

Lexicon ==
  << Cue(<<"technical">>, "technical_founder", "equals", "true", "preference", "developer_activity"),
     Cue(<<"berlin">>, "geography", "equals", "Berlin", "hard", NoCategory),
     Cue(<<"ai", "infra">>, "sector", "equals", "AI infrastructure", "hard", NoCategory),
     Cue(<<"ai">>, "sector", "equals", "AI/ML", "hard", NoCategory),
     Cue(<<"series-a">>, "stage", "equals", "series_a", "hard", NoCategory),
     Cue(<<"seed">>, "stage", "equals", "seed", "hard", NoCategory),
     Cue(<<"techstars">>, "accelerator", "equals", "Techstars", "preference", "accelerator_cohort"),
     Cue(<<"accelerator">>, "accelerator", "is_known", "", "preference", "accelerator_cohort"),
     SourceRule(<<"github">>, "developer_activity") >>

HardModifiers == {"must"}
PreferenceModifiers == {"ideally"}
Exclusions == {"without"}
Separators == {",", "or"}
Stopwords == {"the", "to", "or", "without"}
Amounts == [m1 |-> 1, m2 |-> 2]   \* $1m, $2m
Limits == [upto |-> "less_than_or_equal", minimum |-> "greater_than_or_equal"]
Meaningful(word) == word \notin {",", "x"}

Match(start, stop, cue, operands, priority) ==
  [start |-> start, stop |-> stop, field |-> cue.field, operator |-> cue.operator,
   operands |-> operands, strength |-> cue.strength, category |-> cue.category,
   priority |-> priority]

(* All occurrences, overlapping or not.                                       *)
Occurrences(query, phrase) ==
  {i \in 1..(Len(query) + 1 - Len(phrase)) : SubSeq(query, i, i + Len(phrase) - 1) = phrase}

CheckSize(operator) == Cue(<<>>, "check_size", operator, "", "hard", NoCategory)
ScanNumericUnorderedBug(query) ==
  LET Amount(i) == Amounts[query[i]] IN
  {Match(i, i + 3, CheckSize("between"), <<Amount(i), Amount(i + 2)>>, 1000) :
     i \in {j \in 1..(Len(query) - 2) : /\ query[j] \in DOMAIN Amounts /\ query[j + 1] = "to"
                                        /\ query[j + 2] \in DOMAIN Amounts}}

(* A range, its ends in order, or a bounded amount; a bare amount is nothing. *)
ScanNumeric(query) ==
  LET Amount(i) == Amounts[query[i]]
      Ordered(a, b) == <<Min({a, b}), Max({a, b})>>
  IN {Match(i, i + 3, CheckSize("between"), Ordered(Amount(i), Amount(i + 2)), 1000) :
        i \in {j \in 1..(Len(query) - 2) : /\ query[j] \in DOMAIN Amounts /\ query[j + 1] = "to"
                                           /\ query[j + 2] \in DOMAIN Amounts}}
     \cup {Match(i, i + 2, CheckSize(Limits[query[i]]), <<Amount(i + 1)>>, 1000) :
             i \in {j \in 1..(Len(query) - 1) : /\ query[j] \in DOMAIN Limits
                                                /\ query[j + 1] \in DOMAIN Amounts}}

CuesOf(field) == {r \in Range(Lexicon) : r.field = field}

ScanExclusions(query) ==
  LET Excluded == Cue(<<>>, "sector", "not_equals", "", "hard", NoCategory) IN
  UNION {{Match(i, i + 1 + Len(r.phrase), Excluded, r.operands, 900) :
            i \in {j \in DOMAIN query : /\ query[j] \in Exclusions
                                        /\ j + 1 \in Occurrences(query, r.phrase)}} :
           r \in CuesOf("sector")}

ScanStageRanges(query) ==
  LET AnyOf == Cue(<<>>, "stage", "any_of", "", "hard", NoCategory)
      StageAt(i) == CHOOSE r \in CuesOf("stage") : r.phrase = <<query[i]>>
      IsStage(i) == \E r \in CuesOf("stage") : r.phrase = <<query[i]>>
  IN {Match(i, i + 3, AnyOf,
            IF query[i] = query[i + 2] THEN StageAt(i).operands
            ELSE StageAt(i).operands \o StageAt(i + 2).operands, 900) :
        i \in {j \in 1..(Len(query) - 2) : /\ IsStage(j) /\ IsStage(j + 2)
                                           /\ query[j + 1] \in {"to", "or"}}}

ScanLexicon(query) ==
  UNION {{Match(i, i + Len(Lexicon[p].phrase), Lexicon[p], Lexicon[p].operands, p) :
            i \in Occurrences(query, Lexicon[p].phrase)} : p \in DOMAIN Lexicon}
    \cup ScanNumeric(query) \cup ScanExclusions(query) \cup ScanStageRanges(query)

SelectShortestBug(matches) ==
  {m \in matches : \A o \in matches : o.start = m.start => m.stop <= o.stop}

(* From the left, the longest match at each start that is not within the one  *)
(* before; of two that are equally long the earlier rule.                     *)
Select(matches) ==
  LET Before(a, b) == \/ a.start < b.start
                      \/ a.start = b.start /\ a.stop > b.stop
                      \/ a.start = b.start /\ a.stop = b.stop /\ a.priority < b.priority
      Keep(kept, m) == IF \E k \in kept : m.start < k.stop THEN kept ELSE kept \cup {m}
  IN FoldLeft(Keep, {}, SetToSortSeq(matches, Before))

(* The words between the separators around a match.                           *)
ClauseBounds(query, m) ==
  << Max({0} \cup {i \in 1..(m.start - 1) : query[i] \in Separators}) + 1,
     Min({Len(query) + 1} \cup {i \in m.stop..Len(query) : query[i] \in Separators}) >>

WordsFrom(i, m) == IF i < m.start THEN m.start - i ELSE i + 1 - m.stop

NearestModifierAnywhereBug(query, m, window) ==
  LET said == {i \in DOMAIN query : query[i] \in HardModifiers \cup PreferenceModifiers}
      nearest == {i \in said : \A j \in said : WordsFrom(i, m) <= WordsFrom(j, m)}
  IN CASE said = {} -> m.strength
       [] \E i \in nearest : query[i] \in HardModifiers -> "hard"
       [] OTHER -> "preference"

(* Of two equally near modifiers the hard one binds.                          *)
NearestModifier(query, m, window) ==
  LET said == {i \in window[1]..(window[2] - 1) : query[i] \in HardModifiers \cup PreferenceModifiers}
      nearest == {i \in said : \A j \in said : WordsFrom(i, m) <= WordsFrom(j, m)}
  IN CASE said = {} -> m.strength
       [] \E i \in nearest : query[i] \in HardModifiers -> "hard"
       [] OTHER -> "preference"

Words(match) == match.start..(match.stop - 1)
CoveredMask(query, accepted) ==
  UNION {Words(m) : m \in accepted}
    \cup {i \in DOMAIN query : query[i] \in HardModifiers \cup PreferenceModifiers \cup Stopwords}

UnresolvedPhrasesSplitBug(query, covered) ==
  {<<i, i + 1>> : i \in {j \in DOMAIN query \ covered : j - 1 \in covered \cup {0} /\ Meaningful(query[j])}}

(* Every maximal run of uncovered words, without the punctuation at its ends, *)
(* when it holds a word of two letters.                                       *)
UnresolvedPhrases(query, covered) ==
  LET free == DOMAIN query \ covered
      runs == {s..e : s, e \in free}
      maximal == {r \in runs : /\ r # {} /\ r \subseteq free
                               /\ Min(r) - 1 \notin free /\ Max(r) + 1 \notin free}
      Spoken(r) == {i \in r : query[i] # ","}
  IN {<<Min(Spoken(r)), Max(Spoken(r)) + 1>> :
        r \in {q \in maximal : \E i \in q : Meaningful(query[i])}}

SourceCriterion(query, m) ==
  [start |-> m.start, stop |-> m.stop, field |-> m.field, operator |-> m.operator,
   operands |-> m.operands, strength |-> NearestModifier(query, m, ClauseBounds(query, m))]

RetrievalsUnrestrictedBug(allowed, accepted) ==
  {m.category : m \in accepted} \ {NoCategory}

(* One bounded retrieval for each category a match names and the caller       *)
(* allows; with none named every category is allowed.                         *)
Retrievals(allowed, accepted) ==
  {m.category : m \in {n \in accepted : /\ n.category # NoCategory
                                        /\ allowed = {} \/ n.category \in allowed}}

PlanState(criteria, unresolved) ==
  CASE criteria # {} -> "validated"
    [] criteria = {} /\ unresolved # {} -> "rejected"
    [] OTHER -> "draft"

SourcePlan(query, allowed) ==
  LET accepted   == Select(ScanLexicon(query))
      criteria   == {SourceCriterion(query, m) : m \in accepted}
      unresolved == UnresolvedPhrases(query, CoveredMask(query, accepted))
  IN [criteria |-> criteria, unresolved |-> unresolved,
      retrievals |-> Retrievals(allowed, accepted),
      state |-> PlanState(criteria, unresolved)]
=============================================================================

------------------------------ MODULE QueryPlans ------------------------------
(* The deterministic query planner: screening/query_planner.py.  A query is a *)
(* sequence of tokens: a phrase of the built-in rules, a phrase the investor  *)
(* mapped ("local"), a word that starts executable-looking text ("sql",       *)
(* "shell"), a subjective term, an ignorable word, a separator, or noise.  A  *)
(* span <<s, e>> covers the tokens s..e-1.                                    *)
EXTENDS QueryExecutor

Tokens == {"berlin", "technical", "accelerator", "no", "traction", "local",
           "sql", "shell", "subjective", "ignorable", ",", "noise"}

Rule(phrase, field, operator, operands) ==
  [phrase |-> phrase, field |-> field, operator |-> operator, operands |-> operands]

BuiltinRulesReorderedBug ==
  << Rule(<<"technical">>, "technical_founder", "equals", <<Boolean(TRUE)>>),
     Rule(<<"berlin">>, "geography", "equals", <<Text({"berlin"})>>),
     Rule(<<"traction">>, "enterprise_traction", "equals", <<Boolean(TRUE)>>),
     Rule(<<"no", "traction">>, "enterprise_traction", "equals", <<Boolean(FALSE)>>),
     Rule(<<"accelerator">>, "accelerator", "is_known", <<>>) >>

(* The rules in the order they are tried: a denial before what it denies.     *)
BuiltinRules ==
  << Rule(<<"technical">>, "technical_founder", "equals", <<Boolean(TRUE)>>),
     Rule(<<"berlin">>, "geography", "equals", <<Text({"berlin"})>>),
     Rule(<<"no", "traction">>, "enterprise_traction", "equals", <<Boolean(FALSE)>>),
     Rule(<<"traction">>, "enterprise_traction", "equals", <<Boolean(TRUE)>>),
     Rule(<<"accelerator">>, "accelerator", "is_known", <<>>) >>

(* The investor's own phrase, mapped to one canonical value or to several.    *)
VocabularyRule(entry) ==
  Rule(<<"local">>, entry.field,
       IF Len(entry.values) = 1 THEN "equals" ELSE "any_of", entry.values)

Strength(field) ==
  IF field \in {"sector", "prior_vc_backing"}
  THEN "hard_constraint" ELSE "scored_preference"

Categories(field) ==
  CASE field = "technical_founder" -> {"developer_activity"}
    [] field \in {"geography", "prior_vc_backing"} -> {"company_update"}
    [] field \in {"sector", "enterprise_traction"} -> {"product_launch", "company_update"}
    [] field = "accelerator" -> {"accelerator_cohort"}

Positions(span) == span[1]..(span[2] - 1)
Overlaps(span, spans) == \E other \in spans : span[1] < other[2] /\ span[2] > other[1]

Recognize(query, vocabulary) ==
  LET Occurrences(phrase) ==
        {<<i, i + Len(phrase)>> :
           i \in {j \in 1..(Len(query) + 1 - Len(phrase)) :
                    SubSeq(query, j, j + Len(phrase) - 1) = phrase}}
      Add(found, rule) ==
        found \cup {[span |-> s, field |-> rule.field, operator |-> rule.operator,
                     operands |-> rule.operands] :
                      s \in {o \in Occurrences(rule.phrase) :
                               ~Overlaps(o, {f.span : f \in found})}}
  IN FoldLeft(Add, {}, [i \in DOMAIN vocabulary |-> VocabularyRule(vocabulary[i])]
                         \o BuiltinRules)

FirstOfFieldAllBug(recognized) == recognized

(* The first phrase for a field is planned; a later one is left unresolved.   *)
FirstOfField(recognized) ==
  {r \in recognized : ~\E q \in recognized : q.field = r.field /\ q.span[1] < r.span[1]}

(* Executable-looking text runs up to the next separator.                     *)
UnsafeSpans(query) ==
  LET End(i) == Min({j \in (i + 1)..Len(query) : query[j] = ","} \cup {Len(query) + 1})
      Matches(word) == {<<i, End(i)>> : i \in {j \in DOMAIN query :
                          query[j] = word /\ ~\E k \in 1..(j - 1) : query[k] = word /\ End(k) > j}}
      Add(found, word) == found \cup {m \in Matches(word) : ~Overlaps(m, found)}
  IN FoldLeft(Add, {}, <<"sql", "shell">>)

SubjectiveSpans(query, occupied) ==
  {<<i, i + 1>> : i \in {j \in DOMAIN query : /\ query[j] = "subjective"
                                              /\ ~Overlaps(<<j, j + 1>>, occupied)}}

UnrecognizedSpansTailLostBug(query, occupied) ==
  LET free == {i \in DOMAIN query : \E o \in occupied : i < o[1]}
                \ UNION {Positions(o) : o \in occupied}
  IN {<<i, i + 1>> : i \in {j \in free : query[j] \notin {",", "ignorable"}}}

(* The runs nothing occupies, without the separators at their ends, when they *)
(* hold a word that is not ignorable.                                         *)
UnrecognizedSpans(query, occupied) ==
  LET free == DOMAIN query \ UNION {Positions(o) : o \in occupied}
      runs == {r \in free \X {i + 1 : i \in free} :
                 /\ r[1] < r[2] /\ Positions(r) \subseteq free
                 /\ r[1] - 1 \notin free /\ r[2] \notin free}
      Words(run) == {i \in Positions(run) : query[i] # ","}
  IN {<<Min(Words(r)), Max(Words(r)) + 1>> :
        r \in {q \in runs : \E i \in Words(q) : query[i] # "ignorable"}}

DeduplicateUnresolved(spans) ==
  LET Before(a, b) == a[1] < b[1] \/ (a[1] = b[1] /\ a[2] < b[2])
      Keep(kept, s) == IF Overlaps(s, kept) THEN kept ELSE kept \cup {s}
  IN FoldLeft(Keep, {}, SetToSortSeq(spans, Before))

Criterion(r) ==
  [field |-> r.field, operator |-> r.operator, operands |-> r.operands,
   strength |-> Strength(r.field), span |-> r.span]

(* plan: what is recognised becomes criteria; every other meaningful part of  *)
(* the query stays visible as an unresolved phrase.                           *)
PlanQuery(query, vocabulary, results) ==
  LET recognized == Recognize(query, vocabulary)
      planned    == FirstOfField(recognized)
      duplicates == {r.span : r \in recognized \ planned}
      unsafe     == UnsafeSpans(query)
      occupied   == {r.span : r \in recognized} \cup unsafe
      subjective == SubjectiveSpans(query, occupied)
      unresolved == duplicates \cup unsafe \cup subjective
                      \cup UnrecognizedSpans(query, occupied \cup subjective)
      InOrder(a, b) == a.span[1] < b.span[1]
      ordered    == SetToSortSeq(planned, InOrder)
  IN [state |-> IF planned = {} THEN "rejected" ELSE "validated",
      criteria |-> [i \in DOMAIN ordered |-> Criterion(ordered[i])],
      unresolved |-> DeduplicateUnresolved(unresolved),
      categories |-> UNION {Categories(r.field) : r \in planned},
      max_results |-> results]
=============================================================================

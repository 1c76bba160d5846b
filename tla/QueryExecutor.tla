---------------------------- MODULE QueryExecutor ----------------------------
(* The deterministic query executor and the ledger of human overrides:        *)
(* screening/query_executor.py.  A plan's criteria are compared with the      *)
(* knowledge Memory holds of each opportunity.  A value is <<kind, v>>: a     *)
(* text is the set of its words, a number or a Boolean is itself.  Knowledge  *)
(* is <<"known", values>> or <<"unknown", {}>>.                               *)
EXTENDS Integers, Sequences, SequencesExt, FiniteSetsExt

Boolean(b) == <<"boolean", b>>
Number(n) == <<"number", n>>
Text(words) == <<"text", words>>
Known(values) == <<"known", values>>
Unknown == <<"unknown", {}>>

KnowledgeOperators == {"is_known", "is_unknown"}
OrderingOperators == {"greater_than_or_equal", "less_than_or_equal", "between"}
BooleanOperators == KnowledgeOperators \cup {"equals", "not_equals"}
NumberOperators == BooleanOperators \cup OrderingOperators
TextOperators == BooleanOperators \cup {"any_of", "contains"}

Policy(kind, operators, multiple) ==
  [kind |-> kind, operators |-> operators, multiple |-> multiple]

FieldPolicy(field) ==
  CASE field \in {"technical_founder", "enterprise_traction", "prior_vc_backing"} ->
         Policy("boolean", BooleanOperators, FALSE)
    [] field \in {"check_size", "ownership_target"} ->
         Policy("number", NumberOperators, FALSE)
    [] field \in {"geography", "sector", "accelerator", "source_category"} ->
         Policy("text", TextOperators \cup {"all_of"}, TRUE)
    [] OTHER -> Policy("text", TextOperators, FALSE)

(* The number of operands each operator takes: the criterion's own check.     *)
ArityHolds(criterion) ==
  LET n == Len(criterion.operands) IN
  CASE criterion.operator \in KnowledgeOperators -> n = 0
    [] criterion.operator = "between" ->
         n = 2 /\ \A i \in 1..2 : criterion.operands[i][1] = "number"
    [] criterion.operator \in {"any_of", "all_of"} -> n >= 1
    [] OTHER -> n = 1

(* What the executor demands of a plan before it looks at any record.         *)
ValidPlan(plan, maximum) ==
  /\ plan.state = "validated"
  /\ plan.max_results <= maximum
  /\ \A c \in Range(plan.criteria) :
       /\ c.operator \in FieldPolicy(c.field).operators
       /\ \/ c.operator \in KnowledgeOperators
          \/ \A o \in Range(c.operands) : o[1] = FieldPolicy(c.field).kind

(* A known value must have the shape its field declares.                      *)
ShapeHolds(field, values) ==
  /\ values # {}
  /\ FieldPolicy(field).multiple \/ Cardinality(values) = 1
  /\ \A v \in values : v[1] = FieldPolicy(field).kind

Compare(values, operator, operands) ==
  LET target == operands[1]
      given  == Range(operands)
      number == (CHOOSE v \in values : TRUE)[2]
  IN CASE operator = "equals" -> target \in values
       [] operator = "not_equals" -> target \notin values
       [] operator = "any_of" -> values \cap given # {}
       [] operator = "all_of" -> given \subseteq values
       [] operator = "contains" -> \E v \in values : target[2] \subseteq v[2]
       [] operator = "greater_than_or_equal" -> number >= target[2]
       [] operator = "less_than_or_equal" -> number <= target[2]
       [] operator = "between" -> target[2] <= number /\ number <= operands[2][2]

Knowledge(record, field) ==
  IF field \in DOMAIN record.values THEN record.values[field] ELSE Unknown

EvaluateCriterion(criterion, knowledge) ==
  LET Verdict(holds) == IF holds THEN "match" ELSE "mismatch" IN
  CASE criterion.operator = "is_known" -> Verdict(knowledge[1] = "known")
    [] criterion.operator = "is_unknown" -> Verdict(knowledge[1] = "unknown")
    [] OTHER -> IF knowledge[1] = "unknown" THEN "unknown"
                ELSE Verdict(Compare(knowledge[2], criterion.operator, criterion.operands))

Verdicts(criteria, record) ==
  [i \in DOMAIN criteria |->
     EvaluateCriterion(criteria[i], Knowledge(record, criteria[i].field))]

ExcludedUnknownBug(criteria, record) ==
  \E i \in DOMAIN criteria : /\ criteria[i].strength = "hard_constraint"
                             /\ Verdicts(criteria, record)[i] # "match"

ExcludedPreferenceBug(criteria, record) ==
  \E i \in DOMAIN criteria : Verdicts(criteria, record)[i] = "mismatch"

Excluded(criteria, record) ==
  \E i \in DOMAIN criteria : /\ criteria[i].strength = "hard_constraint"
                             /\ Verdicts(criteria, record)[i] = "mismatch"

MatchedPreferencesAllBug(criteria, record) ==
  Cardinality({i \in DOMAIN criteria : Verdicts(criteria, record)[i] = "match"})

MatchedPreferences(criteria, record) ==
  Cardinality({i \in DOMAIN criteria : /\ criteria[i].strength = "scored_preference"
                                       /\ Verdicts(criteria, record)[i] = "match"})

(* Criteria are read in order until a hard one is a mismatch, so a malformed  *)
(* value is met only when nothing before it has ruled the record out.         *)
Raises(criteria, record) ==
  LET Held(i) == Knowledge(record, criteria[i].field)
      Malformed(i) == Held(i)[1] = "known" /\ ~ShapeHolds(criteria[i].field, Held(i)[2])
  IN \E i \in DOMAIN criteria :
       /\ Malformed(i)
       /\ \A j \in 1..(i - 1) : ~Malformed(j)
       /\ ~Excluded(SubSeq(criteria, 1, i - 1), record)

(* The most matched preferences first, then the identifier.                   *)
RanksBefore(score, r, s) == score[r] > score[s] \/ (score[r] = score[s] /\ r.id < s.id)
Ranked(eligible, score) ==
  [n \in 1..Cardinality(eligible) |->
     CHOOSE r \in eligible : Cardinality({s \in eligible : RanksBefore(score, s, r)}) = n - 1]

(* execute: refuse an unsafe plan, drop what a hard constraint rules out, put *)
(* the rest in order, and cut.                                                *)
Execute(plan, records, maximum) ==
  LET ids      == [i \in DOMAIN records |-> records[i].id]
      eligible == {r \in Range(records) : ~Excluded(plan.criteria, r)}
      score    == [r \in eligible |-> MatchedPreferences(plan.criteria, r)]
      ranked   == Ranked(eligible, score)
      limit    == Min({plan.max_results, maximum})
  IN IF \/ ~ValidPlan(plan, maximum)
        \/ ~IsInjective(ids)
        \/ \E r \in Range(records) : Raises(plan.criteria, r)
     THEN [safe |-> FALSE, items |-> <<>>, eligible |-> 0, truncated |-> FALSE]
     ELSE [safe |-> TRUE,
           items |-> [i \in 1..Min({limit, Cardinality(eligible)}) |-> ranked[i].id],
           eligible |-> Cardinality(eligible),
           truncated |-> Cardinality(eligible) > limit]
=============================================================================

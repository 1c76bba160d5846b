------------------------------ MODULE QueryCases -------------------------------
(* Cases of the query planners and of the query executor.                     *)
EXTENDS RuleCases, QueryPlans, SourcePlanner

CONSTANT MaxTokens   \* the longest query

-----------------------------------------------------------------------------
(* Query planning: every query of at most MaxTokens tokens, with the local    *)
(* phrase mapped to one sector or to two accelerators.                        *)
Vocabularies == { <<[field |-> "sector", values |-> <<Text({"ai"})>>]>>,
                  <<[field |-> "accelerator", values |-> <<Text({"yc"}), Text({"antler"})>>]>> }

PlanAQuery ==
  /\ Fresh
  /\ \E n \in 1..MaxTokens : \E query \in [1..n -> Tokens], v \in Vocabularies :
       Pick([kind |-> "query", query |-> query, plan |-> PlanQuery(query, v, 2)])

Founders == << [id |-> 1, values |-> <<>>],
               [id |-> 2, values |-> [technical_founder |-> Known({Boolean(TRUE)}),
                                      enterprise_traction |-> Known({Boolean(FALSE)}),
                                      geography |-> Known({Text({"berlin"}), Text({"paris"})})]],
               [id |-> 3, values |-> [sector |-> Known({Text({"ai"})}),
                                      accelerator |-> Known({Text({"yc"})})]] >>

(* Whatever the investor writes, no meaningful word is lost: it is part of a  *)
(* criterion or of an unresolved phrase.  Unresolved phrases do not overlap,  *)
(* a denial is never planned as what it denies, no field is constrained       *)
(* twice, and a validated plan is one the executor accepts and can run.       *)
QueryIsAccountedFor ==
  case.kind = "query" =>
    LET query    == case.query
        criteria == Range(case.plan.criteria)
        shown    == {c.span : c \in criteria} \cup case.plan.unresolved
    IN /\ \A i \in DOMAIN query : query[i] \in {",", "ignorable"} \/ \E s \in shown : i \in Positions(s)
       /\ \A s, t \in case.plan.unresolved : s = t \/ Positions(s) \cap Positions(t) = {}
       /\ \A i \in 2..Len(query) : \A c \in criteria :
            query[i - 1] = "no" /\ query[i] = "traction" /\ i \in Positions(c.span)
              => c.operands = <<Boolean(FALSE)>>
       /\ \A c, d \in criteria : c = d \/ c.field # d.field
       /\ (case.plan.state = "validated") = (criteria # {})
       /\ criteria # {} => Execute(case.plan, Founders, 100).safe

-----------------------------------------------------------------------------
(* Sourcing requests of two clauses, the first any of at most MaxTokens words. *)
FirstWords == {"berlin", "ai", "infra", "seed", "series-a", "github", "must", "ideally",
               "without", "to", "or", "m2", "upto", "foo", "x"}
SecondClauses ==
  { [words |-> <<"must", "seed">>, allowed |-> {}],
    [words |-> <<"m2", "to", "m1", "ideally">>, allowed |-> {"accelerator_cohort"}],
    [words |-> <<"foo", "accelerator", "techstars", "technical">>, allowed |-> {"developer_activity"}] }

PlanASourcingRequest ==
  /\ Fresh
  /\ \E n \in 1..MaxTokens : \E first \in [1..n -> FirstWords], second \in SecondClauses :
       Pick([kind |-> "request", first |-> first, second |-> second.words, allowed |-> second.allowed])

(* Clauses do not reach into each other: what a request constrains, and how   *)
(* strongly, is what its clauses do on their own.  No word that says anything *)
(* is lost or told twice, an excluded sector is never also required by the    *)
(* same words, the ends of a range are in order, and a source is searched     *)
(* exactly when a criterion names it and the caller allows it.                *)
SourcingRequestIsAccountedFor ==
  case.kind = "request" =>
    LET query    == case.first \o <<",">> \o case.second
        plan     == SourcePlan(query, case.allowed)
        After(c) == [c EXCEPT !.start = @ + Len(case.first) + 1, !.stop = @ + Len(case.first) + 1]
        Alone(q) == SourcePlan(q, {})
        Spoken(i) == query[i] \notin Stopwords \cup HardModifiers \cup PreferenceModifiers
        shown    == {<<c.start, c.stop>> : c \in plan.criteria} \cup plan.unresolved
        named    == Alone(case.first).retrievals \cup Alone(case.second).retrievals
    IN /\ plan.criteria = Alone(case.first).criteria \cup {After(c) : c \in Alone(case.second).criteria}
       /\ \A s, t \in shown : s = t \/ s[2] <= t[1] \/ t[2] <= s[1]
       /\ \A i \in DOMAIN query :
            Meaningful(query[i]) /\ Spoken(i) => \E s \in shown : i \in s[1]..(s[2] - 1)
       /\ \A c \in plan.criteria :
            /\ c.operator = "between" => c.operands[1] <= c.operands[2]
            /\ c.field = "sector" =>
                 (c.operator = "not_equals") = (\E i \in {c.start - 1, c.start} \cap DOMAIN query : query[i] \in Exclusions)
       /\ plan.retrievals = {category \in named : case.allowed = {} \/ category \in case.allowed}

-----------------------------------------------------------------------------
(* Query execution: every pair of criteria over two fields, on records that   *)
(* differ in what is known of them.                                           *)
Geographies == <<Unknown, Known({Text({"berlin"})}), Known({Text({"paris"})}),
                 Known({Text({"berlin"}), Text({"paris", "north"})})>>
CheckSizes == <<Unknown, Known({Number(1)}), Known({Number(3)})>>
Records ==
  [i \in 1..12 |-> [id |-> i, values |-> [geography |-> Geographies[1 + (i % 4)],
                                         check_size |-> CheckSizes[1 + (i % 3)]]]]

Asked(field, operands) ==
  {c \in [field : {field}, operator : FieldPolicy(field).operators, operands : operands,
          strength : {"hard_constraint", "scored_preference"}] : ArityHolds(c)}
AnyCriterion ==
  Asked("geography", {<<>>, <<Text({"berlin"})>>, <<Text({"north"}), Text({"berlin"})>>})
    \cup Asked("check_size", {<<>>, <<Number(2)>>, <<Number(3)>>, <<Number(0), Number(1)>>})

RunAQuery ==
  /\ Fresh
  /\ \E first, extra \in AnyCriterion :
       Pick([kind |-> "execution", records |-> Records, few |-> 4, first |-> first, extra |-> extra])

KnowsLess(r, s) ==
  \A f \in DOMAIN r.values \cup DOMAIN s.values : Knowledge(r, f) \in {Unknown, Knowledge(s, f)}

(* A hard constraint only narrows the answer and a preference only reorders   *)
(* it; an opportunity is never ruled out for what is not known of it, unless  *)
(* the query asks that it be known; and what a limit cuts has no more matched *)
(* preferences than anything it keeps.                                        *)
AnswersAreFair(records, few, first, extra) ==
  LET Answer(criteria, limit) ==
        Execute([state |-> "validated", criteria |-> criteria, max_results |-> limit],
                records, Len(records))
      one   == Range(Answer(<<first>>, Len(records)).items)
      both  == Range(Answer(<<first, extra>>, Len(records)).items)
      short == Answer(<<first, extra>>, few)
      Score(r) ==
        Cardinality({c \in {first, extra} : /\ c.strength = "scored_preference"
                                           /\ EvaluateCriterion(c, Knowledge(r, c.field)) = "match"})
  IN /\ both \subseteq one
     /\ extra.strength = "scored_preference" => both = one
     /\ \A r, s \in Range(records) :
          /\ s.id \in both /\ KnowsLess(r, s) /\ "is_known" \notin {first.operator, extra.operator}
             => r.id \in both
          /\ r.id \in Range(short.items) /\ s.id \in both \ Range(short.items)
             => Score(s) <= Score(r)
     /\ short.truncated = (both # Range(short.items))

ExecutionIsFair ==
  case.kind = "execution" => AnswersAreFair(case.records, case.few, case.first, case.extra)

(* Nothing a request says is silently lost or invented, and the answer to the *)
(* compiled query is fair to what is not known: the query_planner.py of   *)
(* screening and of ingestion, query_executor.py.                             *)
QueriesAreFair == QueryIsAccountedFor /\ SourcingRequestIsAccountedFor /\ ExecutionIsFair

NextQuery == PlanAQuery \/ PlanASourcingRequest \/ RunAQuery
=============================================================================

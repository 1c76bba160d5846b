------------------------ MODULE InboundGraph_proofs ------------------------
(***************************************************************************)
(* Proofs about InboundGraph, for every set of limits a graph may be       *)
(* configured with.                                                        *)
(*                                                                         *)
(* Two arguments.  The budget: the calls claimed are counted by the stages *)
(* called, and the edges of the graph bound how many can have been called  *)
(* before a stage is refused.  The time: it passes only while some stage   *)
(* is called and not overdue, so each level of the graph begins at most    *)
(* one stage timeout after the level before it.                            *)
(***************************************************************************)
EXTENDS InboundGraph, FiniteSetTheorems, TLAPS

USE NoneAssumption DEF Reads, Stages, Fallbacks

(* The stages that were ever called.                                       *)
Called == {s \in Stages : node[s] # "waiting" /\ audit[s] # "call_budget_exhausted"}

(* The total timeout has answered.                                         *)
CutOff == \E s \in Stages : audit[s] = "graph_timeout"

(* A stage has begun only when those before it have ended.                 *)
EdgesHold ==
  \A s \in Stages : node[s] # "waiting" => \A p \in Predecessors(s) : node[p] = "ended"

(* Unless the total timeout answered for all of them, exactly the stages   *)
(* that have ended have an outcome.                                        *)
OutcomesHold ==
  /\ CutOff => phase = "answered" /\ \A s \in Stages : audit[s] = "graph_timeout"
  /\ ~CutOff => \A s \in Stages : audit[s] = None <=> node[s] # "ended"
  /\ ~CutOff /\ phase = "answered" => AllEnded

(* The calls that can have been made before this stage is refused.         *)
Before(s) == CASE s \in Reads -> 3 [] s = "adversarial" -> 4 [] OTHER -> 5

BudgetHolds ==
  ~CutOff =>
    /\ used = Cardinality(Called)
    /\ \A s \in Stages : audit[s] = "call_budget_exhausted" =>
         used = limits.calls /\ limits.calls < Before(s)

(* The level of a stage: the stage timeouts that may pass before it.       *)
Level(s) == CASE s \in Reads -> 0 [] s = "adversarial" -> 1 [] s = "memo" -> 2

(* Every level begins in time, and so does the end.                        *)
TimeHolds ==
  /\ \A s \in Stages :
       /\ began[s] <= Level(s) * limits.stage
       /\ node[s] = "waiting" => now <= Level(s) * limits.stage
       /\ node[s] = "calling" => now <= began[s] + limits.stage
  /\ now <= 3 * limits.stage

Inv ==
  /\ TypeOK
  /\ EdgesHold
  /\ OutcomesHold
  /\ BudgetHolds
  /\ TimeHolds

-----------------------------------------------------------------------------
(* The limits of a graph.                                                  *)
LEMMA LimitsType ==
  ASSUME TypeOK
  PROVE  /\ limits.calls \in 1..5
         /\ limits.stage \in Nat \ {0} /\ limits.total \in Nat
         /\ limits.total >= limits.stage
  BY LimitsAssumption DEF TypeOK, InboundGraphLimits

(* The edges, one by one.                                                  *)
LEMMA Edges ==
  /\ \A s \in {"market", "idea", "founder"} : Predecessors(s) = {}
  /\ Predecessors("adversarial") = {"market", "idea", "founder"}
  /\ Predecessors("memo") = {"adversarial"}
  BY DEF Predecessors

LEMMA Levels ==
  /\ \A s \in {"market", "idea", "founder"} : Level(s) = 0 /\ Before(s) = 3
  /\ Level("adversarial") = 1 /\ Before("adversarial") = 4
  /\ Level("memo") = 2 /\ Before("memo") = 5
  BY DEF Level, Before

(* What a stage's fallback does: it ends with the code, or the graph fails *)
(* and nothing else has changed.                                           *)
LEMMA FallBackEffect ==
  ASSUME TypeOK, NEW s \in Stages, NEW code \in Fallbacks, FallBack(s, code)
  PROVE  \/ /\ phase' = phase
            /\ node'[s] = "ended" /\ audit'[s] = code
            /\ \A p \in Stages \ {s} : node'[p] = node[p] /\ audit'[p] = audit[p]
            /\ node' \in [Stages -> {"waiting", "calling", "ended"}]
            /\ audit' \in [Stages -> Fallbacks \cup {"live", None}]
         \/ phase' = "failed" /\ node' = node /\ audit' = audit
  BY DEF FallBack, TypeOK

(* A subset has no more elements than the set.                             *)
LEMMA NoMore ==
  ASSUME NEW S, IsFiniteSet(S), NEW n \in Nat, Cardinality(S) = n
  PROVE  \A T \in SUBSET S : IsFiniteSet(T) /\ Cardinality(T) \in Nat /\ Cardinality(T) <= n
<1> SUFFICES ASSUME NEW T \in SUBSET S
             PROVE  IsFiniteSet(T) /\ Cardinality(T) \in Nat /\ Cardinality(T) <= n
  OBVIOUS
<1>1. IsFiniteSet(T) /\ Cardinality(T) <= Cardinality(S)
  BY FS_Subset
<1>2. Cardinality(T) \in Nat
  BY <1>1, FS_CardinalityType
<1>3. QED
  BY <1>1, <1>2

(* Sets of at most two, three and four stages.                             *)
LEMMA FewStages ==
  /\ IsFiniteSet(Stages)
  /\ \A S \in SUBSET Stages : IsFiniteSet(S)
  /\ \A s \in Reads : \A S \in SUBSET (Reads \ {s}) : Cardinality(S) <= 2
  /\ \A S \in SUBSET Reads : Cardinality(S) <= 3
  /\ \A S \in SUBSET (Stages \ {"memo"}) : Cardinality(S) <= 4
<1>1. \A x, y : x # y => IsFiniteSet({x, y}) /\ Cardinality({x, y}) = 2
  <2> SUFFICES ASSUME NEW x, NEW y, x # y
               PROVE  IsFiniteSet({x, y}) /\ Cardinality({x, y}) = 2
    OBVIOUS
  <2>1. {x, y} = {x} \cup {y} /\ y \notin {x}
    OBVIOUS
  <2>2. IsFiniteSet({x}) /\ Cardinality({x}) = 1
    BY FS_Singleton
  <2>3. /\ IsFiniteSet({x} \cup {y})
        /\ Cardinality({x} \cup {y}) = Cardinality({x}) + 1
    BY <2>1, <2>2, FS_AddElement
  <2>4. QED
    BY <2>1, <2>2, <2>3
<1>2. IsFiniteSet(Reads) /\ Cardinality(Reads) = 3
  <2>1. Reads = {"market", "idea"} \cup {"founder"} /\ "founder" \notin {"market", "idea"}
    OBVIOUS
  <2>2. IsFiniteSet({"market", "idea"}) /\ Cardinality({"market", "idea"}) = 2
    BY <1>1
  <2>3. QED
    BY <2>1, <2>2, FS_AddElement
<1>3. IsFiniteSet(Stages \ {"memo"}) /\ Cardinality(Stages \ {"memo"}) = 4
  <2>1. Stages \ {"memo"} = Reads \cup {"adversarial"} /\ "adversarial" \notin Reads
    OBVIOUS
  <2>2. QED
    BY <1>2, <2>1, FS_AddElement
<1>4. IsFiniteSet(Stages)
  <2>1. Stages = (Stages \ {"memo"}) \cup {"memo"}
    OBVIOUS
  <2>2. QED
    BY <1>3, <2>1, FS_AddElement
<1>5. ASSUME NEW s \in Reads PROVE IsFiniteSet(Reads \ {s}) /\ Cardinality(Reads \ {s}) = 2
  BY <1>2, FS_RemoveElement
<1>6. \A S \in SUBSET Stages : IsFiniteSet(S)
  BY <1>4, FS_Subset
<1>7. \A s \in Reads : \A S \in SUBSET (Reads \ {s}) : Cardinality(S) <= 2
  BY <1>5, NoMore
<1>8. \A S \in SUBSET Reads : Cardinality(S) <= 3
  BY <1>2, NoMore
<1>9. \A S \in SUBSET (Stages \ {"memo"}) : Cardinality(S) <= 4
  BY <1>3, NoMore
<1>10. QED
  BY <1>4, <1>6, <1>7, <1>8, <1>9

-----------------------------------------------------------------------------
(* Type correctness, the edges and the outcomes.                           *)

LEMMA TypeStep == TypeOK /\ [Next]_vars => TypeOK'
<1> SUFFICES ASSUME TypeOK, [Next]_vars PROVE TypeOK'
  OBVIOUS
<1>1. ASSUME NEW s \in Stages, Claim(s) PROVE TypeOK'
  <2>1. CASE FallBack(s, "call_budget_exhausted") /\ UNCHANGED <<used, began>>
    BY <1>1, <2>1, FallBackEffect DEF Claim, TypeOK
  <2>2. CASE /\ used < limits.calls /\ used' = used + 1
             /\ began' = [began EXCEPT ![s] = now]
             /\ node' = [node EXCEPT ![s] = "calling"]
             /\ UNCHANGED <<phase, audit>>
    BY <1>1, <2>2, LimitsType DEF Claim, TypeOK
  <2>3. QED
    BY <1>1, <2>1, <2>2 DEF Claim
<1>2. ASSUME NEW s \in Stages, Answer(s) PROVE TypeOK'
  BY <1>2 DEF Answer, TypeOK
<1>3. ASSUME NEW s \in Stages, AnswerUnusably(s) \/ StageTimesOut(s) PROVE TypeOK'
  <2>1. PICK code \in Fallbacks : FallBack(s, code)
    BY <1>3 DEF AnswerUnusably, StageTimesOut
  <2>2. QED
    BY <1>3, <2>1, FallBackEffect DEF AnswerUnusably, StageTimesOut, TypeOK
<1>4. CASE Finish \/ Cancel \/ TimesOut
  BY <1>4 DEF Finish, Cancel, TimesOut, TypeOK
<1>5. CASE Tick
  BY <1>5, LimitsType DEF Tick, TypeOK
<1>6. CASE UNCHANGED vars
  BY <1>6 DEF vars, TypeOK
<1>7. QED
  BY <1>1, <1>2, <1>3, <1>4, <1>5, <1>6 DEF Next

(* What a step may do to one stage: it begins when those before it have    *)
(* ended, is refused, or ends with an outcome, and no other stage moves.   *)
Moves(s) ==
  /\ phase = "running" /\ phase' = "running"
  /\ \A p \in Stages \ {s} : node'[p] = node[p] /\ audit'[p] = audit[p]
  /\ \/ /\ Startable(s) /\ used < limits.calls /\ used' = used + 1
        /\ node'[s] = "calling" /\ audit'[s] = audit[s]
        /\ began' = [began EXCEPT ![s] = now]
     \/ /\ Startable(s) /\ used = limits.calls /\ used' = used /\ began' = began
        /\ node'[s] = "ended" /\ audit'[s] = "call_budget_exhausted"
     \/ /\ node[s] = "calling" /\ used' = used /\ began' = began
        /\ node'[s] = "ended"
        /\ audit'[s] \in {"live", "stage_timeout", "invalid_or_unavailable_live_output"}

(* Every step moves one stage, ends the run of the graph, lets time pass   *)
(* or cuts the graph off.                                                  *)
LEMMA Steps ==
  ASSUME TypeOK, [Next]_vars
  PROVE  /\ limits' = limits
         /\ \/ now' = now /\ \E s \in Stages : Moves(s)
            \/ /\ UNCHANGED <<node, audit, used, began, now>>
               /\ \/ phase' = phase
                  \/ phase = "running" /\ phase' \in {"failed", "cancelled"}
                  \/ phase = "running" /\ AllEnded /\ phase' = "answered"
            \/ Tick
            \/ TimesOut
<1>1. ASSUME NEW s \in Stages, Claim(s)
      PROVE  /\ limits' = limits /\ now' = now
             /\ \/ Moves(s)
                \/ /\ UNCHANGED <<node, audit, used, began>>
                   /\ phase = "running" /\ phase' = "failed"
  <2>1. CASE used = limits.calls /\ FallBack(s, "call_budget_exhausted") /\ UNCHANGED <<used, began>>
    BY <1>1, <2>1, FallBackEffect DEF Claim, Moves, Startable
  <2>2. CASE /\ used < limits.calls /\ used' = used + 1
             /\ began' = [began EXCEPT ![s] = now]
             /\ node' = [node EXCEPT ![s] = "calling"]
             /\ UNCHANGED <<phase, audit>>
    BY <1>1, <2>2 DEF Claim, Moves, Startable, TypeOK
  <2>3. QED
    BY <1>1, <2>1, <2>2 DEF Claim
<1>2. ASSUME NEW s \in Stages, Answer(s)
      PROVE  limits' = limits /\ now' = now /\ Moves(s)
  BY <1>2 DEF Answer, Calling, Moves, TypeOK
<1>3. ASSUME NEW s \in Stages, AnswerUnusably(s) \/ StageTimesOut(s)
      PROVE  /\ limits' = limits /\ now' = now
             /\ \/ Moves(s)
                \/ /\ UNCHANGED <<node, audit, used, began>>
                   /\ phase = "running" /\ phase' = "failed"
  <2>1. PICK code \in {"stage_timeout", "invalid_or_unavailable_live_output"} : FallBack(s, code)
    BY <1>3 DEF AnswerUnusably, StageTimesOut
  <2>2. phase = "running" /\ node[s] = "calling" /\ UNCHANGED <<limits, used, began, now>>
    BY <1>3 DEF AnswerUnusably, StageTimesOut, Overdue, Calling
  <2>3. QED
    BY <2>1, <2>2, FallBackEffect DEF Moves
<1>4. CASE Finish \/ Cancel
  BY <1>4 DEF Finish, Cancel
<1>5. CASE Tick \/ TimesOut
  BY <1>5 DEF Tick, TimesOut
<1>6. CASE UNCHANGED vars
  BY <1>6 DEF vars
<1>7. QED
  BY <1>1, <1>2, <1>3, <1>4, <1>5, <1>6 DEF Next

LEMMA EdgesStep == TypeOK /\ EdgesHold /\ [Next]_vars => EdgesHold'
<1> SUFFICES ASSUME TypeOK, EdgesHold, [Next]_vars PROVE EdgesHold'
  OBVIOUS
<1>1. ASSUME NEW s \in Stages, Moves(s) PROVE EdgesHold'
  <2>1. \A p \in Stages : node[p] = "ended" => node'[p] = "ended"
    BY <1>1 DEF Moves, Startable
  <2>2. ASSUME NEW t \in Stages, node'[t] # "waiting", NEW p \in Predecessors(t)
        PROVE  node'[p] = "ended"
    <3>1. p \in Stages
      BY Edges
    <3>2. node[p] = "ended"
      BY <1>1, <2>2 DEF Moves, Startable, EdgesHold
    <3>3. QED
      BY <2>1, <3>1, <3>2
  <2>3. QED
    BY <2>2 DEF EdgesHold, Predecessors
<1>2. CASE node' = node
  BY <1>2 DEF EdgesHold, Predecessors
<1>3. QED
  BY <1>1, <1>2, Steps DEF Tick, TimesOut

LEMMA OutcomesStep ==
  TypeOK /\ OutcomesHold /\ [Next]_vars => OutcomesHold'
<1> SUFFICES ASSUME TypeOK, OutcomesHold, [Next]_vars PROVE OutcomesHold'
  OBVIOUS
<1>1. ASSUME NEW s \in Stages, Moves(s) PROVE OutcomesHold'
  <2>1. ~CutOff
    BY <1>1 DEF OutcomesHold, Moves
  <2>2. \A t \in Stages : audit'[t] # "graph_timeout"
    BY <1>1, <2>1 DEF Moves, CutOff
  <2>3. \A t \in Stages : audit'[t] = None <=> node'[t] # "ended"
    BY <1>1, <2>1 DEF Moves, OutcomesHold, Startable
  <2>4. QED
    BY <1>1, <2>2, <2>3 DEF OutcomesHold, CutOff, Moves
<1>2. CASE node' = node /\ audit' = audit /\ (phase' = "answered" => phase = "answered" \/ AllEnded)
           /\ (phase = "answered" => phase' = "answered")
  BY <1>2 DEF OutcomesHold, CutOff, AllEnded
<1>3. CASE TimesOut
  <2>1. ~CutOff
    BY <1>3 DEF OutcomesHold, TimesOut
  <2>2. QED
    BY <1>3, <2>1 DEF OutcomesHold, CutOff, TimesOut
<1>4. CASE Tick
  BY <1>2, <1>4 DEF Tick
<1>5. QED
  BY <1>1, <1>2, <1>3, <1>4, Steps

-----------------------------------------------------------------------------
(* The budget.                                                             *)

(* The stages called before a stage that may start.                        *)
LEMMA CalledBefore ==
  ASSUME TypeOK, EdgesHold, NEW s \in Stages, Startable(s)
  PROVE  /\ IsFiniteSet(Called) /\ Cardinality(Called) \in Nat
         /\ s \notin Called
         /\ Cardinality(Called) < Before(s)
<1>1. Called \in SUBSET Stages /\ s \notin Called
  BY DEF Called, Startable
<1>2. IsFiniteSet(Called)
  BY <1>1, FewStages
<1>3. Cardinality(Called) \in Nat
  BY <1>2, FS_CardinalityType
<1>4. CASE s \in Reads
  <2>1. node["adversarial"] = "waiting" /\ node["memo"] = "waiting"
    BY <1>4, Edges DEF EdgesHold, Startable
  <2>2. Called \in SUBSET (Reads \ {s})
    BY <1>4, <2>1 DEF Called, Startable
  <2>3. Cardinality(Called) <= 2
    BY <1>4, <2>2, FewStages
  <2>4. QED
    BY <1>1, <1>2, <1>3, <1>4, <2>3, Levels
<1>5. CASE s = "adversarial"
  <2>1. node["memo"] = "waiting"
    BY <1>5, Edges DEF EdgesHold, Startable
  <2>2. Called \in SUBSET Reads
    BY <1>5, <2>1 DEF Called, Startable
  <2>3. Cardinality(Called) <= 3
    BY <2>2, FewStages
  <2>4. QED
    BY <1>1, <1>2, <1>3, <1>5, <2>3, Levels
<1>6. CASE s = "memo"
  <2>1. Called \in SUBSET (Stages \ {"memo"})
    BY <1>6 DEF Called, Startable
  <2>2. Cardinality(Called) <= 4
    BY <2>1, FewStages
  <2>3. QED
    BY <1>1, <1>2, <1>3, <1>6, <2>2, Levels
<1>7. QED
  BY <1>4, <1>5, <1>6

LEMMA BudgetStep ==
  TypeOK /\ EdgesHold /\ OutcomesHold /\ BudgetHolds /\ [Next]_vars => BudgetHolds'
<1> SUFFICES ASSUME TypeOK, EdgesHold, OutcomesHold, BudgetHolds, [Next]_vars,
                    ~CutOff'
             PROVE  /\ used' = Cardinality(Called')
                    /\ \A s \in Stages : audit'[s] = "call_budget_exhausted" =>
                         used' = limits'.calls /\ limits'.calls < Before(s)
  BY DEF BudgetHolds, Before
<1>1. limits' = limits
  BY Steps
<1>2. ASSUME NEW s \in Stages, Moves(s)
      PROVE  /\ used' = Cardinality(Called')
             /\ \A t \in Stages : audit'[t] = "call_budget_exhausted" =>
                  used' = limits'.calls /\ limits'.calls < Before(t)
  <2>1. ~CutOff
    BY <1>2 DEF OutcomesHold, Moves
  <2>2. /\ used = Cardinality(Called)
        /\ \A t \in Stages : audit[t] = "call_budget_exhausted" =>
             used = limits.calls /\ limits.calls < Before(t)
    BY <2>1 DEF BudgetHolds
  <2>3. CASE /\ Startable(s) /\ used < limits.calls /\ used' = used + 1
             /\ node'[s] = "calling" /\ audit'[s] = audit[s]
    <3>1. audit[s] = None
      BY <2>1, <2>3 DEF OutcomesHold, Startable
    <3>2. Called' = Called \cup {s}
      BY <1>2, <2>3, <3>1 DEF Called, Moves
    <3>3. Cardinality(Called') = Cardinality(Called) + 1
      BY <2>3, <3>2, CalledBefore, FS_AddElement
    <3>4. \A t \in Stages : audit'[t] # "call_budget_exhausted"
      BY <1>2, <2>2, <2>3, LimitsType DEF Moves, TypeOK
    <3>5. QED
      BY <2>2, <2>3, <3>3, <3>4
  <2>4. CASE /\ Startable(s) /\ used = limits.calls /\ used' = used
             /\ node'[s] = "ended" /\ audit'[s] = "call_budget_exhausted"
    <3>1. Called' = Called
      BY <1>2, <2>4 DEF Called, Moves, Startable
    <3>2. limits.calls < Before(s)
      BY <2>2, <2>4, CalledBefore
    <3>3. QED
      BY <1>1, <1>2, <2>2, <2>4, <3>1, <3>2 DEF Moves
  <2>5. CASE /\ node[s] = "calling" /\ used' = used /\ node'[s] = "ended"
             /\ audit'[s] \in {"live", "stage_timeout", "invalid_or_unavailable_live_output"}
    <3>1. audit[s] = None
      BY <2>1, <2>5 DEF OutcomesHold
    <3>2. Called' = Called
      BY <1>2, <2>5, <3>1 DEF Called, Moves
    <3>3. QED
      BY <1>1, <1>2, <2>2, <2>5, <3>2 DEF Moves
  <2>6. QED
    BY <1>2, <2>3, <2>4, <2>5 DEF Moves
<1>3. CASE node' = node /\ audit' = audit /\ used' = used
  BY <1>1, <1>3 DEF BudgetHolds, CutOff, Called
<1>4. CASE TimesOut
  BY <1>1, <1>3, <1>4 DEF TimesOut, CutOff
<1>5. QED
  BY <1>2, <1>3, <1>4, Steps DEF Tick

-----------------------------------------------------------------------------
(* Time.                                                                   *)

(* A stage that may start is claimed before time passes, so it begins no   *)
(* later than the level before it ended.                                   *)
LEMMA MoveInTime ==
  ASSUME TypeOK, TimeHolds, NEW s \in Stages, Moves(s), limits' = limits, now' = now
  PROVE  TimeHolds'
<1>1. limits.stage \in Nat \ {0} /\ now \in Nat /\ began[s] \in Nat
  BY LimitsType DEF TypeOK
<1>2. \A t \in Stages \ {s} : node'[t] = node[t] /\ began'[t] = began[t]
  BY DEF Moves, TypeOK
<1>3. Level(s) \in Nat /\ Level(s) * limits.stage \in Nat
  BY <1>1, Levels
<1>4. CASE Startable(s) /\ node'[s] = "calling" /\ began'[s] = now
  BY <1>1, <1>2, <1>3, <1>4 DEF TimeHolds, Startable, Level
<1>5. CASE node'[s] = "ended" /\ began' = began
  BY <1>2, <1>5 DEF TimeHolds, Level
<1>6. began' = [began EXCEPT ![s] = now] => began'[s] = now
  BY DEF TypeOK
<1>7. QED
  BY <1>4, <1>5, <1>6 DEF Moves

(* While time passes some stage is called and not overdue: which one says  *)
(* what the time may be.                                                   *)
LEMMA TickInTime ==
  ASSUME TypeOK, EdgesHold, TimeHolds, Tick
  PROVE  TimeHolds'
<1>1. limits.stage \in Nat \ {0} /\ now \in Nat /\ \A s \in Stages : began[s] \in Nat
  BY LimitsType DEF TypeOK
<1>2. /\ now' = now + 1 /\ limits' = limits /\ node' = node /\ began' = began
      /\ phase = "running" /\ ~AllEnded
      /\ \A s \in Stages : ~Startable(s) /\ ~Overdue(s)
  BY DEF Tick
<1>3. ASSUME NEW s \in Stages, node[s] = "calling"
      PROVE  now < began[s] + limits.stage
  BY <1>1, <1>2, <1>3 DEF Overdue, Calling
<1>4. ASSUME NEW s \in Reads, node[s] # "ended" PROVE now < limits.stage
  <2>1. node[s] = "calling"
    BY <1>2, <1>4, Edges DEF Startable, TypeOK
  <2>2. began[s] <= 0
    BY <1>1, Levels DEF TimeHolds
  <2>3. QED
    BY <1>1, <1>3, <2>1, <2>2
<1>5. ASSUME node["adversarial"] # "ended" PROVE now < 2 * limits.stage
  <2>1. CASE node["adversarial"] = "waiting"
    <3>1. PICK s \in Reads : node[s] # "ended"
      BY <1>2, <2>1, Edges DEF Startable
    <3>2. QED
      BY <1>1, <1>4, <3>1
  <2>2. CASE node["adversarial"] = "calling"
    <3>1. began["adversarial"] <= limits.stage
      BY <1>1, Levels DEF TimeHolds
    <3>2. QED
      BY <1>1, <1>3, <2>2, <3>1
  <2>3. QED
    BY <1>5, <2>1, <2>2 DEF TypeOK
<1>6. CASE node["memo"] = "waiting"
  <2>1. node["adversarial"] # "ended"
    BY <1>2, <1>6, Edges DEF Startable
  <2>2. now < 2 * limits.stage
    BY <1>5, <2>1
  <2>3. \A s \in Reads : node[s] # "waiting"
    BY <1>2, Edges DEF Startable
  <2>4. node["adversarial"] = "waiting" => now < limits.stage
    <3>1. ASSUME node["adversarial"] = "waiting" PROVE \E s \in Reads : node[s] # "ended"
      BY <1>2, <3>1, Edges DEF Startable
    <3>2. QED
      BY <1>4, <3>1
  <2>5. QED
    BY <1>1, <1>2, <1>3, <2>2, <2>3, <2>4, Levels DEF TimeHolds
<1>7. CASE node["memo"] # "waiting"
  <2>1. node["adversarial"] = "ended" /\ \A s \in Reads : node[s] = "ended"
    BY <1>7, Edges DEF EdgesHold
  <2>2. node["memo"] = "calling"
    BY <1>2, <1>7, <2>1 DEF AllEnded, TypeOK
  <2>3. began["memo"] <= 2 * limits.stage
    BY <1>1, Levels DEF TimeHolds
  <2>4. now < 3 * limits.stage
    BY <1>1, <1>3, <2>2, <2>3
  <2>5. QED
    BY <1>1, <1>2, <1>3, <2>1, <2>2, <2>4, Levels DEF TimeHolds
<1>8. QED
  BY <1>6, <1>7

LEMMA TimeStep ==
  TypeOK /\ EdgesHold /\ TimeHolds /\ [Next]_vars => TimeHolds'
<1> SUFFICES ASSUME TypeOK, EdgesHold, TimeHolds, [Next]_vars PROVE TimeHolds'
  OBVIOUS
<1>1. CASE UNCHANGED <<limits, node, began, now>>
  BY <1>1 DEF TimeHolds, Level
<1>2. QED
  BY <1>1, Steps, MoveInTime, TickInTime DEF TimesOut

-----------------------------------------------------------------------------
(* The invariant and what follows from it.                                 *)

LEMMA InvInit == Init => Inv
<1> SUFFICES ASSUME Init PROVE Inv
  OBVIOUS
<1>1. TypeOK
  BY LimitsAssumption DEF Init, TypeOK, InboundGraphLimits
<1>2. ~CutOff
  BY DEF Init, CutOff
<1>3. EdgesHold /\ OutcomesHold
  BY <1>2 DEF Init, EdgesHold, OutcomesHold
<1>4. BudgetHolds
  <2>1. Called = {}
    BY DEF Init, Called
  <2>2. QED
    BY <2>1, FS_EmptySet DEF Init, BudgetHolds
<1>5. TimeHolds
  <2>1. limits.stage \in Nat
    BY <1>1, LimitsType
  <2>2. \A s \in Stages : 0 <= Level(s) * limits.stage
    BY <2>1, Levels
  <2>3. QED
    BY <2>1, <2>2 DEF Init, TimeHolds
<1>6. QED
  BY <1>1, <1>3, <1>4, <1>5 DEF Inv

THEOREM Graphs == Spec => []Inv
<1>1. Inv /\ [Next]_vars => Inv'
  BY TypeStep, EdgesStep, OutcomesStep, BudgetStep, TimeStep DEF Inv
<1>2. QED
  BY InvInit, <1>1, PTL DEF Spec

(* However the stages overlap the budget counts every call once, and no    *)
(* stage is refused that the budget could still have served.               *)
THEOREM BudgetAlways == Spec => []BudgetCountsCalls
<1>1. Inv => BudgetCountsCalls
  <2> SUFFICES ASSUME Inv, phase # "answered" \/ audit["memo"] # "graph_timeout"
               PROVE  /\ used = Cardinality({s \in Stages :
                           \/ node[s] = "calling"
                           \/ audit[s] \in {"live", "stage_timeout",
                                            "invalid_or_unavailable_live_output"}})
                      /\ \A s \in Stages : audit[s] = "call_budget_exhausted" =>
                           /\ used = limits.calls
                           /\ limits.calls < CASE s \in Reads -> 3
                                                [] s = "adversarial" -> 4 [] OTHER -> 5
    BY DEF Inv, BudgetCountsCalls
  <2>1. ~CutOff
    BY DEF Inv, OutcomesHold
  <2>2. Called = {s \in Stages :
                   \/ node[s] = "calling"
                   \/ audit[s] \in {"live", "stage_timeout",
                                    "invalid_or_unavailable_live_output"}}
    BY <2>1 DEF Inv, OutcomesHold, Called, CutOff, TypeOK
  <2>3. QED
    BY <2>1, <2>2 DEF Inv, BudgetHolds, Before
<1>2. QED
  BY Graphs, <1>1, PTL

(* An answer mixes nothing the stages had with what the total timeout      *)
(* answers, and leaves no stage out.                                       *)
THEOREM AnswersWhole == Spec => []AnswerIsWhole
<1>1. Inv => AnswerIsWhole
  BY DEF Inv, OutcomesHold, CutOff, AllEnded, AnswerIsWhole
<1>2. QED
  BY Graphs, <1>1, PTL

(* With more time than three stages in a row the total timeout never cuts  *)
(* a graph off.                                                            *)
THEOREM NeverCutOff == Spec => []StageTimeoutsSuffice
<1> DEFINE Uncut == limits.total > 3 * limits.stage => ~CutOff
<1>1. Init => Uncut
  BY DEF Init, CutOff
<1>2. Inv /\ Uncut /\ [Next]_vars => Uncut'
  <2> SUFFICES ASSUME Inv, Uncut, [Next]_vars, limits'.total > 3 * limits'.stage
               PROVE  ~CutOff'
    OBVIOUS
  <2>1. TypeOK /\ limits' = limits /\ ~CutOff
    BY Steps DEF Inv
  <2>2. ~TimesOut
    BY <2>1, LimitsType DEF Inv, TimeHolds, TypeOK, TimesOut
  <2>3. CASE \E s \in Stages : Moves(s)
    BY <2>1, <2>3 DEF Moves, CutOff
  <2>4. CASE audit' = audit
    BY <2>1, <2>4 DEF CutOff
  <2>5. QED
    BY <2>1, <2>2, <2>3, <2>4, Steps DEF Tick
<1>3. Uncut => StageTimeoutsSuffice
  BY DEF StageTimeoutsSuffice, CutOff
<1>4. QED
  BY Graphs, <1>1, <1>2, <1>3, PTL DEF Spec
=============================================================================

-------------------------- MODULE Screening_proofs --------------------------
(***************************************************************************)
(* Proofs about Screening, for any number of runs, decks and Decisions.    *)
(*                                                                         *)
(* None of the three invariants is inductive.  What they lack is where     *)
(* each run stands: that a prepared fallback is its run's own and by the   *)
(* rules, that a task holds the run it drives to the status the task has   *)
(* reached, and that no Decision reviewed an assessment not yet accepted.  *)
(***************************************************************************)
EXTENDS Screening, TLAPS

USE ScreeningAssumption

(* What is known of a run from where its background task stands.           *)
TasksHoldRuns ==
  \A r \in Runs :
    /\ task[r] = "none" <=> prepared[r] = None
    /\ task[r] = "none" => run[r] \in {"unused", "succeeded"}
    /\ task[r] = "waiting" => run[r] = "queued"
    /\ task[r] \in {"analyzing", "cancelled"} => run[r] = "running"
    /\ task[r] = "done" => run[r] \in Ended
    /\ prepared[r] # None => prepared[r].run = r /\ prepared[r].by = "rules"

(* A Decision reviewed an assessment that had been accepted.               *)
ReviewedWasAccepted ==
  \A n \in DOMAIN decisions : decisions[n].reviewed \in DOMAIN assessments

HistoryInv ==
  /\ TypeOK
  /\ TasksHoldRuns
  /\ RunsMatchHistory
  /\ ReviewedWasAccepted

CaseInv ==
  /\ CaseMatchesHistory
  /\ AdvanceNeedsReadiness

Inv == HistoryInv /\ CaseInv

-----------------------------------------------------------------------------
(* The last of a history one longer is what was added, the earlier ones    *)
(* stay in their places.                                                   *)
LEMMA Appended ==
  ASSUME NEW S, NEW s \in Seq(S), NEW x \in S
  PROVE  /\ Append(s, x) \in Seq(S)
         /\ Append(s, x) # <<>>
         /\ Len(Append(s, x)) = Len(s) + 1
         /\ DOMAIN Append(s, x) = DOMAIN s \cup {Len(s) + 1}
         /\ DOMAIN s = 1 .. Len(s) /\ Len(s) \in Nat
         /\ \A i \in DOMAIN s : Append(s, x)[i] = s[i]
         /\ Append(s, x)[Len(s) + 1] = x
  OBVIOUS

(* The assessment made by the rules at any moment is one.                  *)
LEMMA FullAssessmentType ==
  ASSUME TypeOK, NEW r \in Runs
  PROVE  /\ FullAssessment(r) \in Assessment
         /\ FullAssessment(r) # None
         /\ FullAssessment(r).run = r /\ FullAssessment(r).by = "rules"
  BY DEF FullAssessment, TypeOK, Assessment

(* What the graph proposes for a prepared run is that run's assessment,    *)
(* from the same projection.                                               *)
LEMMA ProposalType ==
  ASSUME NEW p \in Assessment, NEW c \in Nat
  PROVE  LET a == [p EXCEPT !.by = "graph", !.at = c] IN
         /\ a \in Assessment
         /\ a.run = p.run /\ a.deck = p.deck /\ a.by = "graph"
  BY DEF Assessment

(* What a live screening publishes when it ends: its fallback or the       *)
(* graph's proposal on it, with an outcome that tells them apart.          *)
Published(r, a, outcome) ==
  /\ a \in Assessment
  /\ a.run = r /\ a.deck = prepared[r].deck
  /\ outcome \in Ended
  /\ a.by = "rules" => outcome = "partially_succeeded"

LEMMA LiveScreeningEnds ==
  ASSUME TypeOK, TasksHoldRuns, NEW r \in Runs,
         AcceptLiveScreening(r) \/ AcceptLiveScreeningFailure(r)
  PROVE  /\ clock' = clock + 1
         /\ \E a \in Assessment, outcome \in Ended :
              Published(r, a, outcome) /\ Finish(r, a, outcome)
<1>1. task[r] = "analyzing"
  BY DEF AcceptLiveScreening, AcceptLiveScreeningFailure, Finish
<1>2. prepared[r] \in Assessment /\ prepared[r].run = r /\ prepared[r].by = "rules"
  BY <1>1 DEF TypeOK, TasksHoldRuns
<1>3. CASE AcceptLiveScreening(r)
  <2>1. PICK outcome \in Ended :
          Finish(r, [prepared[r] EXCEPT !.by = "graph", !.at = clock], outcome)
    BY <1>3 DEF AcceptLiveScreening
  <2>2. PICK a : a = [prepared[r] EXCEPT !.by = "graph", !.at = clock]
    OBVIOUS
  <2>3. a \in Assessment /\ a.run = r /\ a.deck = prepared[r].deck /\ a.by = "graph"
    BY <1>2, <2>2, ProposalType DEF TypeOK
  <2>4. Published(r, a, outcome)
    BY <2>3 DEF Published
  <2>5. QED
    BY <1>3, <2>1, <2>2, <2>3, <2>4 DEF AcceptLiveScreening
<1>4. CASE AcceptLiveScreeningFailure(r)
  <2>1. Published(r, prepared[r], "partially_succeeded")
    BY <1>2 DEF Published, Ended
  <2>2. QED
    BY <1>2, <1>4, <2>1 DEF AcceptLiveScreeningFailure, Ended
<1>5. QED
  BY <1>3, <1>4

-----------------------------------------------------------------------------
(* Type correctness.                                                       *)

LEMMA TypeStep == TypeOK /\ TasksHoldRuns /\ [Next]_vars => TypeOK'
<1> SUFFICES ASSUME TypeOK, TasksHoldRuns, [Next]_vars PROVE TypeOK'
  OBVIOUS
<1> DEFINE Decision == [reviewed : Nat, disposition : Dispositions]
<1>1. ASSUME NEW d \in Decks, AcceptDeck(d) PROVE TypeOK'
  BY <1>1 DEF TypeOK, AcceptDeck
<1>2. ASSUME NEW r \in Runs, StartScreening(r) PROVE TypeOK'
  <2>1. assessments' \in Seq(Assessment)
    BY <1>2, FullAssessmentType DEF StartScreening, TypeOK
  <2>2. founder' \in [stage : {"received", "needs_information", "under_review", "complete"},
                      outcome : Dispositions \cup {None}]
    BY <1>2 DEF StartScreening, TypeOK
  <2>3. QED
    BY <1>2, <2>1, <2>2 DEF StartScreening, TypeOK, Ended
<1>3. ASSUME NEW r \in Runs, QueueLiveScreening(r) PROVE TypeOK'
  BY <1>3, FullAssessmentType DEF QueueLiveScreening, TypeOK
<1>4. ASSUME NEW r \in Runs, MarkRunning(r) \/ Cancel(r) PROVE TypeOK'
  BY <1>4 DEF MarkRunning, Cancel, TypeOK
<1>5. ASSUME NEW r \in Runs, AcceptLiveScreening(r) \/ AcceptLiveScreeningFailure(r)
      PROVE  TypeOK'
  <2>1. PICK a \in Assessment, outcome \in Ended : Finish(r, a, outcome)
    BY <1>5, LiveScreeningEnds
  <2>2. clock' \in Nat
    BY <1>5, LiveScreeningEnds DEF TypeOK
  <2>3. assessments' \in Seq(Assessment) /\ stored' \subseteq Assessment
    BY <2>1 DEF Finish, Publish, Store, TypeOK
  <2>4. /\ founder' \in [stage : {"received", "needs_information", "under_review", "complete"},
                         outcome : Dispositions \cup {None}]
        /\ status' \in {"readiness_review", "blocked"}
    BY <2>1 DEF Finish, Publish, TypeOK
  <2>5. QED
    BY <2>1, <2>2, <2>3, <2>4 DEF Finish, Publish, TypeOK, Ended
<1>6. ASSUME NEW i \in DOMAIN assessments, NEW disposition \in Dispositions,
             RecordDecision(i, disposition)
      PROVE  TypeOK'
  <2>1. [reviewed |-> i, disposition |-> disposition] \in Decision
    BY DEF TypeOK
  <2>2. decisions' \in Seq(Decision)
    BY <1>6, <2>1 DEF RecordDecision, TypeOK
  <2>3. QED
    BY <1>6, <2>2 DEF RecordDecision, TypeOK
<1>7. CASE UNCHANGED vars
  BY <1>7 DEF vars, TypeOK
<1>8. QED
  BY <1>1, <1>2, <1>3, <1>4, <1>5, <1>6, <1>7 DEF Next

-----------------------------------------------------------------------------
(* Where each run stands.                                                  *)

(* A step that concerns one run leaves the others where they stood.        *)
LEMMA TasksStep == TypeOK /\ TasksHoldRuns /\ [Next]_vars => TasksHoldRuns'
<1> SUFFICES ASSUME TypeOK, TasksHoldRuns, [Next]_vars, NEW q \in Runs
             PROVE  /\ task'[q] = "none" <=> prepared'[q] = None
                    /\ task'[q] = "none" => run'[q] \in {"unused", "succeeded"}
                    /\ task'[q] = "waiting" => run'[q] = "queued"
                    /\ task'[q] \in {"analyzing", "cancelled"} => run'[q] = "running"
                    /\ task'[q] = "done" => run'[q] \in Ended
                    /\ prepared'[q] # None =>
                         prepared'[q].run = q /\ prepared'[q].by = "rules"
  BY DEF TasksHoldRuns
<1> USE DEF TasksHoldRuns
<1>1. ASSUME UNCHANGED <<run, prepared, task>> PROVE TasksHoldRuns'
  BY <1>1
<1>2. ASSUME NEW r \in Runs, StartScreening(r) PROVE TasksHoldRuns'
  BY <1>2 DEF StartScreening, TypeOK
<1>3. ASSUME NEW r \in Runs, QueueLiveScreening(r) PROVE TasksHoldRuns'
  BY <1>3, FullAssessmentType DEF QueueLiveScreening, TypeOK
<1>4. ASSUME NEW r \in Runs, MarkRunning(r) PROVE TasksHoldRuns'
  BY <1>4 DEF MarkRunning, TypeOK
<1>5. ASSUME NEW r \in Runs, AcceptLiveScreening(r) \/ AcceptLiveScreeningFailure(r)
      PROVE  TasksHoldRuns'
  <2>1. PICK a \in Assessment, outcome \in Ended : Finish(r, a, outcome)
    BY <1>5, LiveScreeningEnds
  <2>2. QED
    BY <2>1 DEF Finish, Publish, TypeOK
<1>6. ASSUME NEW r \in Runs, Cancel(r) PROVE TasksHoldRuns'
  BY <1>6 DEF Cancel, TypeOK
<1>7. QED
  BY <1>1, <1>2, <1>3, <1>4, <1>5, <1>6 DEF Next, AcceptDeck, RecordDecision, vars

-----------------------------------------------------------------------------
(* Runs and history.                                                       *)

(* The part of RunsMatchHistory about one accepted assessment.             *)
Faithful(a) ==
  /\ a.by = "rules" /\ prepared[a.run] # None =>
       run[a.run] = "partially_succeeded"
  /\ prepared[a.run] # None => a.deck = prepared[a.run].deck

(* A run that ends with one assessment, its own, when it had none.         *)
LEMMA OneMore ==
  ASSUME TypeOK, TypeOK', TasksHoldRuns, RunsMatchHistory,
         NEW r \in Runs, run[r] \notin Ended,
         NEW a \in Assessment, a.run = r,
         NEW outcome \in Ended,
         assessments' = Append(assessments, a),
         run' = [run EXCEPT ![r] = outcome],
         prepared' = prepared,
         stored' \subseteq stored \cup {a},
         Faithful(a)'
  PROVE  RunsMatchHistory'
<1>1. assessments \in Seq(Assessment)
  BY DEF TypeOK
<1> DEFINE n == Len(assessments)
<1>2. /\ DOMAIN assessments' = DOMAIN assessments \cup {n + 1}
      /\ DOMAIN assessments = 1 .. n /\ n \in Nat
      /\ \A i \in DOMAIN assessments : assessments'[i] = assessments[i]
      /\ assessments'[n + 1] = a
  BY <1>1, Appended
<1> HIDE DEF n
<1>3. run'[r] = outcome /\ \A q \in Runs \ {r} : run'[q] = run[q]
  BY DEF TypeOK
<1>4. \A i \in DOMAIN assessments : assessments[i] \in Assessment
  BY <1>1
<1>5. \A i \in DOMAIN assessments : assessments[i].run \in Runs \ {r}
  <2>1. ~ \E i \in DOMAIN assessments : assessments[i].run = r
    BY DEF RunsMatchHistory
  <2>2. QED
    BY <1>4, <2>1 DEF Assessment
<1>6. ASSUME NEW q \in Runs
      PROVE  run'[q] \in Ended <=> \E i \in DOMAIN assessments' : assessments'[i].run = q
  <2>1. CASE q = r
    BY <1>2, <1>3, <2>1
  <2>2. CASE q # r
    BY <1>2, <1>3, <2>2 DEF RunsMatchHistory
  <2>3. QED
    BY <2>1, <2>2
<1>7. \A i, j \in DOMAIN assessments' :
        assessments'[i].run = assessments'[j].run => i = j
  BY <1>2, <1>5 DEF RunsMatchHistory
<1>8. \A s \in stored' : \E i \in DOMAIN assessments' : assessments'[i] = s
  BY <1>2 DEF RunsMatchHistory
<1>9. ASSUME NEW i \in DOMAIN assessments' PROVE Faithful(assessments[i])'
  <2>1. CASE i = n + 1
    BY <1>2, <2>1
  <2>2. CASE i \in DOMAIN assessments
    <3>1. PICK b : b = assessments[i]
      OBVIOUS
    <3>2. assessments'[i] = b /\ b.run \in Runs \ {r}
      BY <1>2, <1>5, <2>2, <3>1
    <3>3. Faithful(b)
      BY <2>2, <3>1 DEF RunsMatchHistory, Faithful
    <3>4. Faithful(b)'
      BY <1>3, <3>2, <3>3 DEF Faithful
    <3>5. QED
      BY <3>2, <3>4 DEF Faithful
  <2>3. QED
    BY <1>2, <2>1, <2>2
<1>10. QED
  BY <1>6, <1>7, <1>8, <1>9 DEF RunsMatchHistory, Faithful

LEMMA HistoryStep ==
  TypeOK /\ TasksHoldRuns /\ RunsMatchHistory /\ [Next]_vars => RunsMatchHistory'
<1> SUFFICES ASSUME TypeOK, TasksHoldRuns, RunsMatchHistory, [Next]_vars
             PROVE  RunsMatchHistory'
  OBVIOUS
<1>1. TypeOK'
  BY TypeStep
<1>2. ASSUME UNCHANGED <<run, prepared, assessments, stored>> PROVE RunsMatchHistory'
  BY <1>1, <1>2 DEF RunsMatchHistory
<1>3. ASSUME NEW r \in Runs, StartScreening(r) PROVE RunsMatchHistory'
  <2>1. PICK a \in Assessment : a = FullAssessment(r) /\ a.run = r
    BY FullAssessmentType
  <2>2. prepared[r] = None /\ run[r] \notin Ended
    BY <1>3 DEF StartScreening, TasksHoldRuns, Ended
  <2>3. /\ assessments' = Append(assessments, a)
        /\ run' = [run EXCEPT ![r] = "succeeded"]
        /\ prepared' = prepared /\ stored' = stored
    BY <1>3, <2>1 DEF StartScreening
  <2>4. Faithful(a)'
    BY <2>1, <2>2, <2>3 DEF Faithful
  <2>5. "succeeded" \in Ended
    BY DEF Ended
  <2>6. QED
    BY <1>1, <2>1, <2>2, <2>3, <2>4, <2>5, OneMore
<1>4. ASSUME NEW r \in Runs, QueueLiveScreening(r) \/ MarkRunning(r)
      PROVE  RunsMatchHistory'
  <2>1. /\ run[r] \notin Ended /\ run'[r] \notin Ended
        /\ \A q \in Runs \ {r} : run'[q] = run[q] /\ prepared'[q] = prepared[q]
        /\ assessments' = assessments /\ stored' = stored
    BY <1>4 DEF QueueLiveScreening, MarkRunning, TasksHoldRuns, TypeOK, Ended
  <2>2. \A i \in DOMAIN assessments : assessments[i].run \in Runs \ {r}
    <3>1. \A i \in DOMAIN assessments : assessments[i] \in Assessment
      BY DEF TypeOK
    <3>2. QED
      BY <2>1, <3>1 DEF RunsMatchHistory, Assessment
  <2>3. \A q \in Runs :
          run'[q] \in Ended <=> \E i \in DOMAIN assessments : assessments[i].run = q
    BY <2>1, <2>2 DEF RunsMatchHistory
  <2>4. QED
    BY <1>1, <2>1, <2>2, <2>3 DEF RunsMatchHistory
<1>5. ASSUME NEW r \in Runs, AcceptLiveScreening(r) \/ AcceptLiveScreeningFailure(r)
      PROVE  RunsMatchHistory'
  <2>1. PICK a \in Assessment, outcome \in Ended :
          Published(r, a, outcome) /\ Finish(r, a, outcome)
    BY <1>5, LiveScreeningEnds
  <2>2. run[r] \notin Ended
    BY <2>1 DEF Finish, TasksHoldRuns, Ended
  <2>3. /\ assessments' = Append(assessments, a)
        /\ run' = [run EXCEPT ![r] = outcome]
        /\ prepared' = prepared /\ stored' \subseteq stored \cup {a}
    BY <2>1 DEF Finish, Publish, Store
  <2>4. Faithful(a)'
    BY <2>1, <2>3 DEF Faithful, Published, TypeOK
  <2>5. QED
    BY <1>1, <2>1, <2>2, <2>3, <2>4, OneMore DEF Published
<1>6. QED
  BY <1>2, <1>3, <1>4, <1>5 DEF Next, AcceptDeck, Cancel, RecordDecision, vars

(* What a Decision reviewed stays where it was reviewed.                   *)
LEMMA ReviewedStep ==
  TypeOK /\ TasksHoldRuns /\ ReviewedWasAccepted /\ [Next]_vars =>
    /\ ReviewedWasAccepted'
    /\ \A i \in DOMAIN assessments :
         i \in DOMAIN assessments' /\ assessments'[i] = assessments[i]
<1> SUFFICES ASSUME TypeOK, TasksHoldRuns, ReviewedWasAccepted, [Next]_vars
             PROVE  /\ ReviewedWasAccepted'
                    /\ \A i \in DOMAIN assessments :
                         i \in DOMAIN assessments' /\ assessments'[i] = assessments[i]
  OBVIOUS
<1>1. ASSUME UNCHANGED <<assessments, decisions>>
      PROVE  /\ ReviewedWasAccepted'
             /\ \A i \in DOMAIN assessments :
                  i \in DOMAIN assessments' /\ assessments'[i] = assessments[i]
  BY <1>1 DEF ReviewedWasAccepted
<1>2. ASSUME NEW a \in Assessment, assessments' = Append(assessments, a),
             decisions' = decisions
      PROVE  /\ ReviewedWasAccepted'
             /\ \A i \in DOMAIN assessments :
                  i \in DOMAIN assessments' /\ assessments'[i] = assessments[i]
  <2>1. assessments \in Seq(Assessment)
    BY DEF TypeOK
  <2>2. \A i \in DOMAIN assessments :
          i \in DOMAIN assessments' /\ assessments'[i] = assessments[i]
    BY <1>2, <2>1, Appended
  <2>3. QED
    BY <1>2, <2>2 DEF ReviewedWasAccepted
<1>3. ASSUME NEW i \in DOMAIN assessments, NEW disposition \in Dispositions,
             RecordDecision(i, disposition)
      PROVE  /\ ReviewedWasAccepted'
             /\ \A j \in DOMAIN assessments :
                  j \in DOMAIN assessments' /\ assessments'[j] = assessments[j]
  BY <1>3 DEF RecordDecision, ReviewedWasAccepted, TypeOK
<1>4. ASSUME NEW r \in Runs, StartScreening(r)
      PROVE  \E a \in Assessment :
               assessments' = Append(assessments, a) /\ decisions' = decisions
  BY <1>4, FullAssessmentType DEF StartScreening
<1>5. ASSUME NEW r \in Runs, AcceptLiveScreening(r) \/ AcceptLiveScreeningFailure(r)
      PROVE  \E a \in Assessment :
               assessments' = Append(assessments, a) /\ decisions' = decisions
  <2>1. \E a \in Assessment, outcome \in Ended : Finish(r, a, outcome)
    BY <1>5, LiveScreeningEnds
  <2>2. QED
    BY <2>1 DEF Finish, Publish
<1>6. QED
  BY <1>1, <1>2, <1>3, <1>4, <1>5
     DEF Next, AcceptDeck, QueueLiveScreening, MarkRunning, Cancel, vars

-----------------------------------------------------------------------------
(* The case and the Decisions.                                             *)

(* When an assessment is appended and the case and the founder's stage say *)
(* that it awaits a Decision, they agree with the longer history.          *)
LEMMA AwaitsDecision ==
  ASSUME TypeOK, ReviewedWasAccepted, CaseMatchesHistory,
         NEW a \in Assessment,
         assessments' = Append(assessments, a),
         decisions' = decisions,
         status' \in {"blocked", "readiness_review"},
         prepared'[a.run] # None => (status' = "readiness_review" <=> Ready(a)),
         founder'.outcome = founder.outcome,
         founder'.stage # "complete"
  PROVE  CaseMatchesHistory'
<1>1. assessments \in Seq(Assessment) /\ decisions \in Seq([reviewed : Nat, disposition : Dispositions])
  BY DEF TypeOK
<1>2. /\ Len(assessments') = Len(assessments) + 1 /\ Len(assessments) \in Nat
      /\ assessments' # <<>>
      /\ assessments'[Len(assessments')] = a
      /\ DOMAIN assessments = 1 .. Len(assessments)
  BY <1>1, Appended
<1>3. decisions # <<>> => Decided.reviewed # Len(assessments')
  <2>1. decisions # <<>> => Len(decisions) \in DOMAIN decisions
    BY <1>1
  <2>2. QED
    BY <1>2, <2>1 DEF ReviewedWasAccepted, Decided
<1>4. Decided' = Decided /\ Latest' = a
  BY <1>2 DEF Decided, Latest
<1>5. QED
  BY <1>2, <1>3, <1>4 DEF CaseMatchesHistory, Ready

LEMMA CaseStep ==
  TypeOK /\ TasksHoldRuns /\ ReviewedWasAccepted /\ CaseMatchesHistory /\ [Next]_vars
    => CaseMatchesHistory'
<1> SUFFICES ASSUME TypeOK, TasksHoldRuns, ReviewedWasAccepted, CaseMatchesHistory,
                    [Next]_vars
             PROVE  CaseMatchesHistory'
  OBVIOUS
<1>1. ASSUME UNCHANGED <<prepared, assessments, decisions, status, founder>>
      PROVE  CaseMatchesHistory'
  BY <1>1 DEF CaseMatchesHistory, Latest, Decided, Ready
<1>2. ASSUME NEW r \in Runs, StartScreening(r) PROVE CaseMatchesHistory'
  <2>1. PICK a \in Assessment : a = FullAssessment(r) /\ a.run = r
    BY FullAssessmentType
  <2>2. /\ assessments' = Append(assessments, a) /\ decisions' = decisions
        /\ status' = "blocked" /\ prepared' = prepared
    BY <1>2, <2>1 DEF StartScreening
  <2>3. founder'.outcome = founder.outcome /\ founder'.stage # "complete"
    BY <1>2 DEF StartScreening, TypeOK
  <2>4. prepared'[a.run] = None
    BY <1>2, <2>1, <2>2 DEF StartScreening, TasksHoldRuns
  <2>5. QED
    BY <2>2, <2>3, <2>4, AwaitsDecision
<1>3. ASSUME NEW r \in Runs, QueueLiveScreening(r) PROVE CaseMatchesHistory'
  BY <1>3 DEF QueueLiveScreening, CaseMatchesHistory, Decided
<1>4. ASSUME NEW r \in Runs, AcceptLiveScreening(r) \/ AcceptLiveScreeningFailure(r)
      PROVE  CaseMatchesHistory'
  <2>1. PICK a \in Assessment, outcome \in Ended : Finish(r, a, outcome)
    BY <1>4, LiveScreeningEnds
  <2>2. /\ assessments' = Append(assessments, a) /\ decisions' = decisions
        /\ status' = IF Ready(a) THEN "readiness_review" ELSE "blocked"
    BY <2>1 DEF Finish, Publish
  <2>3. founder'.outcome = founder.outcome /\ founder'.stage # "complete"
    BY <2>1 DEF Finish, Publish, TypeOK
  <2>4. QED
    BY <2>2, <2>3, AwaitsDecision
<1>5. ASSUME NEW i \in DOMAIN assessments, NEW disposition \in Dispositions,
             RecordDecision(i, disposition)
      PROVE  CaseMatchesHistory'
  <2>1. PICK d \in [reviewed : Nat, disposition : Dispositions] :
          d.reviewed = i /\ d.disposition = disposition
          /\ decisions' = Append(decisions, d)
    BY <1>5 DEF RecordDecision, TypeOK
  <2>2. decisions' # <<>> /\ Decided' = d
    BY <2>1 DEF TypeOK, Decided
  <2>3. /\ i = Len(assessments) /\ assessments' = assessments /\ status' = "decided"
        /\ founder'.stage = "complete" /\ founder'.outcome = disposition
    BY <1>5 DEF RecordDecision
  <2>4. QED
    BY <2>1, <2>2, <2>3 DEF CaseMatchesHistory
<1>6. QED
  BY <1>1, <1>2, <1>3, <1>4, <1>5 DEF Next, AcceptDeck, MarkRunning, Cancel, vars

LEMMA AdvanceStep ==
  TypeOK /\ TasksHoldRuns /\ ReviewedWasAccepted /\ AdvanceNeedsReadiness /\ [Next]_vars
    => AdvanceNeedsReadiness'
<1> SUFFICES ASSUME TypeOK, TasksHoldRuns, ReviewedWasAccepted, AdvanceNeedsReadiness, [Next]_vars
             PROVE  AdvanceNeedsReadiness'
  OBVIOUS
<1>1. \A n \in DOMAIN decisions :
        assessments'[decisions[n].reviewed] = assessments[decisions[n].reviewed]
  BY ReviewedStep DEF ReviewedWasAccepted
<1>2. ASSUME decisions' = decisions PROVE AdvanceNeedsReadiness'
  BY <1>1, <1>2 DEF AdvanceNeedsReadiness
<1>3. ASSUME NEW i \in DOMAIN assessments, NEW disposition \in Dispositions,
             RecordDecision(i, disposition)
      PROVE  AdvanceNeedsReadiness'
  <2>1. PICK d \in [reviewed : Nat, disposition : Dispositions] :
          d.reviewed = i /\ d.disposition = disposition
          /\ decisions' = Append(decisions, d)
    BY <1>3 DEF RecordDecision, TypeOK
  <2>2. decisions \in Seq([reviewed : Nat, disposition : Dispositions])
    BY DEF TypeOK
  <2>3. /\ DOMAIN decisions' = DOMAIN decisions \cup {Len(decisions) + 1}
        /\ \A n \in DOMAIN decisions : decisions'[n] = decisions[n]
        /\ decisions'[Len(decisions) + 1] = d
    BY <2>1, <2>2, Appended
  <2>4. assessments' = assessments /\ (disposition = "advance" => Ready(assessments[i]))
    BY <1>3 DEF RecordDecision
  <2>5. QED
    BY <2>1, <2>3, <2>4 DEF AdvanceNeedsReadiness, Ready
<1>4. [Next]_vars => \/ decisions' = decisions
                    \/ \E i \in DOMAIN assessments, disposition \in Dispositions :
                         RecordDecision(i, disposition)
  BY DEF Next, AcceptDeck, StartScreening, QueueLiveScreening, MarkRunning,
         AcceptLiveScreening, AcceptLiveScreeningFailure, Finish, Cancel, vars
<1>5. QED
  BY <1>2, <1>3, <1>4

-----------------------------------------------------------------------------
(* The invariant and what follows from it.                                 *)

LEMMA InvInit == Init => Inv
<1> SUFFICES ASSUME Init PROVE Inv
  OBVIOUS
<1>1. assessments = <<>> /\ decisions = <<>> /\ DOMAIN assessments = {} /\ DOMAIN decisions = {}
  BY DEF Init
<1>2. TypeOK
  BY DEF Init, TypeOK
<1>3. TasksHoldRuns
  BY DEF Init, TasksHoldRuns
<1>4. RunsMatchHistory
  BY <1>1, <1>2 DEF Init, RunsMatchHistory, Ended
<1>5. CaseMatchesHistory /\ AdvanceNeedsReadiness /\ ReviewedWasAccepted
  BY <1>1 DEF Init, CaseMatchesHistory, AdvanceNeedsReadiness, ReviewedWasAccepted
<1>6. QED
  BY <1>2, <1>3, <1>4, <1>5 DEF Inv, HistoryInv, CaseInv

THEOREM Screenings == Spec => []Inv
<1>1. Inv /\ [Next]_vars => Inv'
  BY TypeStep, TasksStep, HistoryStep, ReviewedStep, CaseStep, AdvanceStep
     DEF Inv, HistoryInv, CaseInv
<1>2. QED
  BY InvInit, <1>1, PTL DEF Spec

(* However screenings overlap and storing fails, a run has ended exactly   *)
(* when one accepted assessment is its own, each assessment is what its    *)
(* run's outcome says, and memory holds nothing that was not accepted.     *)
THEOREM RunsAlways == Spec => []RunsMatchHistory
<1>1. Inv => RunsMatchHistory
  BY DEF Inv, HistoryInv
<1>2. QED
  BY Screenings, <1>1, PTL

(* No late result leaves a case decided on what nobody reviewed.           *)
THEOREM CaseAlways == Spec => []CaseMatchesHistory
<1>1. Inv => CaseMatchesHistory
  BY DEF Inv, CaseInv
<1>2. QED
  BY Screenings, <1>1, PTL

(* Every Advance ever recorded rests on an assessment without blockers.    *)
THEOREM AdvanceAlways == Spec => []AdvanceNeedsReadiness
<1>1. Inv => AdvanceNeedsReadiness
  BY DEF Inv, CaseInv
<1>2. QED
  BY Screenings, <1>1, PTL
=============================================================================

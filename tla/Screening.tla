----------------------------- MODULE Screening ------------------------------
(***************************************************************************)
(* Screening of one Opportunity and the human Decisions on it: the         *)
(* screening half of FakeVCBrainService (service.py), the background       *)
(* coordinator of live screenings (live_screening.py) and the store of     *)
(* accepted ones (infrastructure/live_screening.py).                       *)
(*                                                                         *)
(* A live screening prepares its snapshot and its deterministic fallback   *)
(* when it is queued, awaits the intelligence graph (InboundGraph) in a    *)
(* background task and publishes when that answers.  Any number of them    *)
(* may be under way, and meanwhile the deck's projection may be accepted   *)
(* and the investor may decide.  Each step between two awaits is atomic:   *)
(* one event loop runs them all.                                           *)
(*                                                                         *)
(* The state is the process's own except for stored, the SQLite memory.    *)
(***************************************************************************)
EXTENDS Naturals, Sequences

CONSTANTS
  Runs,         \* identifiers of screening runs
  Decks,        \* accepted deck projections the Opportunity may get
  Supported,    \* those that leave no readiness blocker
  None,         \* no projection, no outcome
  MaxDecisions  \* bound: Decisions recorded

Dispositions == {"advance", "other"}
Ended        == {"succeeded", "partially_succeeded"}

(* The model of an AssessmentEnvelope: its run, whether the rules prepared *)
(* it or the graph proposed it, the projection it was made from and when   *)
(* its memo was generated.                                                 *)
Assessment == [run : Runs, by : {"rules", "graph"},
               deck : Decks \cup {None}, at : Nat]

ASSUME ScreeningAssumption ==
  /\ None \notin Decks /\ None \notin Dispositions /\ None \notin Assessment
  /\ Supported \subseteq Decks
  /\ MaxDecisions \in Nat

VARIABLES
  deck,         \* the projection accepted for the Opportunity
  run,          \* status of each run
  prepared,     \* the fallback assessment prepared for each live run
  task,         \* the background task of each live run
  assessments,  \* accepted assessments, in order of acceptance
  decisions,    \* human Decisions, in order
  status,       \* the screening case
  founder,      \* the founder-facing status
  stored,       \* assessments in durable memory
  clock         \* logical time: queueing and accepting are events

vars == <<deck, run, prepared, task, assessments, decisions, status, founder,
          stored, clock>>

TypeOK ==
  /\ deck \in Decks \cup {None}
  /\ run \in [Runs -> {"unused", "queued", "running"} \cup Ended]
  /\ prepared \in [Runs -> Assessment \cup {None}]
  /\ task \in [Runs -> {"none", "waiting", "analyzing", "done", "cancelled"}]
  /\ assessments \in Seq(Assessment)
  /\ decisions \in Seq([reviewed : Nat, disposition : Dispositions])
  /\ status \in {"first_pass", "screening", "blocked", "readiness_review", "decided"}
  /\ founder \in [stage : {"received", "needs_information", "under_review", "complete"},
                  outcome : Dispositions \cup {None}]
  /\ stored \subseteq Assessment
  /\ clock \in Nat

Init ==
  /\ deck = None
  /\ run = [r \in Runs |-> "unused"]
  /\ prepared = [r \in Runs |-> None]
  /\ task = [r \in Runs |-> "none"]
  /\ assessments = <<>>
  /\ decisions = <<>>
  /\ status = "first_pass"
  /\ founder = [stage |-> "received", outcome |-> None]
  /\ stored = {}
  /\ clock = 0

Latest  == assessments[Len(assessments)]
Decided == decisions[Len(decisions)]

(* Readiness is fixed with the fallback; a proposal of the graph keeps it. *)
Ready(a) == a.deck \in Supported

-----------------------------------------------------------------------------
(* The projection of the Application's deck is accepted, once.             *)
AcceptDeck(d) ==
  /\ deck = None
  /\ deck' = d
  /\ UNCHANGED <<run, prepared, task, assessments, decisions, status, founder,
                 stored, clock>>

(* _full_assessment(): the deterministic assessment of this moment.        *)
FullAssessment(r) == [run |-> r, by |-> "rules", deck |-> deck, at |-> clock]

(* Screening without a coordinator, at once.  With one, only the demo seed *)
(* calls it, before any live screening.                                    *)
StartScreening(r) ==
  /\ run[r] = "unused" /\ \A q \in Runs : task[q] = "none"
  /\ run' = [run EXCEPT ![r] = "succeeded"]
  /\ assessments' = Append(assessments, FullAssessment(r))
  /\ status' = "blocked"
  /\ founder' = [founder EXCEPT !.stage = "needs_information"]
  /\ clock' = clock + 1
  /\ UNCHANGED <<deck, prepared, task, decisions, stored>>

QueueLiveScreening(r) ==
  /\ run[r] = "unused"
  /\ run' = [run EXCEPT ![r] = "queued"]
  /\ prepared' = [prepared EXCEPT ![r] = FullAssessment(r)]
  /\ task' = [task EXCEPT ![r] = "waiting"]
  /\ status' = "screening"
  /\ clock' = clock + 1
  /\ UNCHANGED <<deck, assessments, decisions, founder, stored>>

(* The task starts: the run is marked running, the graph awaited.          *)
MarkRunning(r) ==
  /\ task[r] = "waiting"
  /\ task' = [task EXCEPT ![r] = "analyzing"]
  /\ run' = [run EXCEPT ![r] = "running"]
  /\ UNCHANGED <<deck, prepared, assessments, decisions, status, founder,
                 stored, clock>>

PublishKeepsRunBug(r, a, outcome) ==
  /\ assessments' = Append(assessments, a)
  /\ run' = [run EXCEPT ![r] = IF a.by = "rules" THEN @ ELSE outcome]
  /\ status' = IF Ready(a) THEN "readiness_review" ELSE "blocked"
  /\ founder' = [founder EXCEPT !.stage =
                   IF Ready(a) THEN "under_review" ELSE "needs_information"]

PublishQuietlyBug(r, a, outcome) ==
  /\ assessments' = Append(assessments, a)
  /\ run' = [run EXCEPT ![r] = outcome]
  /\ status' = IF Ready(a) THEN "readiness_review" ELSE "blocked"
  /\ founder' = IF founder.outcome # None THEN founder
                ELSE [founder EXCEPT !.stage =
                        IF Ready(a) THEN "under_review" ELSE "needs_information"]

(* _publish_live_screening(): the run ends, the assessment becomes the     *)
(* latest, and case and founder status follow its readiness, whatever they *)
(* were.                                                                   *)
Publish(r, a, outcome) ==
  /\ assessments # <<>> => Latest.run # r
  /\ assessments' = Append(assessments, a)
  /\ run' = [run EXCEPT ![r] = outcome]
  /\ status' = IF Ready(a) THEN "readiness_review" ELSE "blocked"
  /\ founder' = [founder EXCEPT !.stage =
                   IF Ready(a) THEN "under_review" ELSE "needs_information"]

(* After acceptance the hook stores the assessment, or fails and leaves it *)
(* accepted in the process only.                                           *)
Store(a) == stored' \in {stored \cup {a}, stored}

FinishStoresPreparedBug(r, a, outcome) ==
  /\ task[r] = "analyzing"
  /\ Publish(r, a, outcome)
  /\ Store(prepared[r])
  /\ task' = [task EXCEPT ![r] = "done"]
  /\ UNCHANGED <<deck, prepared, decisions>>

FinishUndecidedBug(r, a, outcome) ==
  /\ task[r] = "analyzing" /\ status # "decided"
  /\ Publish(r, a, outcome)
  /\ Store(a)
  /\ task' = [task EXCEPT ![r] = "done"]
  /\ UNCHANGED <<deck, prepared, decisions>>

Finish(r, a, outcome) ==
  /\ task[r] = "analyzing"
  /\ Publish(r, a, outcome)
  /\ Store(a)
  /\ task' = [task EXCEPT ![r] = "done"]
  /\ UNCHANGED <<deck, prepared, decisions>>

(* The graph answers with proposals, some of them perhaps from its own     *)
(* fallbacks, and the run only partially succeeds then.                    *)
AcceptLiveScreening(r) ==
  \E outcome \in Ended :
    /\ Finish(r, [prepared[r] EXCEPT !.by = "graph", !.at = clock], outcome)
    /\ clock' = clock + 1

(* The graph fails or its answer is not acceptable: the fallback prepared  *)
(* at queue time is published unchanged.                                   *)
AcceptLiveScreeningFailure(r) ==
  /\ Finish(r, prepared[r], "partially_succeeded")
  /\ clock' = clock + 1

(* The task is cancelled while it awaits the graph; nothing is published.  *)
Cancel(r) ==
  /\ task[r] = "analyzing"
  /\ task' = [task EXCEPT ![r] = "cancelled"]
  /\ UNCHANGED <<deck, run, prepared, assessments, decisions, status, founder,
                 stored, clock>>

-----------------------------------------------------------------------------
RecordDecisionStaleBug(i, disposition) ==
  /\ i \in DOMAIN assessments
  /\ disposition = "advance" => Ready(assessments[i])
  /\ Len(decisions) < MaxDecisions
  /\ decisions' = Append(decisions, [reviewed |-> i, disposition |-> disposition])
  /\ status' = "decided"
  /\ founder' = [stage |-> "complete", outcome |-> disposition]
  /\ UNCHANGED <<deck, run, prepared, task, assessments, stored, clock>>

RecordDecisionByDeckBug(i, disposition) ==
  /\ i \in DOMAIN assessments /\ i = Len(assessments)
  /\ disposition = "advance" => deck \in Supported
  /\ Len(decisions) < MaxDecisions
  /\ decisions' = Append(decisions, [reviewed |-> i, disposition |-> disposition])
  /\ status' = "decided"
  /\ founder' = [stage |-> "complete", outcome |-> disposition]
  /\ UNCHANGED <<deck, run, prepared, task, assessments, stored, clock>>

RecordDecisionWordBug(i, disposition) ==
  /\ i \in DOMAIN assessments /\ i = Len(assessments)
  /\ disposition = "advance" => Ready(assessments[i])
  /\ Len(decisions) < MaxDecisions
  /\ decisions' = Append(decisions, [reviewed |-> i, disposition |-> disposition])
  /\ status' = "decided"
  /\ founder' = [stage |-> disposition, outcome |-> disposition]
  /\ UNCHANGED <<deck, run, prepared, task, assessments, stored, clock>>

(* The investor decides on the i-th assessment, memo and recommendation,   *)
(* read earlier: refused when it is no longer the latest one, and an       *)
(* Advance also when that one's readiness is blocked.                      *)
RecordDecision(i, disposition) ==
  /\ i \in DOMAIN assessments /\ i = Len(assessments)
  /\ disposition = "advance" => Ready(assessments[i])
  /\ Len(decisions) < MaxDecisions
  /\ decisions' = Append(decisions, [reviewed |-> i, disposition |-> disposition])
  /\ status' = "decided"
  /\ founder' = [stage |-> "complete", outcome |-> disposition]
  /\ UNCHANGED <<deck, run, prepared, task, assessments, stored, clock>>

Next ==
  \/ \E d \in Decks : AcceptDeck(d)
  \/ \E r \in Runs :
       \/ StartScreening(r)
       \/ QueueLiveScreening(r)
       \/ MarkRunning(r)
       \/ AcceptLiveScreening(r)
       \/ AcceptLiveScreeningFailure(r)
       \/ Cancel(r)
  \/ \E i \in DOMAIN assessments, disposition \in Dispositions :
       RecordDecision(i, disposition)

Spec == Init /\ [][Next]_vars

-----------------------------------------------------------------------------
(* Properties.                                                             *)

(* Runs, history and durable memory tell the same story however screenings *)
(* overlap and storing fails: a run has ended exactly when one assessment  *)
(* in the history, and no second, is its own; a succeeded live run's is    *)
(* the graph's, every live one was made from the projection its run was    *)
(* queued with, and memory holds only what was accepted, as it was.        *)
RunsMatchHistory ==
  /\ TypeOK
  /\ \A r \in Runs :
       run[r] \in Ended <=> \E i \in DOMAIN assessments : assessments[i].run = r
  /\ \A i, j \in DOMAIN assessments :
       assessments[i].run = assessments[j].run => i = j
  /\ \A a \in stored : \E i \in DOMAIN assessments : assessments[i] = a
  /\ \A i \in DOMAIN assessments :
       LET a == assessments[i] IN
       /\ a.by = "rules" /\ prepared[a.run] # None =>
            run[a.run] = "partially_succeeded"
       /\ prepared[a.run] # None => a.deck = prepared[a.run].deck

(* The case says decided only while the last Decision reviewed the latest  *)
(* assessment, and blocked or in review only while it did not, following   *)
(* the readiness of the latest assessment: no late result leaves a case    *)
(* decided on something nobody reviewed.  The founder sees the outcome of  *)
(* the last Decision, and a completed stage exactly while that Decision    *)
(* reviewed the latest assessment.                                         *)
CaseMatchesHistory ==
  LET reviewedLatest ==
        decisions # <<>> /\ Decided.reviewed = Len(assessments) IN
  /\ status = "decided" => reviewedLatest
  /\ status \in {"blocked", "readiness_review"} =>
       /\ assessments # <<>> /\ ~reviewedLatest
       /\ prepared[Latest.run] # None =>
            (status = "readiness_review" <=> Ready(Latest))
  /\ founder.outcome = IF decisions = <<>> THEN None ELSE Decided.disposition
  /\ founder.stage = "complete" <=> reviewedLatest

(* An Advance rests on an assessment without blockers, by the evidence     *)
(* that assessment was made from and not by what was accepted since.       *)
AdvanceNeedsReadiness ==
  \A n \in DOMAIN decisions : decisions[n].disposition = "advance" =>
    assessments[decisions[n].reviewed].deck \in Supported

(* The latest memo is the newest one.  It is not: a screening that fails   *)
(* after a later one was accepted publishes the fallback of its queueing.  *)
LatestMemoIsNewest ==
  \A i \in DOMAIN assessments : assessments[i].at <= Latest.at

-----------------------------------------------------------------------------
(* Liveness: the event loop runs the tasks it holds, and the graph always  *)
(* answers or fails within its total timeout.                              *)
Fairness == \A r \in Runs :
  /\ WF_vars(MarkRunning(r))
  /\ WF_vars(AcceptLiveScreening(r) \/ AcceptLiveScreeningFailure(r))

FairSpec == Spec /\ Fairness

(* A queued screening ends in a published assessment, whatever else goes   *)
(* on, unless its task is cancelled: then the run stays running for ever.  *)
QueuedRunEnds ==
  \A r \in Runs : run[r] = "queued" ~> run[r] \in Ended \/ task[r] = "cancelled"
=============================================================================

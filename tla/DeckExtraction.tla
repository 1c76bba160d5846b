--------------------------- MODULE DeckExtraction ---------------------------
(***************************************************************************)
(* What follows an accepted submission: the background extraction of its   *)
(* deck and the projection of the result into Memory and onto the          *)
(* Opportunity.  It composes the submission handler (app.py), the          *)
(* extraction coordinator and extract_once() (runtime.py), the extraction  *)
(* half of FakeVCBrainService (service.py) and the deck evidence store     *)
(* (infrastructure/deck_evidence.py).                                      *)
(*                                                                         *)
(* Every submission and replay schedules a task.  Tasks of one Application *)
(* coalesce: the first to claim it extracts, the others wait for it and    *)
(* return.  All run on one event loop, and between two awaits a step is    *)
(* atomic; the only long await is the OCR provider's.                      *)
(*                                                                         *)
(* Durable are the accepted extractions (the module Intake tells how) and  *)
(* the projections in Memory.  Opportunities, runs and tasks belong to the *)
(* process: after a restart a replay registers the Application again,      *)
(* under a new Opportunity, named here by the life of the process.         *)
(***************************************************************************)
EXTENDS Naturals, FiniteSets

CONSTANTS
  Applications,  \* accepted by the durable intake
  CompanyOnly,   \* those with no record about the Opportunity itself
  Tasks,         \* background tasks
  None,          \* no application, no task
  MaxLives,      \* bound: lives of the process
  MaxFailures    \* bound: storage errors and cancelled tasks

ASSUME ExtractionAssumption ==
  /\ CompanyOnly \subseteq Applications
  /\ None \notin Applications /\ None \notin Tasks
  /\ MaxLives \in Nat \ {0} /\ MaxFailures \in Nat

VARIABLES
  accepted,    \* durable: applications with an accepted extraction
  memory,      \* durable: lives whose projection of an application it holds
  life,        \* the current life of the process
  registered,  \* applications it has an Opportunity for
  projected,   \* those whose Opportunity has its projection
  run,         \* status of their ingestion runs
  task,        \* the application each task works for, and how far it is
  inflight,    \* the task that has claimed an application
  failures     \* storage errors and cancellations so far

durable == <<accepted, memory>>
vars == <<accepted, memory, life, registered, projected, run, task, inflight,
          failures>>

Idle == [of |-> None, at |-> "idle"]

TypeOK ==
  /\ accepted \subseteq Applications
  /\ memory \in [Applications -> SUBSET (1..MaxLives)]
  /\ life \in 1..MaxLives
  /\ registered \subseteq Applications
  /\ projected \subseteq registered
  /\ run \in [Applications -> {"none", "queued", "partially_succeeded", "succeeded"}]
  /\ task \in [Tasks -> {Idle} \cup
       [of : Applications, at : {"scheduled", "waiting", "extracting"}]]
  /\ inflight \in [Applications -> Tasks \cup {None}]
  /\ failures \in 0..MaxFailures

Init ==
  /\ accepted = {}
  /\ memory = [a \in Applications |-> {}]
  /\ life = 1
  /\ registered = {}
  /\ projected = {}
  /\ run = [a \in Applications |-> "none"]
  /\ task = [t \in Tasks |-> Idle]
  /\ inflight = [a \in Applications |-> None]
  /\ failures = 0

Fails ==
  /\ failures < MaxFailures
  /\ failures' = failures + 1

-----------------------------------------------------------------------------
(* A submission or replay is accepted and registered; its task is          *)
(* scheduled.                                                              *)
Submit(t, a) ==
  /\ task[t] = Idle
  /\ task' = [task EXCEPT ![t] = [of |-> a, at |-> "scheduled"]]
  /\ registered' = registered \cup {a}
  /\ run' = [run EXCEPT ![a] = IF @ = "none" THEN "queued" ELSE @]
  /\ UNCHANGED <<durable, life, projected, inflight, failures>>

(* Another task has claimed the application: wait for it to complete.      *)
Wait(t) ==
  LET a == task[t].of IN
  /\ task[t].at = "scheduled"
  /\ inflight[a] # None
  /\ task' = [task EXCEPT ![t].at = "waiting"]
  /\ UNCHANGED <<durable, life, registered, projected, run, inflight, failures>>

CompleteAloneBug(t) ==
  /\ task' = [task EXCEPT ![t] = Idle]
  /\ inflight' = [inflight EXCEPT ![task[t].of] = None]

(* The owner's claim ends and with it everyone who waited for it.          *)
Complete(t) ==
  /\ task' = [u \in Tasks |->
                IF u = t \/ task[u] = [of |-> task[t].of, at |-> "waiting"]
                  THEN Idle ELSE task[u]]
  /\ inflight' = [inflight EXCEPT ![task[t].of] = None]

FailedUnpublishedBug(a) == run

FailedOverwritesBug(a) == [run EXCEPT ![a] = "partially_succeeded"]

(* A failed attempt is published unless the run has succeeded already.     *)
Failed(a) ==
  [run EXCEPT ![a] = IF @ = "succeeded" THEN @ ELSE "partially_succeeded"]

PersistableAnyBug(a) == TRUE

(* Memory takes a projection unless it holds one of the same deck made for *)
(* another Opportunity, whose observations have the same identities and    *)
(* another subject.  A deck that only describes the Company, without        *)
(* contradicting itself, has none such.                                    *)
Persistable(a) == a \in CompanyOnly \/ memory[a] \subseteq {life}

ProjectUnpersistedBug(a) ==
  \/ /\ Persistable(a)
     /\ memory' = [memory EXCEPT ![a] = @ \cup {life}]
     /\ projected' = projected \cup {a}
     /\ run' = [run EXCEPT ![a] = "succeeded"]
     /\ UNCHANGED failures
  \/ /\ projected' = projected \cup {a}
     /\ run' = Failed(a)
     /\ UNCHANGED memory
     /\ IF Persistable(a) THEN Fails ELSE UNCHANGED failures

ProjectStatusBug(a) ==
  \/ /\ Persistable(a)
     /\ memory' = [memory EXCEPT ![a] = @ \cup {life}]
     /\ projected' = projected \cup {a}
     /\ run' = [run EXCEPT ![a] = "succeeded"]
     /\ UNCHANGED failures
  \/ /\ run' = [run EXCEPT ![a] = "failed"]
     /\ UNCHANGED <<memory, projected>>
     /\ IF Persistable(a) THEN Fails ELSE UNCHANGED failures

(* The accepted extraction is projected, the projection persisted, then    *)
(* registered on the Opportunity and the run succeeds; or Memory refuses   *)
(* it, or fails, and so does the attempt.                                  *)
Project(a) ==
  \/ /\ Persistable(a)
     /\ memory' = [memory EXCEPT ![a] = @ \cup {life}]
     /\ projected' = projected \cup {a}
     /\ run' = [run EXCEPT ![a] = "succeeded"]
     /\ UNCHANGED failures
  \/ /\ run' = Failed(a)
     /\ UNCHANGED <<memory, projected>>
     /\ IF Persistable(a) THEN Fails ELSE UNCHANGED failures

Claims(t) ==
  /\ task[t].at = "scheduled"
  /\ inflight[task[t].of] = None

(* A task claims an application without an accepted extraction, its        *)
(* metadata is persisted and the provider awaited.                         *)
Start(t) ==
  /\ Claims(t) /\ task[t].of \notin accepted
  /\ inflight' = [inflight EXCEPT ![task[t].of] = t]
  /\ task' = [task EXCEPT ![t].at = "extracting"]
  /\ UNCHANGED <<durable, life, registered, projected, run, failures>>

(* The extraction was accepted before: it is projected again at once.      *)
Resume(t) ==
  /\ Claims(t) /\ task[t].of \in accepted
  /\ Project(task[t].of)
  /\ Complete(t)
  /\ UNCHANGED <<accepted, life, registered>>

(* The metadata, or the deck, cannot be persisted or read.                 *)
StartFails(t) ==
  /\ Claims(t)
  /\ Fails
  /\ run' = Failed(task[t].of)
  /\ Complete(t)
  /\ UNCHANGED <<durable, life, registered, projected>>

FinishEarlyBug(t) ==
  /\ task[t].at = "extracting"
  /\ Project(task[t].of)
  /\ Complete(t)
  /\ UNCHANGED <<accepted, life, registered>>

(* The provider answers: the extraction is accepted, then projected.       *)
Finish(t) ==
  /\ task[t].at = "extracting"
  /\ accepted' = accepted \cup {task[t].of}
  /\ Project(task[t].of)
  /\ Complete(t)
  /\ UNCHANGED <<life, registered>>

(* The provider fails or refuses, or its answer cannot be persisted.       *)
ExtractionFails(t) ==
  /\ task[t].at = "extracting"
  /\ run' = Failed(task[t].of)
  /\ Complete(t)
  /\ UNCHANGED <<durable, life, registered, projected, failures>>

(* The owner is cancelled: its claim ends, its run stays as it was.        *)
Cancel(t) ==
  /\ task[t].at = "extracting"
  /\ Fails
  /\ Complete(t)
  /\ UNCHANGED <<durable, life, registered, projected, run>>

(* The process dies and starts again: all but the durable state is gone.   *)
Crash ==
  /\ life < MaxLives
  /\ life' = life + 1
  /\ registered' = {}
  /\ projected' = {}
  /\ run' = [a \in Applications |-> "none"]
  /\ task' = [t \in Tasks |-> Idle]
  /\ inflight' = [a \in Applications |-> None]
  /\ UNCHANGED <<durable, failures>>

Next ==
  \/ \E t \in Tasks :
       \/ \E a \in Applications : Submit(t, a)
       \/ Wait(t)
       \/ Start(t)
       \/ Resume(t)
       \/ StartFails(t)
       \/ Finish(t)
       \/ ExtractionFails(t)
       \/ Cancel(t)
  \/ Crash

Spec == Init /\ [][Next]_vars

-----------------------------------------------------------------------------
(* Properties.                                                             *)

(* One extraction of an application is under way at a time, by the task    *)
(* that holds its claim; a claim is never left behind, nor does anyone     *)
(* wait where nobody works.                                                *)
ClaimsMatchWork ==
  /\ TypeOK
  /\ \A t \in Tasks, a \in Applications :
       inflight[a] = t <=> task[t] = [of |-> a, at |-> "extracting"]
  /\ \A t \in Tasks : task[t].at = "waiting" => inflight[task[t].of] # None

(* What the process shows is backed by what is durable: a projected        *)
(* Opportunity has its own projection in Memory, a succeeded run is a      *)
(* projected Opportunity's, and Memory projects accepted extractions only  *)
(* and never holds one deck's observations about two Opportunities.        *)
ShownIsDurable ==
  /\ \A a \in projected : life \in memory[a]
  /\ \A a \in Applications : run[a] = "succeeded" => a \in projected
  /\ \A a \in Applications : memory[a] # {} => a \in accepted
  /\ \A a \in Applications \ CompanyOnly : Cardinality(memory[a]) <= 1

(* A run that has succeeded stays so for the life of the process, whatever *)
(* late or repeated attempts report, and an accepted extraction for good.  *)
SuccessStays ==
  [][/\ life' = life => \A a \in Applications :
          run[a] = "succeeded" => run'[a] = "succeeded"
     /\ accepted \subseteq accepted']_vars

(* An interrupted replay resumes safely: with the extraction accepted and  *)
(* no storage error, an attempt that has ended has succeeded.              *)
ReplayResumes ==
  \A a \in accepted : failures = 0 => run[a] # "partially_succeeded"

-----------------------------------------------------------------------------
(* Liveness: the event loop runs the tasks it holds, the provider answers  *)
(* or fails (it has a timeout), and the client replays until its run has   *)
(* an outcome.                                                             *)
Fairness ==
  /\ \A t \in Tasks :
       /\ WF_vars(Wait(t))
       /\ WF_vars(Start(t) \/ Resume(t))
       /\ WF_vars(Finish(t) \/ ExtractionFails(t))
  /\ \A a \in Applications : SF_vars(\E t \in Tasks : Submit(t, a))

FairSpec == Spec /\ Fairness

(* A run that is queued gets an outcome, though tasks are cancelled and    *)
(* the process restarts.                                                   *)
QueuedRunEnds ==
  \A a \in Applications :
    run[a] = "queued" ~> run[a] \in {"partially_succeeded", "succeeded"}
=============================================================================

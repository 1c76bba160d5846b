----------------------- MODULE DeckExtraction_proofs -----------------------
(***************************************************************************)
(* Proofs about DeckExtraction, for any applications, any number of tasks  *)
(* and any bounds on restarts and failures.                                *)
(*                                                                         *)
(* One fact is missing from the invariants the runs check: a task works    *)
(* only for an application this life of the process has registered, which  *)
(* is why what it projects is shown on an Opportunity that exists.         *)
(***************************************************************************)
EXTENDS DeckExtraction, FiniteSetTheorems, TLAPS

USE ExtractionAssumption

(* Every task under way works for a registered application.                *)
WorkIsRegistered == \A t \in Tasks : task[t] # Idle => task[t].of \in registered

Inv ==
  /\ ClaimsMatchWork
  /\ WorkIsRegistered
  /\ ShownIsDurable

-----------------------------------------------------------------------------
(* A task is idle or works for one application, and which of the two is    *)
(* told by where it stands.                                                *)
LEMMA TaskType ==
  ASSUME TypeOK, NEW t \in Tasks
  PROVE  /\ task[t].at = "idle" <=> task[t] = Idle
         /\ task[t] # Idle =>
              task[t] \in [of : Applications, at : {"scheduled", "waiting", "extracting"}]
         /\ task[t].at \in {"idle", "scheduled", "waiting", "extracting"}
  BY DEF TypeOK, Idle

(* The application of a task that is not idle.                             *)
LEMMA BusyTask ==
  ASSUME TypeOK, NEW t \in Tasks, task[t].at \in {"scheduled", "waiting", "extracting"}
  PROVE  /\ task[t] # Idle /\ task[t].of \in Applications
         /\ task[t] = [of |-> task[t].of, at |-> task[t].at]
<1>1. task[t] # Idle
  BY DEF Idle
<1>2. QED
  BY <1>1, TaskType

(* What ends with a claim: the owner and those who waited for it.          *)
LEMMA CompleteTypes ==
  ASSUME TypeOK, NEW t \in Tasks, task[t] # Idle, Complete(t)
  PROVE  /\ task' \in [Tasks -> {Idle} \cup
              [of : Applications, at : {"scheduled", "waiting", "extracting"}]]
         /\ inflight' \in [Applications -> Tasks \cup {None}]
         /\ \A u \in Tasks : task'[u] \in {Idle, task[u]}
         /\ task'[t] = Idle
  BY TaskType DEF Complete, TypeOK

(* What an attempt to project an application does: it is projected, with   *)
(* its projection in Memory, and has succeeded, or nothing but its run     *)
(* changes and no success is undone.                                       *)
LEMMA ProjectEffect ==
  ASSUME TypeOK, NEW a \in Applications, Project(a)
  PROVE  /\ failures' \in 0 .. MaxFailures
         /\ \/ /\ Persistable(a)
               /\ memory' = [memory EXCEPT ![a] = @ \cup {life}]
               /\ projected' = projected \cup {a}
               /\ run' = [run EXCEPT ![a] = "succeeded"]
            \/ run' = Failed(a) /\ memory' = memory /\ projected' = projected
  BY DEF Project, Fails, TypeOK

LEMMA FailedType ==
  ASSUME TypeOK, NEW a \in Applications
  PROVE  /\ Failed(a) \in
              [Applications -> {"none", "queued", "partially_succeeded", "succeeded"}]
         /\ \A b \in Applications :
              Failed(a)[b] = "succeeded" <=> run[b] = "succeeded"
  BY DEF Failed, TypeOK

-----------------------------------------------------------------------------
(* Type correctness, and the work of a task on what is registered.         *)

LEMMA TypeStep ==
  TypeOK /\ WorkIsRegistered /\ [Next]_vars => TypeOK' /\ WorkIsRegistered'
<1> SUFFICES ASSUME TypeOK, WorkIsRegistered, [Next]_vars
             PROVE  TypeOK' /\ WorkIsRegistered'
  OBVIOUS
<1>1. ASSUME NEW t \in Tasks, NEW a \in Applications, Submit(t, a)
      PROVE  TypeOK' /\ WorkIsRegistered'
  <2>1. TypeOK'
    BY <1>1 DEF Submit, TypeOK, durable
  <2>2. WorkIsRegistered'
    BY <1>1 DEF Submit, TypeOK, WorkIsRegistered
  <2>3. QED
    BY <2>1, <2>2
<1>2. ASSUME NEW t \in Tasks, Wait(t) PROVE TypeOK' /\ WorkIsRegistered'
  <2>1. task[t] # Idle /\ task[t].of \in Applications
    BY <1>2, BusyTask DEF Wait
  <2>2. TypeOK'
    BY <1>2, <2>1, TaskType DEF Wait, TypeOK, durable
  <2>3. WorkIsRegistered'
    BY <1>2, <2>1, TaskType DEF Wait, TypeOK, WorkIsRegistered
  <2>4. QED
    BY <2>2, <2>3
<1>3. ASSUME NEW t \in Tasks, Start(t) PROVE TypeOK' /\ WorkIsRegistered'
  <2>1. task[t] # Idle /\ task[t].of \in Applications
    BY <1>3, BusyTask DEF Start, Claims
  <2>2. TypeOK'
    BY <1>3, <2>1, TaskType DEF Start, TypeOK, durable
  <2>3. WorkIsRegistered'
    BY <1>3, <2>1, TaskType DEF Start, TypeOK, WorkIsRegistered
  <2>4. QED
    BY <2>2, <2>3
<1>4. ASSUME NEW t \in Tasks, Resume(t) \/ Finish(t)
      PROVE  TypeOK' /\ WorkIsRegistered'
  <2>1. task[t] # Idle /\ task[t].of \in Applications
    BY <1>4, BusyTask DEF Resume, Finish, Claims
  <2>2. task[t].of \in registered
    BY <2>1 DEF WorkIsRegistered
  <2>3. /\ Complete(t) /\ Project(task[t].of) /\ life' = life /\ registered' = registered
        /\ accepted' \in {accepted, accepted \cup {task[t].of}}
    BY <1>4 DEF Resume, Finish
  <2>4. /\ failures' \in 0 .. MaxFailures
        /\ memory' \in [Applications -> SUBSET (1..MaxLives)]
        /\ projected' \subseteq registered
        /\ run' \in [Applications -> {"none", "queued", "partially_succeeded", "succeeded"}]
    BY <2>1, <2>2, <2>3, ProjectEffect, FailedType DEF TypeOK
  <2>5. TypeOK'
    BY <2>1, <2>3, <2>4, CompleteTypes DEF TypeOK
  <2>6. WorkIsRegistered'
    BY <2>1, <2>3, CompleteTypes DEF WorkIsRegistered
  <2>7. QED
    BY <2>5, <2>6
<1>5. ASSUME NEW t \in Tasks, StartFails(t) \/ ExtractionFails(t) \/ Cancel(t)
      PROVE  TypeOK' /\ WorkIsRegistered'
  <2>1. task[t] # Idle /\ task[t].of \in Applications
    BY <1>5, BusyTask DEF StartFails, ExtractionFails, Cancel, Claims
  <2>2. /\ Complete(t) /\ UNCHANGED <<accepted, memory, life, registered, projected>>
        /\ run' \in {run, Failed(task[t].of)}
        /\ failures' \in 0 .. MaxFailures
    BY <1>5 DEF StartFails, ExtractionFails, Cancel, durable, Fails, TypeOK
  <2>3. TypeOK'
    BY <2>1, <2>2, CompleteTypes, FailedType DEF TypeOK
  <2>4. WorkIsRegistered'
    BY <2>1, <2>2, CompleteTypes DEF WorkIsRegistered
  <2>5. QED
    BY <2>3, <2>4
<1>6. CASE Crash
  <2>1. TypeOK'
    BY <1>6 DEF Crash, TypeOK, durable
  <2>2. WorkIsRegistered'
    BY <1>6 DEF Crash, WorkIsRegistered
  <2>3. QED
    BY <2>1, <2>2
<1>7. CASE UNCHANGED vars
  BY <1>7 DEF vars, durable, TypeOK, WorkIsRegistered
<1>8. QED
  BY <1>1, <1>2, <1>3, <1>4, <1>5, <1>6, <1>7 DEF Next

-----------------------------------------------------------------------------
(* Claims.                                                                 *)

(* When a task that holds the claim of its application, or no task does,   *)
(* completes, no claim and nobody who waits for it is left behind.         *)
LEMMA ClaimEnds ==
  ASSUME ClaimsMatchWork, TypeOK', NEW t \in Tasks, task[t] # Idle,
         inflight[task[t].of] \in {t, None}, Complete(t)
  PROVE  ClaimsMatchWork'
<1> DEFINE a == task[t].of
<1>1. TypeOK /\ a \in Applications
  BY TaskType DEF ClaimsMatchWork
<1>2. /\ inflight'[a] = None
      /\ \A b \in Applications \ {a} : inflight'[b] = inflight[b]
  BY <1>1 DEF Complete, TypeOK
<1>3. /\ task'[t] = Idle
      /\ \A u \in Tasks : \/ task'[u] = task[u] /\ u # t /\ task[u] # [of |-> a, at |-> "waiting"]
                          \/ task'[u] = Idle /\ (u = t \/ task[u] = [of |-> a, at |-> "waiting"])
  BY DEF Complete
<1> HIDE DEF a
<1>4. ASSUME NEW u \in Tasks, NEW b \in Applications
      PROVE  inflight'[b] = u <=> task'[u] = [of |-> b, at |-> "extracting"]
  <2>1. inflight[b] = u <=> task[u] = [of |-> b, at |-> "extracting"]
    BY DEF ClaimsMatchWork
  <2>2. CASE b = a
    <3>1. task[u] = [of |-> a, at |-> "extracting"] => u = t
      BY <1>1, <2>1, <2>2 DEF a
    <3>2. QED
      BY <1>2, <1>3, <2>2, <3>1 DEF Idle
  <2>3. CASE b # a
    <3>1. task[t] # [of |-> b, at |-> "extracting"]
      BY <2>3 DEF a
    <3>2. QED
      BY <1>2, <1>3, <2>1, <2>3, <3>1 DEF Idle
  <2>4. QED
    BY <2>2, <2>3
<1>5. ASSUME NEW u \in Tasks, task'[u].at = "waiting"
      PROVE  inflight'[task'[u].of] # None
  <2>1. task'[u] = task[u] /\ task[u] # [of |-> a, at |-> "waiting"]
    BY <1>3, <1>5 DEF Idle
  <2>2. task[u].of # a /\ task[u].of \in Applications
    BY <1>1, <1>5, <2>1, BusyTask
  <2>3. inflight[task[u].of] # None
    BY <1>5, <2>1 DEF ClaimsMatchWork
  <2>4. QED
    BY <1>2, <2>1, <2>2, <2>3
<1>6. QED
  BY <1>4, <1>5 DEF ClaimsMatchWork

LEMMA ClaimsStep ==
  ClaimsMatchWork /\ WorkIsRegistered /\ [Next]_vars => ClaimsMatchWork'
<1> SUFFICES ASSUME ClaimsMatchWork, WorkIsRegistered, [Next]_vars
             PROVE  ClaimsMatchWork'
  OBVIOUS
<1>1. TypeOK /\ TypeOK'
  BY TypeStep DEF ClaimsMatchWork
<1>2. ASSUME UNCHANGED <<task, inflight>> PROVE ClaimsMatchWork'
  BY <1>1, <1>2 DEF ClaimsMatchWork
<1>3. ASSUME NEW t \in Tasks, NEW a \in Applications, Submit(t, a)
      PROVE  ClaimsMatchWork'
  <2>1. /\ task[t] = Idle /\ task'[t] = [of |-> a, at |-> "scheduled"]
        /\ \A u \in Tasks \ {t} : task'[u] = task[u]
        /\ inflight' = inflight
    BY <1>1, <1>3 DEF Submit, TypeOK
  <2>2. QED
    BY <1>1, <2>1 DEF ClaimsMatchWork, Idle
<1>4. ASSUME NEW t \in Tasks, Wait(t) PROVE ClaimsMatchWork'
  <2>1. task[t] = [of |-> task[t].of, at |-> "scheduled"] /\ task[t].of \in Applications
    BY <1>1, <1>4, BusyTask DEF Wait
  <2>2. /\ task'[t] = [of |-> task[t].of, at |-> "waiting"]
        /\ \A u \in Tasks \ {t} : task'[u] = task[u]
        /\ inflight' = inflight /\ inflight[task[t].of] # None
    BY <1>1, <1>4, <2>1 DEF Wait, TypeOK
  <2>3. QED
    BY <1>1, <2>1, <2>2 DEF ClaimsMatchWork
<1>5. ASSUME NEW t \in Tasks, Start(t) PROVE ClaimsMatchWork'
  <2>1. task[t] = [of |-> task[t].of, at |-> "scheduled"] /\ task[t].of \in Applications
    BY <1>1, <1>5, BusyTask DEF Start, Claims
  <2>2. /\ task'[t] = [of |-> task[t].of, at |-> "extracting"]
        /\ \A u \in Tasks \ {t} : task'[u] = task[u]
        /\ inflight[task[t].of] = None /\ inflight'[task[t].of] = t
        /\ \A b \in Applications \ {task[t].of} : inflight'[b] = inflight[b]
    BY <1>1, <1>5, <2>1 DEF Start, Claims, TypeOK
  <2>3. ASSUME NEW u \in Tasks, NEW b \in Applications
        PROVE  inflight'[b] = u <=> task'[u] = [of |-> b, at |-> "extracting"]
    <3>1. inflight[b] = u <=> task[u] = [of |-> b, at |-> "extracting"]
      BY DEF ClaimsMatchWork
    <3>2. QED
      BY <2>1, <2>2, <3>1
  <2>4. ASSUME NEW u \in Tasks, task'[u].at = "waiting"
        PROVE  inflight'[task'[u].of] # None
    <3>1. u # t /\ task'[u] = task[u]
      BY <2>2, <2>4
    <3>2. inflight[task[u].of] # None /\ task[u].of \in Applications
      BY <1>1, <2>4, <3>1, BusyTask DEF ClaimsMatchWork
    <3>3. QED
      BY <2>2, <3>1, <3>2
  <2>5. QED
    BY <1>1, <2>3, <2>4 DEF ClaimsMatchWork
<1>6. ASSUME NEW t \in Tasks, Resume(t) \/ StartFails(t) PROVE ClaimsMatchWork'
  <2>1. task[t] # Idle /\ inflight[task[t].of] = None /\ Complete(t)
    BY <1>1, <1>6, BusyTask DEF Resume, StartFails, Claims
  <2>2. QED
    BY <1>1, <2>1, ClaimEnds
<1>7. ASSUME NEW t \in Tasks, Finish(t) \/ ExtractionFails(t) \/ Cancel(t)
      PROVE  ClaimsMatchWork'
  <2>1. /\ task[t] # Idle /\ Complete(t) /\ task[t].of \in Applications
        /\ task[t] = [of |-> task[t].of, at |-> "extracting"]
    BY <1>1, <1>7, BusyTask DEF Finish, ExtractionFails, Cancel
  <2>2. inflight[task[t].of] = t
    BY <2>1 DEF ClaimsMatchWork
  <2>3. QED
    BY <1>1, <2>1, <2>2, ClaimEnds
<1>8. CASE Crash
  BY <1>1, <1>8 DEF Crash, ClaimsMatchWork, Idle
<1>9. QED
  BY <1>2, <1>3, <1>4, <1>5, <1>6, <1>7, <1>8 DEF Next, vars, durable

-----------------------------------------------------------------------------
(* What is shown is durable.                                               *)

(* The step of a task that may project what was accepted, or of one that   *)
(* fails: accepted, registered and life as they must be for it.            *)
LEMMA ProjectionKept ==
  ASSUME TypeOK, ShownIsDurable, NEW a \in Applications, a \in accepted', Project(a),
         accepted \subseteq accepted', life' = life
  PROVE  ShownIsDurable'
<1>1. CASE /\ Persistable(a)
           /\ memory' = [memory EXCEPT ![a] = @ \cup {life}]
           /\ projected' = projected \cup {a}
           /\ run' = [run EXCEPT ![a] = "succeeded"]
  <2>1. /\ memory'[a] = memory[a] \cup {life}
        /\ \A b \in Applications \ {a} : memory'[b] = memory[b]
        /\ run'[a] = "succeeded"
        /\ \A b \in Applications \ {a} : run'[b] = run[b]
    BY <1>1 DEF TypeOK
  <2>2. ASSUME a \notin CompanyOnly PROVE Cardinality(memory'[a]) <= 1
    <3>1. memory'[a] = {life}
      BY <1>1, <2>1, <2>2 DEF Persistable
    <3>2. QED
      BY <3>1, FS_Singleton
  <2>3. \A b \in Applications \ CompanyOnly : Cardinality(memory'[b]) <= 1
    BY <2>1, <2>2 DEF ShownIsDurable
  <2>4. \A b \in projected' : life \in memory'[b]
    BY <1>1, <2>1 DEF ShownIsDurable, TypeOK
  <2>5. QED
    BY <1>1, <2>1, <2>3, <2>4 DEF ShownIsDurable
<1>2. CASE run' = Failed(a) /\ memory' = memory /\ projected' = projected
  BY <1>2, FailedType DEF ShownIsDurable
<1>3. QED
  BY <1>1, <1>2, ProjectEffect

LEMMA ShownStep == Inv /\ [Next]_vars => ShownIsDurable'
<1> SUFFICES ASSUME Inv, [Next]_vars PROVE ShownIsDurable'
  OBVIOUS
<1>1. TypeOK /\ ClaimsMatchWork /\ WorkIsRegistered /\ ShownIsDurable
  BY DEF Inv, ClaimsMatchWork
<1>2. ASSUME UNCHANGED <<accepted, memory, life, projected>>,
             \A a \in Applications : run'[a] = "succeeded" => run[a] = "succeeded"
      PROVE  ShownIsDurable'
  BY <1>1, <1>2 DEF ShownIsDurable
<1>3. ASSUME NEW t \in Tasks, NEW a \in Applications, Submit(t, a)
      PROVE  ShownIsDurable'
  BY <1>1, <1>2, <1>3 DEF Submit, durable, TypeOK
<1>4. ASSUME NEW t \in Tasks, Resume(t) \/ Finish(t) PROVE ShownIsDurable'
  <2>1. task[t].of \in Applications
    BY <1>1, <1>4, BusyTask DEF Resume, Finish, Claims
  <2>2. /\ Project(task[t].of) /\ life' = life
        /\ accepted \subseteq accepted' /\ task[t].of \in accepted'
    BY <1>4 DEF Resume, Finish, Claims
  <2>3. QED
    BY <1>1, <2>1, <2>2, ProjectionKept
<1>5. ASSUME NEW t \in Tasks, StartFails(t) \/ ExtractionFails(t)
      PROVE  ShownIsDurable'
  <2>1. task[t].of \in Applications
    BY <1>1, <1>5, BusyTask DEF StartFails, ExtractionFails, Claims
  <2>2. UNCHANGED <<accepted, memory, life, projected>> /\ run' = Failed(task[t].of)
    BY <1>5 DEF StartFails, ExtractionFails, durable
  <2>3. QED
    BY <1>1, <1>2, <2>1, <2>2, FailedType
<1>6. CASE Crash
  BY <1>1, <1>6 DEF Crash, ShownIsDurable, durable
<1>7. QED
  BY <1>2, <1>3, <1>4, <1>5, <1>6
     DEF Next, Wait, Start, Cancel, vars, durable

-----------------------------------------------------------------------------
(* The invariant and what follows from it.                                 *)

LEMMA InvInit == Init => Inv
<1> SUFFICES ASSUME Init PROVE Inv
  OBVIOUS
<1>1. TypeOK
  BY DEF Init, TypeOK
<1>2. ClaimsMatchWork /\ WorkIsRegistered
  BY <1>1 DEF Init, ClaimsMatchWork, WorkIsRegistered, Idle
<1>3. \A a \in Applications : Cardinality(memory[a]) = 0
  BY FS_EmptySet DEF Init
<1>4. ShownIsDurable
  BY <1>3 DEF Init, ShownIsDurable
<1>5. QED
  BY <1>2, <1>4 DEF Inv

THEOREM Extractions == Spec => []Inv
<1>1. Inv /\ [Next]_vars => Inv'
  BY TypeStep, ClaimsStep, ShownStep DEF Inv, ClaimsMatchWork
<1>2. QED
  BY InvInit, <1>1, PTL DEF Spec

(* One extraction of an application at a time, by the holder of its claim, *)
(* and nobody waits where nobody works.                                    *)
THEOREM ClaimsAlways == Spec => []ClaimsMatchWork
<1>1. Inv => ClaimsMatchWork
  BY DEF Inv
<1>2. QED
  BY Extractions, <1>1, PTL

(* What the process shows of an application is backed by durable memory,   *)
(* which never holds one deck's observations about two Opportunities.      *)
THEOREM ShownAlways == Spec => []ShownIsDurable
<1>1. Inv => ShownIsDurable
  BY DEF Inv
<1>2. QED
  BY Extractions, <1>1, PTL

(* No late or repeated attempt undoes a success within a life of the       *)
(* process, and an accepted extraction is accepted for good.               *)
THEOREM SuccessKept == Spec => SuccessStays
<1> DEFINE Stays ==
      /\ life' = life => \A a \in Applications :
           run[a] = "succeeded" => run'[a] = "succeeded"
      /\ accepted \subseteq accepted'
<1>1. Inv /\ [Next]_vars => [Stays]_vars
  <2> SUFFICES ASSUME Inv, Next PROVE Stays
    OBVIOUS
  <2>1. TypeOK /\ WorkIsRegistered
    BY DEF Inv, ClaimsMatchWork
  <2>2. ASSUME NEW t \in Tasks, NEW a \in Applications, Submit(t, a) PROVE Stays
    BY <2>1, <2>2 DEF Submit, durable, TypeOK
  <2>3. ASSUME NEW t \in Tasks, Resume(t) \/ Finish(t) PROVE Stays
    <3>1. task[t].of \in Applications
      BY <2>1, <2>3, BusyTask DEF Resume, Finish, Claims
    <3>2. Project(task[t].of) /\ accepted \subseteq accepted'
      BY <2>3 DEF Resume, Finish
    <3>3. QED
      BY <2>1, <3>1, <3>2, ProjectEffect, FailedType DEF TypeOK
  <2>4. ASSUME NEW t \in Tasks, StartFails(t) \/ ExtractionFails(t) PROVE Stays
    <3>1. task[t].of \in Applications
      BY <2>1, <2>4, BusyTask DEF StartFails, ExtractionFails, Claims
    <3>2. QED
      BY <2>1, <2>4, <3>1, FailedType DEF StartFails, ExtractionFails, durable
  <2>5. ASSUME NEW t \in Tasks, Wait(t) \/ Start(t) \/ Cancel(t) PROVE Stays
    BY <2>5 DEF Wait, Start, Cancel, durable
  <2>6. CASE Crash
    BY <2>1, <2>6 DEF Crash, durable, TypeOK
  <2>7. QED
    BY <2>2, <2>3, <2>4, <2>5, <2>6 DEF Next
<1>2. QED
  BY Extractions, <1>1, PTL DEF Spec, SuccessStays
=============================================================================

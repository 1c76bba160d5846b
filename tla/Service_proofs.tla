--------------------------- MODULE Service_proofs ---------------------------
(* The desk, the throttle and the page library, for every number of        *)
(* attempts, commands, calls and contents, every limit, every window and   *)
(* every time to live: Desk.tla, RateLimiter.tla and PageLibrary.tla.      *)
(* They share nothing, and each is proved of its own next-state relation.  *)
EXTENDS Desk, RateLimiter, PageLibrary, FiniteSetTheorems, WellFoundedInduction, TLAPS

-----------------------------------------------------------------------------
(* The desk.  What is kept about its runs: stages are named outputs with a *)
(* status, a run that is over holds what its stages hold, and what a run   *)
(* that did not succeed holds comes from stages that did not fail.         *)

OutputSet == SUBSET (Nat \X Nat)
Statuses ==
  {"queued", "running", "succeeded", "partially_succeeded", "failed", "skipped"}
FailureSet == SUBSET {"retryable", "permanent"}
StageSet == [status : Statuses, outputs : OutputSet]
RunSet ==
  [kind : {"screening", "sourcing"}, status : Statuses, attempt : Nat, parent : Int,
   stages : Seq(StageSet), outputs : OutputSet, failures : FailureSet]

Unfinished == {"failed", "partially_succeeded"}

RunHolds(run) ==
  /\ run \in RunSet
  /\ run.attempt \in 1..MaxAttempts
  /\ run.status # "running" => Outputs(run.stages) \subseteq run.outputs
  /\ run.status \in Unfinished =>
       \A o \in run.outputs : \E i \in DOMAIN run.stages :
         run.stages[i].status # "failed" /\ o \in run.stages[i].outputs

(* A retry succeeds its parent, which it was made from.                    *)
LinkHolds(run, parent) ==
  /\ run.status = "succeeded"
  /\ parent.status \in Unfinished
  /\ parent.outputs \subseteq Outputs(run.stages)
  /\ run.attempt = parent.attempt + 1
  /\ \A i \in DOMAIN run.stages :
       run.stages[i].status = "succeeded" <=> parent.stages[i].status = "failed"

(* The table of retries names, for each run that was retried, the one run  *)
(* that retries it; and that one is every answer given for it.             *)
RunsInv ==
  /\ runs \in Seq(RunSet)
  /\ \A r \in DOMAIN runs : RunHolds(runs[r])
  /\ \A r \in DOMAIN runs : runs[r].parent > 0 =>
       /\ runs[r].parent \in DOMAIN runs
       /\ LinkHolds(runs[r], runs[runs[r].parent])
       /\ runs[r].parent \in DOMAIN retryByParent
       /\ retryByParent[runs[r].parent] = r
  /\ DOMAIN answers = DOMAIN retryByParent
  /\ \A p \in DOMAIN retryByParent : answers[p] = {retryByParent[p]}

(* What was revoked stays so.                                              *)
StatusInv ==
  /\ capability \in [Applications -> {"none", "usable", "revoked"}]
  /\ \A a \in revoked : a \in Applications /\ capability[a] = "revoked"

LEMMA OutputTypes ==
  /\ {} \in OutputSet
  /\ \A i, j \in Nat : {<<i, j>>} \in OutputSet
  /\ \A x, y \in OutputSet : x \cup y \in OutputSet
BY DEF OutputSet

LEMMA FailureTypes ==
  /\ {} \in FailureSet
  /\ \A f \in {"retryable", "permanent"} : {f} \in FailureSet
BY DEF FailureSet

LEMMA StageTypes ==
  ASSUME NEW status \in Statuses, NEW outputs \in OutputSet
  PROVE  /\ Stage(status, outputs) \in StageSet
         /\ Stage(status, outputs).status = status
         /\ Stage(status, outputs).outputs = outputs
BY DEF Stage, StageSet

LEMMA RunTypes ==
  ASSUME NEW kind \in {"screening", "sourcing"}, NEW status \in Statuses,
         NEW attempt \in Nat, NEW parent \in Int, NEW stages \in Seq(StageSet),
         NEW outputs \in OutputSet, NEW failures \in FailureSet
  PROVE  NewRun(kind, status, attempt, parent, stages, outputs, failures) \in RunSet
BY DEF NewRun, RunSet

LEMMA RunsAtRest ==
  ASSUME RunsInv, UNCHANGED <<runs, retryByParent, answers>>
  PROVE  RunsInv'
BY DEF RunsInv

(* What an append and a replacement do to the runs.                        *)
LEMMA RunAppended ==
  ASSUME RunsInv, NEW run, run \in RunSet, runs' = Append(runs, run)
  PROVE  /\ runs' \in Seq(RunSet) /\ NextId \in DOMAIN runs' /\ runs'[NextId] = run
         /\ \A r \in DOMAIN runs : r \in DOMAIN runs' /\ runs'[r] = runs[r] /\ r # NextId
                                   /\ r > 0
         /\ \A r \in DOMAIN runs' : r # NextId => r \in DOMAIN runs
         /\ NextId > 0
<1>1. PICK n \in Nat : n = Len(runs)
  BY DEF RunsInv
<1>2. runs \in Seq(RunSet) /\ DOMAIN runs = 1..n /\ NextId = n + 1
  BY <1>1 DEF RunsInv, NextId
<1>3. Append(runs, run) \in Seq(RunSet)
  BY <1>2
<1>4. /\ DOMAIN Append(runs, run) = 1..(n + 1)
      /\ Append(runs, run)[n + 1] = run
      /\ \A r \in 1..n : Append(runs, run)[r] = runs[r]
  BY <1>1, <1>2, <1>3
<1>5. QED
  BY <1>2, <1>3, <1>4

(* A run that retries nothing.                                             *)
LEMMA RunStarted ==
  ASSUME RunsInv, NEW run, RunHolds(run), run.parent <= 0,
         runs' = Append(runs, run), UNCHANGED <<retryByParent, answers>>
  PROVE  RunsInv'
<1>1. run \in RunSet /\ run.parent \in Int
  BY DEF RunHolds, RunSet
<1>2. /\ runs' \in Seq(RunSet) /\ NextId \in DOMAIN runs' /\ runs'[NextId] = run
      /\ \A r \in DOMAIN runs : r \in DOMAIN runs' /\ runs'[r] = runs[r] /\ r # NextId
      /\ \A r \in DOMAIN runs' : r # NextId => r \in DOMAIN runs
  BY <1>1, RunAppended
<1>3. ASSUME NEW r \in DOMAIN runs' PROVE RunHolds(runs'[r])
  BY <1>2 DEF RunsInv
<1>4. ASSUME NEW r \in DOMAIN runs', runs'[r].parent > 0
      PROVE  /\ runs'[r].parent \in DOMAIN runs'
             /\ LinkHolds(runs'[r], runs'[runs'[r].parent])
             /\ runs'[r].parent \in DOMAIN retryByParent
             /\ retryByParent[runs'[r].parent] = r
  <2>1. r # NextId
    BY <1>1, <1>2, <1>4
  <2>2. r \in DOMAIN runs /\ runs'[r] = runs[r]
    BY <1>2, <2>1
  <2>3. QED
    BY <1>2, <1>4, <2>2 DEF RunsInv
<1>5. QED
  BY <1>2, <1>3, <1>4 DEF RunsInv

LEMMA SeedHolds ==
  ASSUME RunsInv, NEW attempt \in 1..MaxAttempts, NEW outputs \in {{}, {<<0, 0>>}},
         SeedFailedRun(attempt, outputs)
  PROVE  RunsInv'
<1> DEFINE run == NewRun("screening", IF outputs = {} THEN "failed" ELSE "partially_succeeded",
                         attempt, IF attempt > 1 THEN -1 ELSE Unlinked,
                         <<Stage("succeeded", outputs), Stage("failed", {})>>, outputs,
                         {"retryable"})
<1>1. outputs \in OutputSet /\ {} \in OutputSet /\ attempt \in Nat
      /\ "succeeded" \in Statuses /\ "failed" \in Statuses
      /\ "partially_succeeded" \in Statuses
  BY OutputTypes DEF Statuses
<1>2. Stage("succeeded", outputs) \in StageSet /\ Stage("failed", {}) \in StageSet
  BY <1>1, StageTypes
<1>3. run.stages \in Seq(StageSet) /\ run.stages = <<Stage("succeeded", outputs), Stage("failed", {})>>
  BY <1>2 DEF NewRun
<1>4. run \in RunSet
  <2>1. <<Stage("succeeded", outputs), Stage("failed", {})>> \in Seq(StageSet)
    BY <1>2
  <2>2. {"retryable"} \in FailureSet
    BY FailureTypes
  <2>3. (IF outputs = {} THEN "failed" ELSE "partially_succeeded") \in Statuses
    BY <1>1
  <2>4. (IF attempt > 1 THEN -1 ELSE Unlinked) \in Int
    BY DEF Unlinked
  <2>5. QED
    BY <1>1, <2>1, <2>2, <2>3, <2>4, RunTypes
<1>5. /\ DOMAIN run.stages = 1..2 /\ run.outputs = outputs
      /\ run.stages[1].outputs = outputs /\ run.stages[1].status = "succeeded"
      /\ run.stages[2].outputs = {}
  BY <1>3 DEF Stage, NewRun
<1>6. Outputs(run.stages) \subseteq run.outputs
  <2> HIDE DEF run
  <2>1. QED
    BY <1>5 DEF Outputs
<1>7. \A o \in run.outputs : \E i \in DOMAIN run.stages :
        run.stages[i].status # "failed" /\ o \in run.stages[i].outputs
  <2> HIDE DEF run
  <2>1. 1 \in DOMAIN run.stages /\ run.stages[1].status # "failed"
    BY <1>5
  <2>2. QED
    BY <1>5, <2>1
<1>8. run.attempt = attempt /\ run.parent <= 0
  BY DEF NewRun, Unlinked
<1>9. RunHolds(run)
  <2> HIDE DEF run
  <2>1. QED
    BY <1>4, <1>6, <1>7, <1>8 DEF RunHolds
<1>10. runs' = Append(runs, run) /\ UNCHANGED <<retryByParent, answers>>
  BY DEF SeedFailedRun
<1>11. QED
  <2> HIDE DEF run
  <2>1. QED
    BY <1>8, <1>9, <1>10, RunStarted

(* A sourcing run starts with empty stages of one status.                  *)
LEMMA SourcingHolds ==
  ASSUME RunsInv, NEW n \in {2, 3}, NEW status \in {"succeeded", "queued"},
         runs' = Append(runs, NewRun("sourcing", status, 1, Unlinked,
                                     [i \in 1..n |-> Stage(status, {})], {}, {})),
         UNCHANGED <<retryByParent, answers>>
  PROVE  RunsInv'
<1> DEFINE run == NewRun("sourcing", status, 1, Unlinked,
                         [i \in 1..n |-> Stage(status, {})], {}, {})
<1>1. Stage(status, {}) \in StageSet /\ status \in Statuses /\ {} \in OutputSet
      /\ {} \in FailureSet
  <2>1. status \in Statuses
    BY DEF Statuses
  <2>2. QED
    BY <2>1, OutputTypes, FailureTypes, StageTypes
<1>2. [i \in 1..n |-> Stage(status, {})] \in Seq(StageSet)
  <2> HIDE DEF run
  <2>1. n \in Nat
    OBVIOUS
  <2>2. QED
    BY <1>1, <2>1
<1>3. run \in RunSet
  <2>1. 1 \in Nat /\ Unlinked \in Int
    BY DEF Unlinked
  <2>2. QED
    BY <1>1, <1>2, <2>1, RunTypes
<1>4. /\ run.attempt = 1 /\ run.parent <= 0 /\ run.outputs = {} /\ run.status = status
      /\ run.stages = [i \in 1..n |-> Stage(status, {})]
  BY DEF NewRun, Unlinked
<1>5. Outputs(run.stages) \subseteq run.outputs
  <2> HIDE DEF run
  <2>1. QED
    BY <1>4 DEF Outputs, Stage
<1>6. RunHolds(run)
  <2> HIDE DEF run
  <2>1. 1 \in 1..MaxAttempts
    BY AttemptsAssumption
  <2>2. QED
    BY <1>3, <1>4, <1>5, <2>1 DEF RunHolds, Unfinished
<1>7. QED
  <2>1. runs' = Append(runs, run)
    OBVIOUS
  <2> HIDE DEF run
  <2>2. QED
    BY <1>4, <1>6, <2>1, RunStarted

LEMMA TwoAlike == \A x : [i \in 1..2 |-> x] = <<x, x>>
OBVIOUS

(* A snapshot replaces a run that is not over, and so neither retries nor  *)
(* is retried.                                                             *)
LEMMA SnapshotHolds ==
  ASSUME RunsInv, NEW r \in DOMAIN runs, NEW status \in DOMAIN Order,
         NEW failure \in {"retryable", "permanent"}
  PROVE  /\ RunHolds(Snapshot(r, status, failure))
         /\ Snapshot(r, status, failure).parent = runs[r].parent
<1> DEFINE found == {<<r, 1>>}
           run == Snapshot(r, status, failure)
<1>1. runs[r] \in RunSet /\ runs[r].attempt \in 1..MaxAttempts /\ r \in Nat
  BY DEF RunsInv, RunHolds
<1>2. status \in {"queued", "running", "succeeded", "partially_succeeded", "failed"}
  BY DEF Order
<1>3. /\ run.kind = runs[r].kind /\ run.attempt = runs[r].attempt
      /\ run.parent = runs[r].parent /\ run.status = status
  BY <1>1 DEF Snapshot, RunSet
<1>4. run.outputs = IF status \in {"succeeded", "partially_succeeded"} THEN found ELSE {}
  BY <1>1 DEF Snapshot, RunSet
<1>5. run.failures \in FailureSet
  <2>1. run.failures = IF status \in {"partially_succeeded", "failed"} THEN {failure} ELSE {}
    BY <1>1 DEF Snapshot, RunSet
  <2>2. QED
    BY <2>1, FailureTypes
<1>6. {} \in OutputSet /\ found \in OutputSet
  BY <1>1, OutputTypes
<1>7. run.stages = CASE status = "queued" -> [i \in 1..2 |-> Stage("queued", {})]
                     [] status = "running" -> <<Stage("succeeded", found), Stage("running", {})>>
                     [] status = "succeeded" -> <<Stage("succeeded", found), Stage("succeeded", {})>>
                     [] status = "partially_succeeded" -> <<Stage("succeeded", found), Stage("failed", {})>>
                     [] OTHER -> <<Stage("failed", {}), Stage("skipped", {})>>
  BY <1>1 DEF Snapshot, RunSet
<1>8. PICK s1 \in Statuses, s2 \in Statuses, o \in {{}, found} :
        /\ run.stages = <<Stage(s1, o), Stage(s2, {})>>
        /\ status # "running" => o = run.outputs
        /\ status \in Unfinished /\ o # {} => s1 # "failed"
  <2> HIDE DEF run, found
  <2>1. CASE status = "queued"
    <3>1. run.stages = <<Stage("queued", {}), Stage("queued", {})>>
      BY <1>7, <2>1, TwoAlike
    <3>2. "queued" \in Statuses /\ "queued" \in Statuses /\ {} \in {{}, found}
      BY DEF Statuses
    <3>3. /\ status # "running" => {} = run.outputs
          /\ status \in Unfinished /\ {} # {} => "queued" # "failed"
      BY <1>4, <2>1 DEF Unfinished
    <3>4. QED
      BY <3>1, <3>2, <3>3
  <2>2. CASE status = "running"
    <3>1. run.stages = <<Stage("succeeded", found), Stage("running", {})>>
      BY <1>7, <2>2
    <3>2. "succeeded" \in Statuses /\ "running" \in Statuses /\ found \in {{}, found}
      BY DEF Statuses
    <3>3. /\ status # "running" => found = run.outputs
          /\ status \in Unfinished /\ found # {} => "succeeded" # "failed"
      BY <1>4, <2>2 DEF Unfinished
    <3>4. QED
      BY <3>1, <3>2, <3>3
  <2>3. CASE status = "succeeded"
    <3>1. run.stages = <<Stage("succeeded", found), Stage("succeeded", {})>>
      BY <1>7, <2>3
    <3>2. "succeeded" \in Statuses /\ "succeeded" \in Statuses /\ found \in {{}, found}
      BY DEF Statuses
    <3>3. /\ status # "running" => found = run.outputs
          /\ status \in Unfinished /\ found # {} => "succeeded" # "failed"
      BY <1>4, <2>3 DEF Unfinished
    <3>4. QED
      BY <3>1, <3>2, <3>3
  <2>4. CASE status = "partially_succeeded"
    <3>1. run.stages = <<Stage("succeeded", found), Stage("failed", {})>>
      BY <1>7, <2>4
    <3>2. "succeeded" \in Statuses /\ "failed" \in Statuses /\ found \in {{}, found}
      BY DEF Statuses
    <3>3. /\ status # "running" => found = run.outputs
          /\ status \in Unfinished /\ found # {} => "succeeded" # "failed"
      BY <1>4, <2>4 DEF Unfinished
    <3>4. QED
      BY <3>1, <3>2, <3>3
  <2>5. CASE status = "failed"
    <3>1. run.stages = <<Stage("failed", {}), Stage("skipped", {})>>
      BY <1>7, <2>5
    <3>2. "failed" \in Statuses /\ "skipped" \in Statuses /\ {} \in {{}, found}
      BY DEF Statuses
    <3>3. /\ status # "running" => {} = run.outputs
          /\ status \in Unfinished /\ {} # {} => "failed" # "failed"
      BY <1>4, <2>5 DEF Unfinished
    <3>4. QED
      BY <3>1, <3>2, <3>3
  <2>6. QED
    BY <1>2, <2>1, <2>2, <2>3, <2>4, <2>5
<1>9. /\ run.stages \in Seq(StageSet) /\ DOMAIN run.stages = 1..2
      /\ run.stages[1].status = s1 /\ run.stages[1].outputs = o
      /\ run.stages[2].outputs = {}
  <2> HIDE DEF run, found
  <2>1. Stage(s1, o) \in StageSet /\ Stage(s2, {}) \in StageSet
    BY <1>6, StageTypes
  <2>2. /\ Stage(s1, o).status = s1 /\ Stage(s1, o).outputs = o
        /\ Stage(s2, {}).outputs = {}
    BY DEF Stage
  <2>3. QED
    BY <1>8, <2>1, <2>2
<1>10. run \in RunSet
  <2>1. run.outputs \in OutputSet
    BY <1>4, <1>6
  <2>4. run.kind \in {"screening", "sourcing"} /\ run.status \in Statuses
        /\ run.attempt \in Nat /\ run.parent \in Int
    BY <1>1, <1>2, <1>3 DEF RunSet, Statuses
  <2>2. DOMAIN run = {"kind", "status", "attempt", "parent", "stages", "outputs", "failures"}
        /\ run = [f \in DOMAIN run |-> run[f]]
    BY <1>1 DEF Snapshot, RunSet
  <2>3. QED
    <3> HIDE DEF run
    <3>1. QED
      BY <1>5, <1>9, <2>1, <2>2, <2>4 DEF RunSet
<1>11. RunHolds(run)
  <2> HIDE DEF run
  <2>1. run.status # "running" => Outputs(run.stages) \subseteq run.outputs
    BY <1>3, <1>8, <1>9 DEF Outputs
  <2>2. run.status \in Unfinished =>
          \A x \in run.outputs : \E i \in DOMAIN run.stages :
            run.stages[i].status # "failed" /\ x \in run.stages[i].outputs
    <3>1. SUFFICES ASSUME run.status \in Unfinished, NEW x \in run.outputs
          PROVE  1 \in DOMAIN run.stages /\ run.stages[1].status # "failed"
                 /\ x \in run.stages[1].outputs
      OBVIOUS
    <3>2. o = run.outputs
      BY <1>3, <1>8, <3>1 DEF Unfinished
    <3>3. QED
      BY <1>3, <1>8, <1>9, <3>1, <3>2
  <2>3. QED
    BY <1>1, <1>3, <1>10, <2>1, <2>2 DEF RunHolds
<1>12. QED
  BY <1>3, <1>11

LEMMA PublishHolds ==
  ASSUME RunsInv, NEW r \in DOMAIN runs, NEW status \in DOMAIN Order,
         NEW failure \in {"retryable", "permanent"}, PublishSourcingRun(r, status, failure)
  PROVE  RunsInv'
<1>1. PICK run : run = Snapshot(r, status, failure)
  OBVIOUS
<1>2. /\ RunHolds(run) /\ run \in RunSet /\ run.parent = runs[r].parent
      /\ run.parent \in Int
  <2>1. RunHolds(run) /\ run.parent = runs[r].parent
    BY <1>1, SnapshotHolds
  <2>2. run \in RunSet
    BY <2>1 DEF RunHolds
  <2>3. QED
    BY <2>1, <2>2 DEF RunSet
<1>3. /\ runs' = [runs EXCEPT ![r] = run] /\ UNCHANGED <<retryByParent, answers>>
      /\ Order[runs[r].status] < 2 \/ run = runs[r]
  BY <1>1 DEF PublishSourcingRun
<1>4. runs \in Seq(RunSet)
  BY DEF RunsInv
<1>5. /\ runs' \in Seq(RunSet) /\ DOMAIN runs' = DOMAIN runs /\ runs'[r] = run
      /\ \A q \in DOMAIN runs : q # r => runs'[q] = runs[q]
  BY <1>2, <1>3, <1>4
<1>6. CASE run = runs[r]
  <2>1. runs' = runs
    BY <1>3, <1>4, <1>6
  <2>2. QED
    BY <1>3, <2>1, RunsAtRest
<1>7. CASE Order[runs[r].status] < 2
  <2>1. runs[r].status # "succeeded" /\ runs[r].status \notin Unfinished
    BY <1>7 DEF Order, Unfinished
  <2>2. ~(runs[r].parent > 0)
    BY <2>1 DEF RunsInv, LinkHolds
  <2>3. \A q \in DOMAIN runs : runs[q].parent > 0 => runs[q].parent # r
    BY <2>1 DEF RunsInv, LinkHolds
  <2>4. ASSUME NEW q \in DOMAIN runs' PROVE RunHolds(runs'[q])
    BY <1>2, <1>5 DEF RunsInv
  <2>5. ASSUME NEW q \in DOMAIN runs', runs'[q].parent > 0
        PROVE  /\ runs'[q].parent \in DOMAIN runs'
               /\ LinkHolds(runs'[q], runs'[runs'[q].parent])
               /\ runs'[q].parent \in DOMAIN retryByParent
               /\ retryByParent[runs'[q].parent] = q
    <3>1. q # r
      BY <1>2, <1>5, <2>2, <2>5
    <3>2. q \in DOMAIN runs /\ runs'[q] = runs[q]
      BY <1>5, <3>1
    <3>3. runs[q].parent > 0 /\ runs[q].parent # r
      BY <2>3, <2>5, <3>2
    <3>4. QED
      BY <1>5, <3>2, <3>3 DEF RunsInv
  <2>6. QED
    BY <1>3, <1>5, <2>4, <2>5 DEF RunsInv
<1>8. QED
  BY <1>3, <1>6, <1>7

(* The run a retry makes: a stage that failed is given an output, and the  *)
(* others keep theirs, so nothing the parent held is lost.                 *)
LEMMA ResumedHolds ==
  ASSUME NEW parent, RunHolds(parent), Retryable(parent), NEW id \in Nat, NEW p \in Nat
  PROVE  LET stages == Resumed(parent, id)
             run == NewRun(parent.kind, "succeeded", parent.attempt + 1, p, stages,
                           parent.outputs \cup Outputs(stages), {})
         IN RunHolds(run) /\ LinkHolds(run, parent) /\ run.parent = p
<1> DEFINE stages == Resumed(parent, id)
           run == NewRun(parent.kind, "succeeded", parent.attempt + 1, p, stages,
                         parent.outputs \cup Outputs(stages), {})
<1>1. /\ parent \in RunSet /\ parent.attempt \in 1..MaxAttempts
      /\ parent.stages \in Seq(StageSet) /\ parent.status \in Unfinished
      /\ parent.attempt + 1 <= MaxAttempts
      /\ \A i \in DOMAIN parent.stages :
           parent.stages[i].status \in {"succeeded", "skipped", "failed"}
  BY DEF RunHolds, RunSet, Retryable, Unfinished
<1>2. PICK n \in Nat : n = Len(parent.stages) /\ DOMAIN parent.stages = 1..n
  BY <1>1
<1>3. \A i \in 1..n : parent.stages[i] \in StageSet
                      /\ parent.stages[i].outputs \in OutputSet
  <2>1. \A i \in 1..n : parent.stages[i] \in StageSet
    BY <1>1, <1>2
  <2>2. QED
    BY <2>1 DEF StageSet
<1>4. ASSUME NEW i \in 1..n
      PROVE  /\ stages[i] \in StageSet
             /\ stages[i].status = "succeeded" <=> parent.stages[i].status = "failed"
             /\ parent.stages[i].status # "failed" => stages[i].outputs = parent.stages[i].outputs
  <2>1. CASE parent.stages[i].status = "failed"
    <3>1. stages[i] = Stage("succeeded", {<<id, i>>})
      BY <1>2, <2>1 DEF Resumed
    <3>2. "succeeded" \in Statuses /\ {<<id, i>>} \in OutputSet
      BY OutputTypes DEF Statuses
    <3>3. QED
      BY <2>1, <3>1, <3>2, StageTypes
  <2>2. CASE parent.stages[i].status # "failed"
    <3>1. stages[i] = Stage("skipped", parent.stages[i].outputs)
      BY <1>2, <2>2 DEF Resumed
    <3>2. "skipped" \in Statuses /\ parent.stages[i].outputs \in OutputSet
      BY <1>3 DEF Statuses
    <3>3. stages[i] \in StageSet /\ stages[i].status = "skipped"
          /\ stages[i].outputs = parent.stages[i].outputs
      BY <3>1, <3>2, StageTypes
    <3>4. QED
      BY <2>2, <3>3
  <2>3. QED
    BY <2>1, <2>2
<1>5. DOMAIN stages = 1..n /\ stages = [i \in 1..n |-> stages[i]]
  BY <1>2 DEF Resumed
<1>6. stages \in Seq(StageSet)
  <2> HIDE DEF stages
  <2>1. stages \in [1..n -> StageSet]
    BY <1>4, <1>5
  <2>2. QED
    BY <2>1
<1>7. Outputs(stages) \in OutputSet
  <2> HIDE DEF stages
  <2>1. \A i \in 1..n : stages[i].outputs \subseteq Nat \X Nat
    BY <1>4 DEF StageSet, OutputSet
  <2>2. QED
    BY <1>5, <2>1 DEF Outputs, OutputSet
<1>8. parent.outputs \subseteq Outputs(stages)
  <2> HIDE DEF stages
  <2>1. ASSUME NEW o \in parent.outputs PROVE o \in Outputs(stages)
    <3>1. PICK i \in 1..n : parent.stages[i].status # "failed" /\ o \in parent.stages[i].outputs
      BY <1>1, <1>2 DEF RunHolds
    <3>2. o \in stages[i].outputs /\ i \in DOMAIN stages
      BY <1>4, <1>5, <3>1
    <3>3. QED
      BY <3>2 DEF Outputs
  <2>2. QED
    BY <2>1
<1>9. /\ run.status = "succeeded" /\ run.attempt = parent.attempt + 1 /\ run.parent = p
      /\ run.stages = stages /\ run.outputs = parent.outputs \cup Outputs(stages)
  BY DEF NewRun
<1>10. run \in RunSet
  <2> HIDE DEF stages
  <2>1. /\ parent.kind \in {"screening", "sourcing"} /\ parent.attempt + 1 \in Nat
        /\ parent.outputs \in OutputSet
    BY <1>1 DEF RunSet
  <2>2. /\ parent.outputs \cup Outputs(stages) \in OutputSet /\ {} \in FailureSet
        /\ "succeeded" \in Statuses /\ p \in Int
    BY <1>7, <2>1, OutputTypes, FailureTypes DEF Statuses
  <2>3. QED
    BY <1>6, <2>1, <2>2, RunTypes
<1>11. RunHolds(run)
  <2> HIDE DEF run, stages
  <2>1. parent.attempt + 1 \in 1..MaxAttempts
    BY <1>1, AttemptsAssumption
  <2>2. QED
    BY <1>9, <1>10, <2>1 DEF RunHolds, Unfinished
<1>12. LinkHolds(run, parent)
  <2> HIDE DEF run, stages
  <2>1. QED
    BY <1>1, <1>4, <1>5, <1>8, <1>9 DEF LinkHolds
<1>13. QED
  BY <1>9, <1>11, <1>12

LEMMA RetryHolds ==
  ASSUME RunsInv, NEW p \in DOMAIN runs, RetryRun(p)
  PROVE  RunsInv'
<1>1. CASE p \in DOMAIN retryByParent
  <2>1. /\ answers' = Answered(p, retryByParent[p])
        /\ UNCHANGED <<runs, retryByParent>>
    BY <1>1 DEF RetryRun
  <2>2. p \in DOMAIN answers /\ answers[p] = {retryByParent[p]}
    BY <1>1 DEF RunsInv
  <2>3. /\ DOMAIN answers' = DOMAIN answers
        /\ \A q \in DOMAIN answers : answers'[q] = answers[q]
    BY <2>1, <2>2 DEF Answered, With
  <2>4. QED
    BY <2>1, <2>3 DEF RunsInv
<1>2. CASE p \notin DOMAIN retryByParent
  <2>1. PICK run : run = NewRun(runs[p].kind, "succeeded", runs[p].attempt + 1, p,
                                Resumed(runs[p], NextId),
                                runs[p].outputs \cup Outputs(Resumed(runs[p], NextId)), {})
    OBVIOUS
  <2>2. /\ Retryable(runs[p]) /\ runs' = Append(runs, run)
        /\ retryByParent' = With(retryByParent, p, NextId)
        /\ answers' = Answered(p, NextId)
    BY <1>2, <2>1 DEF RetryRun
  <2>3. NextId \in Nat /\ p \in Nat /\ RunHolds(runs[p])
    BY DEF RunsInv, NextId
  <2>4. RunHolds(run) /\ LinkHolds(run, runs[p]) /\ run.parent = p /\ run \in RunSet
    <3>1. RunHolds(run) /\ LinkHolds(run, runs[p]) /\ run.parent = p
      BY <2>1, <2>2, <2>3, ResumedHolds
    <3>2. QED
      BY <3>1 DEF RunHolds
  <2>5. /\ runs' \in Seq(RunSet) /\ NextId \in DOMAIN runs' /\ runs'[NextId] = run
        /\ \A r \in DOMAIN runs : r \in DOMAIN runs' /\ runs'[r] = runs[r] /\ r # NextId
        /\ \A r \in DOMAIN runs' : r # NextId => r \in DOMAIN runs
    BY <2>2, <2>4, RunAppended
  <2>6. /\ DOMAIN retryByParent' = DOMAIN retryByParent \cup {p}
        /\ retryByParent'[p] = NextId
        /\ \A q \in DOMAIN retryByParent : q # p /\ retryByParent'[q] = retryByParent[q]
    BY <1>2, <2>2 DEF With
  <2>7. /\ DOMAIN answers' = DOMAIN answers \cup {p}
        /\ answers'[p] = {NextId}
        /\ \A q \in DOMAIN answers : q # p => answers'[q] = answers[q]
    <3>1. p \notin DOMAIN answers
      BY <1>2 DEF RunsInv
    <3>2. QED
      BY <2>2, <3>1 DEF Answered, With
  <2>8. ASSUME NEW r \in DOMAIN runs' PROVE RunHolds(runs'[r])
    BY <2>4, <2>5 DEF RunsInv
  <2>9. ASSUME NEW r \in DOMAIN runs', runs'[r].parent > 0
        PROVE  /\ runs'[r].parent \in DOMAIN runs'
               /\ LinkHolds(runs'[r], runs'[runs'[r].parent])
               /\ runs'[r].parent \in DOMAIN retryByParent'
               /\ retryByParent'[runs'[r].parent] = r
    <3>1. CASE r = NextId
      BY <2>4, <2>5, <2>6, <3>1
    <3>2. CASE r # NextId
      <4>1. r \in DOMAIN runs /\ runs'[r] = runs[r]
        BY <2>5, <3>2
      <4>2. /\ runs[r].parent \in DOMAIN runs
            /\ LinkHolds(runs[r], runs[runs[r].parent])
            /\ runs[r].parent \in DOMAIN retryByParent
            /\ retryByParent[runs[r].parent] = r
        BY <2>9, <4>1 DEF RunsInv
      <4>3. QED
        BY <2>5, <2>6, <4>1, <4>2
    <3>3. QED
      BY <3>1, <3>2
  <2>10. /\ DOMAIN answers' = DOMAIN retryByParent'
         /\ \A q \in DOMAIN retryByParent' : answers'[q] = {retryByParent'[q]}
    <3>1. /\ DOMAIN answers = DOMAIN retryByParent
          /\ \A q \in DOMAIN retryByParent : answers[q] = {retryByParent[q]}
      BY DEF RunsInv
    <3>2. QED
      BY <2>6, <2>7, <3>1
  <2>11. QED
    BY <2>5, <2>8, <2>9, <2>10 DEF RunsInv
<1>3. QED
  BY <1>1, <1>2

LEMMA DeskInitHolds == DeskInit => RunsInv /\ StatusInv
<1> SUFFICES ASSUME DeskInit PROVE RunsInv /\ StatusInv
  OBVIOUS
<1>1. RunsInv
  BY DEF DeskInit, RunsInv, Empty
<1>2. StatusInv
  BY DEF DeskInit, StatusInv, NoCapability
<1>3. QED
  BY <1>1, <1>2

LEMMA DeskStepHolds == RunsInv /\ StatusInv /\ [DeskNext]_deskVars => RunsInv' /\ StatusInv'
<1> SUFFICES ASSUME RunsInv, StatusInv, [DeskNext]_deskVars PROVE RunsInv' /\ StatusInv'
  OBVIOUS
<1> DEFINE Rests == UNCHANGED <<runs, retryByParent, answers>>
           Stays == UNCHANGED <<capability, revoked>>
<1>1. Rests => RunsInv'
  BY RunsAtRest
<1>2. Stays => StatusInv'
  BY DEF StatusInv
<1> HIDE DEF Rests, Stays
<1>3. CASE UNCHANGED deskVars
  BY <1>1, <1>2, <1>3 DEF deskVars, volatile, Rests, Stays
<1>4. CASE CreateThesis
  BY <1>1, <1>2, <1>4 DEF CreateThesis, Rests, Stays
<1>5. CASE StartSourcing
  <2>1. RunsInv'
    BY <1>5, SourcingHolds DEF StartSourcing
  <2>2. QED
    BY <1>2, <1>5, <2>1 DEF StartSourcing, Stays
<1>6. CASE QueueSourcingRun
  <2>1. RunsInv'
    BY <1>6, SourcingHolds DEF QueueSourcingRun
  <2>2. QED
    BY <1>2, <1>6, <2>1 DEF QueueSourcingRun, Stays
<1>7. CASE Restart
  <2>1. RunsInv'
    BY <1>7 DEF Restart, RunsInv, Empty
  <2>2. StatusInv'
    BY <1>7 DEF Restart, StatusInv, NoCapability
  <2>3. QED
    BY <2>1, <2>2
<1>8. ASSUME NEW a \in Applications, RegisterApplication(a) \/ RevokeFounderStatus(a)
      PROVE  RunsInv' /\ StatusInv'
  <2>1. RunsInv'
    BY <1>1, <1>8 DEF RegisterApplication, RevokeFounderStatus, Rests
  <2>2. CASE RegisterApplication(a)
    <3>1. capability' = [capability EXCEPT ![a] = Issued(a)] /\ revoked' = revoked
      BY <2>2 DEF RegisterApplication
    <3>2. Issued(a) \in {"none", "usable", "revoked"} /\ (capability[a] = "revoked" => Issued(a) = "revoked")
      BY DEF Issued, NoCapability, StatusInv
    <3>3. QED
      BY <2>1, <3>1, <3>2 DEF StatusInv
  <2>3. CASE RevokeFounderStatus(a)
    <3>1. /\ capability' = [capability EXCEPT ![a] = "revoked"]
          /\ revoked' = revoked \cup {a}
      BY <2>3 DEF RevokeFounderStatus
    <3>2. QED
      BY <2>1, <3>1 DEF StatusInv
  <2>4. QED
    BY <1>8, <2>2, <2>3
<1>9. ASSUME NEW attempt \in 1..MaxAttempts, NEW outputs \in {{}, {<<0, 0>>}},
             SeedFailedRun(attempt, outputs)
      PROVE  RunsInv' /\ StatusInv'
  <2>1. RunsInv'
    BY <1>9, SeedHolds
  <2>2. QED
    BY <1>2, <1>9, <2>1 DEF SeedFailedRun, Stays
<1>10. ASSUME NEW r \in DOMAIN runs, RetryRun(r) PROVE RunsInv' /\ StatusInv'
  <2>1. RunsInv'
    BY <1>10, RetryHolds
  <2>2. QED
    BY <1>2, <1>10, <2>1 DEF RetryRun, Stays
<1>11. ASSUME NEW r \in DOMAIN runs, NEW status \in DOMAIN Order,
              NEW failure \in {"retryable", "permanent"}, PublishSourcingRun(r, status, failure)
       PROVE  RunsInv' /\ StatusInv'
  <2>1. RunsInv'
    BY <1>11, PublishHolds
  <2>2. QED
    BY <1>2, <1>11, <2>1 DEF PublishSourcingRun, Stays
<1>12. ASSUME NEW r, NEW audit, PublishCandidateSourcingAudit(r, audit)
       PROVE  RunsInv' /\ StatusInv'
  BY <1>1, <1>2, <1>12 DEF PublishCandidateSourcingAudit, Rests, Stays
<1>13. ASSUME NEW id, NEW d, RegisterSourceArtifact(id, d) PROVE RunsInv' /\ StatusInv'
  BY <1>1, <1>2, <1>13 DEF RegisterSourceArtifact, Rests, Stays
<1>14. ASSUME NEW batch, PublishCandidatePublicContacts(batch) PROVE RunsInv' /\ StatusInv'
  <2>1. Rests /\ Stays
    BY <1>14 DEF PublishCandidatePublicContacts, Rests, Stays
  <2>2. QED
    BY <1>1, <1>2, <2>1
<1>15. ASSUME NEW outcome, StoreAssessment(outcome) PROVE RunsInv' /\ StatusInv'
  BY <1>1, <1>2, <1>15 DEF StoreAssessment, Rests, Stays
<1>16. ASSUME NEW id, NEW result, NEW replacement, RecordRuleOverride(id, result, replacement)
       PROVE  RunsInv' /\ StatusInv'
  BY <1>1, <1>2, <1>16 DEF RecordRuleOverride, volatile, Rests, Stays
<1>17. QED
  BY <1>3, <1>4, <1>5, <1>6, <1>7, <1>8, <1>9, <1>10, <1>11, <1>12, <1>13, <1>14, <1>15, <1>16
  DEF DeskNext

(* A retry belongs to one run that did not succeed and that nothing else   *)
(* retries, is within the attempts allowed, keeps what its parent had, and *)
(* is every answer given for it; and what was revoked grants nothing.      *)
THEOREM RetriesStayBounded == DeskInit /\ [][DeskNext]_deskVars => []RetriesAreBounded
<1>1. RunsInv /\ StatusInv => RetriesAreBounded
  <2> SUFFICES ASSUME RunsInv, StatusInv PROVE RetriesAreBounded
    OBVIOUS
  <2>1. ASSUME NEW r \in DOMAIN runs
        PROVE  /\ runs[r].attempt <= MaxAttempts
               /\ runs[r].status # "running" => Outputs(runs[r].stages) \subseteq runs[r].outputs
    BY DEF RunsInv, RunHolds
  <2>2. ASSUME NEW r \in DOMAIN runs, runs[r].parent > 0
        PROVE  /\ LinkHolds(runs[r], runs[runs[r].parent])
               /\ answers[runs[r].parent] = {r}
    BY <2>2 DEF RunsInv
  <2>3. \A a \in revoked : ~Granted(a)
    BY DEF StatusInv, Granted
  <2>4. QED
    BY <2>1, <2>2, <2>3 DEF RetriesAreBounded, LinkHolds, Unfinished
<1>2. QED
  BY <1>1, DeskInitHolds, DeskStepHolds, PTL
-----------------------------------------------------------------------------
(* What the desk keeps is added to and not replaced.                       *)

(* One sequence begins as another does.                                    *)
Prolongs(later, former) ==
  /\ Len(former) <= Len(later)
  /\ \A i \in 1..Len(former) : later[i] = former[i]

LEMMA ProlongsIsPrefix ==
  ASSUME NEW S, NEW former \in Seq(S), NEW later \in Seq(S), Prolongs(later, former)
  PROVE  IsPrefix(former, later)
<1>1. PICK n \in Nat : n = Len(former)
  OBVIOUS
<1>2. PICK k \in Nat : k = Len(later) /\ n <= k
  BY <1>1 DEF Prolongs
<1>3. /\ DOMAIN former = 1..n /\ DOMAIN later = 1..k
      /\ \A i \in 1..n : later[i] = former[i]
  BY <1>1, <1>2 DEF Prolongs
<1>4. SubSeq(former, 1, n) = [i \in 1..n |-> former[i]]
  BY <1>1, <1>3
<1>5. SubSeq(later, 1, n) = [i \in 1..n |-> later[i]]
  BY <1>2, <1>3
<1>6. [i \in 1..n |-> former[i]] = [i \in 1..n |-> later[i]]
  BY <1>3
<1>7. QED
  BY <1>1, <1>2, <1>4, <1>5, <1>6 DEF IsPrefix

LEMMA SameProlongs ==
  ASSUME NEW S, NEW s \in Seq(S)
  PROVE  IsPrefix(s, s)
BY ProlongsIsPrefix DEF Prolongs

LEMMA AppendProlongs ==
  ASSUME NEW S, NEW s \in Seq(S), NEW x \in S
  PROVE  /\ Append(s, x) \in Seq(S) /\ Prolongs(Append(s, x), s)
         /\ IsPrefix(s, Append(s, x))
<1>1. Append(s, x) \in Seq(S)
  OBVIOUS
<1>2. Prolongs(Append(s, x), s)
  BY DEF Prolongs
<1>3. QED
  BY <1>1, <1>2, ProlongsIsPrefix

(* A fold over a batch of two.                                             *)
LEMMA PairFold ==
  ASSUME NEW base, NEW a, NEW b
  PROVE  Merged(base, <<a, b>>) = Merge(Merge(base, a), b)
<1> DEFINE two == <<a, b>>
           of(g, s) == IF s = {} THEN base ELSE Merge(g[s \ {Max(s)}], two[Max(s)])
           F == CHOOSE g : g = [s \in SUBSET {1, 2} |-> of(g, s)]
           one == Merge(base, a)
           G == [s \in SUBSET {1, 2} |->
                   IF s = {} THEN base
                   ELSE IF s = {1} THEN one
                   ELSE IF s = {2} THEN Merge(base, b)
                   ELSE Merge(one, b)]
<1>1. DOMAIN two = {1, 2} /\ two[1] = a /\ two[2] = b
  OBVIOUS
<1>2. Max({1, 2}) = 2 /\ Max({1}) = 1 /\ Max({2}) = 2
  BY DEF Max
<1>3. Merged(base, two) = F[{1, 2}]
  <2> HIDE DEF two
  <2>1. QED
    BY <1>1 DEF Merged, FoldLeft, MapThenFoldSet
<1>4. \A s \in SUBSET {1, 2} : s \in {{}, {1}, {2}, {1, 2}}
  OBVIOUS
<1>5. /\ {1, 2} \ {2} = {1} /\ {1} \ {1} = {} /\ {2} \ {2} = {}
      /\ {} # {1} /\ {} # {2} /\ {1} # {2}
      /\ {1, 2} # {} /\ {1, 2} # {1} /\ {1, 2} # {2}
  OBVIOUS
<1>6. G = [s \in SUBSET {1, 2} |-> of(G, s)]
  <2>1. G[{}] = base /\ G[{1}] = one /\ G[{2}] = Merge(base, b) /\ G[{1, 2}] = Merge(one, b)
    BY <1>5
  <2> HIDE DEF G, two
  <2>2. of(G, {}) = base
    OBVIOUS
  <2>3. of(G, {1}) = one
    BY <1>1, <1>2, <1>5, <2>1
  <2>4. of(G, {2}) = Merge(base, b)
    BY <1>1, <1>2, <1>5, <2>1
  <2>5. of(G, {1, 2}) = Merge(one, b)
    BY <1>1, <1>2, <1>5, <2>1
  <2>6. ASSUME NEW s \in SUBSET {1, 2} PROVE G[s] = of(G, s)
    <3> HIDE DEF of
    <3>1. QED
      BY <1>4, <2>1, <2>2, <2>3, <2>4, <2>5
  <2>7. G = [s \in SUBSET {1, 2} |-> G[s]]
    BY DEF G
  <2>8. QED
    BY <2>6, <2>7
<1>7. F = [s \in SUBSET {1, 2} |-> of(F, s)]
  <2> HIDE DEF G, of
  <2>1. QED
    BY <1>6
<1>8. F[{1, 2}] = Merge(one, b)
  <2> HIDE DEF F, two
  <2>1. \A s \in SUBSET {1, 2} : F[s] = of(F, s)
    BY <1>7
  <2>2. F[{}] = base
    BY <2>1
  <2>3. F[{1}] = one
    BY <1>1, <1>2, <1>5, <2>1, <2>2
  <2>4. F[{1, 2}] = of(F, {1, 2})
    BY <2>1
  <2>5. of(F, {1, 2}) = Merge(F[{1}], b)
    BY <1>1, <1>2, <1>5
  <2>6. QED
    BY <2>3, <2>4, <2>5
<1>9. QED
  BY <1>3, <1>8

RouteSet == [id : {"x", "y"}, source : {1, 2}]
UniqueRoutes(known) ==
  \A i \in DOMAIN known : \A j \in DOMAIN known : known[i].id = known[j].id => i = j

(* A route that fits is added under an identifier of its own.              *)
LEMMA MergeKeeps ==
  ASSUME NEW known \in Seq(RouteSet), NEW route \in RouteSet,
         UniqueRoutes(known), RouteFits(known, route)
  PROVE  /\ Merge(known, route) \in Seq(RouteSet)
         /\ UniqueRoutes(Merge(known, route))
         /\ Prolongs(Merge(known, route), known)
         /\ \A i \in DOMAIN Merge(known, route) :
              Merge(known, route)[i] = route \/ (i \in DOMAIN known
                                                 /\ Merge(known, route)[i] = known[i])
<1>1. CASE route \in Range(known)
  <2>1. Merge(known, route) = known
    BY <1>1 DEF Merge
  <2>2. QED
    BY <2>1 DEF Prolongs
<1>2. CASE route \notin Range(known)
  <2>1. PICK n \in Nat : n = Len(known) /\ DOMAIN known = 1..n
    OBVIOUS
  <2>2. PICK more \in Seq(RouteSet) : more = Append(known, route)
    BY AppendProlongs
  <2>3. /\ DOMAIN more = 1..(n + 1) /\ more[n + 1] = route
        /\ \A i \in 1..n : more[i] = known[i]
    BY <2>1, <2>2
  <2>4. Merge(known, route) = more
    BY <1>2, <2>2 DEF Merge
  <2>5. \A i \in 1..n : known[i].id # route.id
    BY <1>2, <2>1 DEF Range, RouteFits
  <2>6. \A i \in 1..(n + 1) : i # n + 1 => i \in 1..n
    OBVIOUS
  <2>7. ASSUME NEW i \in 1..(n + 1), NEW j \in 1..(n + 1), more[i].id = more[j].id
        PROVE  i = j
    <3>1. CASE i = n + 1
      <4>1. SUFFICES ASSUME j # n + 1 PROVE FALSE
        BY <3>1
      <4>2. j \in 1..n /\ known[j].id = route.id
        BY <2>3, <2>6, <2>7, <3>1, <4>1
      <4>3. QED
        BY <2>5, <4>2
    <3>2. CASE j = n + 1
      <4>1. SUFFICES ASSUME i # n + 1 PROVE FALSE
        BY <3>2
      <4>2. i \in 1..n /\ known[i].id = route.id
        BY <2>3, <2>6, <2>7, <3>2, <4>1
      <4>3. QED
        BY <2>5, <4>2
    <3>3. CASE i # n + 1 /\ j # n + 1
      <4>1. i \in 1..n /\ j \in 1..n /\ known[i].id = known[j].id
        BY <2>3, <2>6, <2>7, <3>3
      <4>2. QED
        BY <2>1, <4>1 DEF UniqueRoutes
    <3>4. QED
      BY <3>1, <3>2, <3>3
  <2>8. UniqueRoutes(more)
    BY <2>3, <2>7 DEF UniqueRoutes
  <2>9. Prolongs(more, known)
    BY <2>2, AppendProlongs
  <2>10. \A i \in DOMAIN more : more[i] = route \/ (i \in DOMAIN known /\ more[i] = known[i])
    BY <2>1, <2>3, <2>6
  <2>11. QED
    BY <2>4, <2>8, <2>9, <2>10
<1>3. QED
  BY <1>1, <1>2

(* What a batch does to the routes.                                        *)
LEMMA BatchKeeps ==
  ASSUME routes \in Seq(RouteSet), UniqueRoutes(routes),
         NEW a \in RouteSet, NEW b \in RouteSet, PublishCandidatePublicContacts(<<a, b>>)
  PROVE  routes' \in Seq(RouteSet) /\ UniqueRoutes(routes') /\ IsPrefix(routes, routes')
<1>1. PICK one : one = Merge(routes, a)
  OBVIOUS
<1>2. routes' = Merge(one, b)
  BY <1>1, PairFold DEF PublishCandidatePublicContacts
<1>3. PICK batch : batch = <<a, b>>
  OBVIOUS
<1>4. /\ DOMAIN batch = {1, 2} /\ batch[1] = a /\ batch[2] = b
      /\ 1 \in DOMAIN SubSeq(batch, 1, 1) /\ SubSeq(batch, 1, 1)[1] = a
  <2>1. DOMAIN batch = {1, 2} /\ batch[1] = a /\ batch[2] = b
    BY <1>3
  <2>2. 1 \in DOMAIN SubSeq(batch, 1, 1) /\ SubSeq(batch, 1, 1)[1] = a
    <3>1. batch \in Seq(RouteSet) /\ Len(batch) = 2
      BY <1>3
    <3>2. /\ SubSeq(batch, 1, 1) \in Seq(RouteSet) /\ Len(SubSeq(batch, 1, 1)) = 1
          /\ SubSeq(batch, 1, 1)[1] = batch[1]
      BY <3>1
    <3>3. QED
      BY <2>1, <3>2
  <2>3. QED
    BY <2>1, <2>2
<1>5. \A i \in DOMAIN batch : /\ RouteFits(routes, batch[i])
                              /\ RouteFits(SubSeq(batch, 1, i - 1), batch[i])
  BY <1>3 DEF PublishCandidatePublicContacts
<1>6. RouteFits(routes, a) /\ RouteFits(routes, b) /\ RouteFits(SubSeq(batch, 1, 1), b)
  <2>1. RouteFits(routes, a) /\ RouteFits(routes, b) /\ RouteFits(SubSeq(batch, 1, 2 - 1), b)
    BY <1>4, <1>5
  <2>2. 2 - 1 = 1
    OBVIOUS
  <2>3. QED
    BY <2>1, <2>2
<1>7. b.id = a.id => a = b
  BY <1>4, <1>6 DEF RouteFits
<1>8. /\ one \in Seq(RouteSet) /\ UniqueRoutes(one) /\ Prolongs(one, routes)
      /\ \A i \in DOMAIN one : one[i] = a \/ (i \in DOMAIN routes /\ one[i] = routes[i])
  BY <1>1, <1>6, MergeKeeps
<1>9. RouteFits(one, b)
  BY <1>6, <1>7, <1>8 DEF RouteFits
<1>10. routes' \in Seq(RouteSet) /\ UniqueRoutes(routes') /\ Prolongs(routes', one)
  BY <1>2, <1>8, <1>9, MergeKeeps
<1>11. Prolongs(routes', routes)
  <2>1. PICK n \in Nat, k \in Nat, m \in Nat : n = Len(routes) /\ k = Len(one) /\ m = Len(routes')
    BY <1>8, <1>10
  <2>2. QED
    BY <1>8, <1>10, <2>1 DEF Prolongs
<1>12. QED
  BY <1>10, <1>11, ProlongsIsPrefix

Outcomes == {"indeterminate", "not_evaluated"}
ThesisSet == [thesis : Nat, number : Nat]
OverrideSet ==
  [id : {"x", "y"}, result : Nat, original : Outcomes, replacement : {"pass"}]

(* Rule results are kept under the number of the command that stored them. *)
KeptInv ==
  /\ commands \in Nat
  /\ theses \in Seq(ThesisSet)
  /\ overrides \in Seq(OverrideSet)
  /\ routes \in Seq(RouteSet) /\ UniqueRoutes(routes)
  /\ \A i \in DOMAIN results : i \in Nat /\ i < commands /\ results[i] \in Outcomes

(* What one step may do to each part, while the process lives.             *)
ThesesKept == theses' \in Seq(ThesisSet) /\ IsPrefix(theses, theses')
RoutesKept ==
  routes' \in Seq(RouteSet) /\ UniqueRoutes(routes') /\ IsPrefix(routes, routes')
RunsKept ==
  \A r \in DOMAIN runs : r \in DOMAIN runs' /\ (Order[runs[r].status] = 2 => runs'[r] = runs[r])
RegistriesKept == Extends(audits', audits) /\ Extends(artifacts', artifacts)
ResultsKept ==
  /\ commands' \in Nat /\ Extends(results', results)
  /\ \A i \in DOMAIN results' : i \in Nat /\ i < commands' /\ results'[i] \in Outcomes
OverridesKept == overrides' \in Seq(OverrideSet) /\ IsPrefix(overrides, overrides')
RevokedKept == revoked \subseteq revoked'

NothingRewritten ==
  /\ IsPrefix(theses, theses')
  /\ IsPrefix(routes, routes')
  /\ \A i, j \in DOMAIN routes' : routes'[i].id = routes'[j].id => i = j
  /\ \A r \in DOMAIN runs : r \in DOMAIN runs' /\ (Order[runs[r].status] = 2 => runs'[r] = runs[r])
  /\ Extends(audits', audits) /\ Extends(artifacts', artifacts) /\ Extends(results', results)
  /\ revoked \subseteq revoked'

StepKept ==
  /\ KeptInv'
  /\ IsPrefix(overrides, overrides')
  /\ NothingRewritten \/ (runs' = <<>> /\ theses' = <<>> /\ revoked' = {})

LEMMA PartsTogether ==
  ASSUME ThesesKept, RoutesKept, RunsKept, RegistriesKept, ResultsKept, OverridesKept,
         RevokedKept
  PROVE  StepKept
<1>1. NothingRewritten
  BY DEF ThesesKept, RoutesKept, RunsKept, RegistriesKept, ResultsKept, OverridesKept,
         RevokedKept, NothingRewritten, UniqueRoutes
<1>2. KeptInv'
  BY DEF ThesesKept, RoutesKept, ResultsKept, OverridesKept, KeptInv
<1>3. QED
  BY <1>1, <1>2 DEF StepKept, OverridesKept

LEMMA PartsAtRest ==
  ASSUME KeptInv
  PROVE  /\ theses' = theses => ThesesKept
         /\ routes' = routes => RoutesKept
         /\ runs' = runs => RunsKept
         /\ audits' = audits /\ artifacts' = artifacts => RegistriesKept
         /\ results' = results /\ (commands' = commands \/ commands' = commands + 1)
              => ResultsKept
         /\ overrides' = overrides => OverridesKept
         /\ revoked' = revoked => RevokedKept
<1>1. /\ commands \in Nat /\ theses \in Seq(ThesisSet) /\ overrides \in Seq(OverrideSet)
      /\ routes \in Seq(RouteSet) /\ UniqueRoutes(routes)
      /\ \A i \in DOMAIN results : i \in Nat /\ i < commands /\ results[i] \in Outcomes
  BY DEF KeptInv
<1>2. theses' = theses => ThesesKept
  BY <1>1, SameProlongs DEF ThesesKept
<1>3. routes' = routes => RoutesKept
  BY <1>1, SameProlongs DEF RoutesKept
<1>4. runs' = runs => RunsKept
  BY DEF RunsKept
<1>5. audits' = audits /\ artifacts' = artifacts => RegistriesKept
  BY DEF RegistriesKept, Extends
<1>6. ASSUME results' = results, commands' = commands \/ commands' = commands + 1
      PROVE  ResultsKept
  BY <1>1, <1>6 DEF ResultsKept, Extends
<1>7. overrides' = overrides => OverridesKept
  BY <1>1, SameProlongs DEF OverridesKept
<1>8. revoked' = revoked => RevokedKept
  BY DEF RevokedKept
<1>9. QED
  BY <1>2, <1>3, <1>4, <1>5, <1>6, <1>7, <1>8

LEMMA WithExtends ==
  ASSUME NEW book, NEW id, NEW record, Agrees(book, id, record)
  PROVE  Extends(With(book, id, record), book)
BY DEF Agrees, With, Extends

(* A run is added at the end.                                              *)
LEMMA AppendedKept ==
  ASSUME RunsInv, NEW run, runs' = Append(runs, run)
  PROVE  RunsKept
<1>1. runs \in Seq(RunSet)
  BY DEF RunsInv
<1>2. \A r \in DOMAIN runs : r \in DOMAIN runs' /\ runs'[r] = runs[r]
  BY <1>1
<1>3. QED
  BY <1>2 DEF RunsKept

LEMMA KeptStep ==
  ASSUME RunsInv, KeptInv, [DeskNext]_deskVars
  PROVE  StepKept
<1> DEFINE Rest == /\ theses' = theses => ThesesKept
                   /\ routes' = routes => RoutesKept
                   /\ runs' = runs => RunsKept
                   /\ audits' = audits /\ artifacts' = artifacts => RegistriesKept
                   /\ results' = results /\ (commands' = commands \/ commands' = commands + 1)
                        => ResultsKept
                   /\ overrides' = overrides => OverridesKept
                   /\ revoked' = revoked => RevokedKept
<1>1. Rest
  BY PartsAtRest
<1>2. CASE UNCHANGED deskVars
  BY <1>1, <1>2, PartsTogether DEF deskVars, volatile
<1>3. CASE CreateThesis
  <2>1. [thesis |-> IF theses = <<>> THEN 1 ELSE theses[1].thesis,
         number |-> Len(theses) + 1] \in ThesisSet
    <3>1. theses \in Seq(ThesisSet)
      BY DEF KeptInv
    <3>2. theses # <<>> => theses[1] \in ThesisSet
      BY <3>1
    <3>3. (IF theses = <<>> THEN 1 ELSE theses[1].thesis) \in Nat /\ Len(theses) + 1 \in Nat
      BY <3>1, <3>2 DEF ThesisSet
    <3>4. QED
      BY <3>3 DEF ThesisSet
  <2>2. ThesesKept
    BY <1>3, <2>1, AppendProlongs DEF CreateThesis, ThesesKept, KeptInv
  <2>3. QED
    BY <1>1, <1>3, <2>2, PartsTogether DEF CreateThesis, Command
<1>4. CASE StartSourcing \/ QueueSourcingRun
  <2>1. PICK run : runs' = Append(runs, run)
    BY <1>4 DEF StartSourcing, QueueSourcingRun
  <2>2. RunsKept
    BY <2>1, AppendedKept
  <2>3. QED
    BY <1>1, <1>4, <2>2, PartsTogether DEF StartSourcing, QueueSourcingRun, Command
<1>5. CASE Restart
  <2>1. OverridesKept /\ commands' \in Nat
    BY <1>1, <1>5 DEF Restart, Command, KeptInv
  <2>2. KeptInv'
    BY <1>5, <2>1 DEF Restart, KeptInv, OverridesKept, UniqueRoutes, Empty
  <2>3. QED
    BY <1>5, <2>1, <2>2 DEF Restart, StepKept, OverridesKept
<1>6. ASSUME NEW a \in Applications, RegisterApplication(a) \/ RevokeFounderStatus(a)
      PROVE  StepKept
  <2>1. RevokedKept
    BY <1>6 DEF RegisterApplication, RevokeFounderStatus, RevokedKept
  <2>2. QED
    BY <1>1, <1>6, <2>1, PartsTogether DEF RegisterApplication, RevokeFounderStatus, Command
<1>7. ASSUME NEW attempt \in 1..MaxAttempts, NEW outputs \in {{}, {<<0, 0>>}},
             SeedFailedRun(attempt, outputs)
      PROVE  StepKept
  <2>1. RunsKept
    <3>1. PICK run : runs' = Append(runs, run)
      BY <1>7 DEF SeedFailedRun
    <3>2. QED
      BY <3>1, AppendedKept
  <2>2. QED
    BY <1>1, <1>7, <2>1, PartsTogether DEF SeedFailedRun, Command
<1>8. ASSUME NEW p \in DOMAIN runs, RetryRun(p) PROVE StepKept
  <2>1. RunsKept
    <3>1. CASE runs' = runs
      BY <1>1, <3>1
    <3>2. CASE runs' # runs
      <4>1. PICK run : runs' = Append(runs, run)
        BY <1>8, <3>2 DEF RetryRun
      <4>2. QED
        BY <4>1, AppendedKept
    <3>3. QED
      BY <3>1, <3>2
  <2>2. QED
    BY <1>1, <1>8, <2>1, PartsTogether DEF RetryRun, Command
<1>9. ASSUME NEW r \in DOMAIN runs, NEW status \in DOMAIN Order,
             NEW failure \in {"retryable", "permanent"}, PublishSourcingRun(r, status, failure)
      PROVE  StepKept
  <2>1. RunsKept
    <3>1. PICK run : run = Snapshot(r, status, failure)
      OBVIOUS
    <3>2. /\ runs' = [runs EXCEPT ![r] = run]
          /\ Order[runs[r].status] < 2 \/ run = runs[r]
      BY <1>9, <3>1 DEF PublishSourcingRun
    <3>3. Order[runs[r].status] = 2 => run = runs[r]
      BY <3>2
    <3>4. QED
      BY <3>2, <3>3 DEF RunsKept
  <2>2. QED
    BY <1>1, <1>9, <2>1, PartsTogether DEF PublishSourcingRun, Command
<1>10. ASSUME NEW r, NEW audit, PublishCandidateSourcingAudit(r, audit) PROVE StepKept
  <2>1. RegistriesKept
    BY <1>10, WithExtends DEF PublishCandidateSourcingAudit, RegistriesKept, Extends
  <2>2. QED
    BY <1>1, <1>10, <2>1, PartsTogether DEF PublishCandidateSourcingAudit, Command
<1>11. ASSUME NEW id, NEW d, RegisterSourceArtifact(id, d) PROVE StepKept
  <2>1. RegistriesKept
    BY <1>11, WithExtends DEF RegisterSourceArtifact, RegistriesKept, Extends
  <2>2. QED
    BY <1>1, <1>11, <2>1, PartsTogether DEF RegisterSourceArtifact, Command
<1>12. ASSUME NEW a \in RouteSet, NEW b \in RouteSet, PublishCandidatePublicContacts(<<a, b>>)
       PROVE  StepKept
  <2>1. RoutesKept
    BY <1>12, BatchKeeps DEF RoutesKept, KeptInv
  <2>2. /\ UNCHANGED <<theses, runs, audits, artifacts, results, overrides, revoked>>
        /\ commands' = commands + 1
    BY <1>12 DEF PublishCandidatePublicContacts, Command
  <2>3. QED
    BY <1>1, <2>1, <2>2, PartsTogether
<1>13. ASSUME NEW outcome \in Outcomes, StoreAssessment(outcome) PROVE StepKept
  <2>1. /\ commands \in Nat /\ commands' = commands + 1
        /\ results' = With(results, commands, outcome)
        /\ \A i \in DOMAIN results : i \in Nat /\ i < commands /\ results[i] \in Outcomes
    BY <1>13 DEF StoreAssessment, Command, KeptInv
  <2>2. /\ DOMAIN results' = DOMAIN results \cup {commands}
        /\ results'[commands] = outcome
        /\ \A i \in DOMAIN results : i # commands => results'[i] = results[i]
    BY <2>1 DEF With
  <2>3. ResultsKept
    BY <2>1, <2>2 DEF ResultsKept, Extends
  <2>4. QED
    BY <1>1, <1>13, <2>3, PartsTogether DEF StoreAssessment, Command
<1>14. ASSUME NEW id \in {"x", "y"}, NEW result \in DOMAIN results,
              RecordRuleOverride(id, result, "pass")
       PROVE  StepKept
  <2>1. [id |-> id, result |-> result, original |-> results[result], replacement |-> "pass"]
          \in OverrideSet
    BY DEF OverrideSet, KeptInv
  <2>2. OverridesKept
    BY <1>14, <2>1, AppendProlongs DEF RecordRuleOverride, OverridesKept, KeptInv
  <2>3. QED
    BY <1>1, <1>14, <2>2, PartsTogether DEF RecordRuleOverride, Command, volatile
<1>15. QED
  <2>1. SUFFICES ASSUME DeskNext PROVE StepKept
    BY <1>2
  <2>2. \A first, second \in [id : {"x", "y"}, source : {1, 2}] :
          PublishCandidatePublicContacts(<<first, second>>) => StepKept
    BY <1>12 DEF RouteSet
  <2>3. QED
    BY <1>3, <1>4, <1>5, <1>6, <1>7, <1>8, <1>9, <1>10, <1>11, <1>13, <1>14, <2>1, <2>2
    DEF DeskNext, Outcomes

(* While the process lives nothing that was published is replaced or lost, *)
(* and the overrides outlive it.                                           *)
THEOREM NothingIsRewritten == DeskInit /\ [][DeskNext]_deskVars => DeskNeverRewrites
<1>1. DeskInit => KeptInv
  BY DEF DeskInit, KeptInv, UniqueRoutes, Empty
<1>2. RunsInv /\ KeptInv /\ [DeskNext]_deskVars => KeptInv' /\ StepKept
  BY KeptStep DEF StepKept
<1>3. ASSUME StepKept
      PROVE  [/\ IsPrefix(overrides, overrides')
              /\ \/ NothingRewritten
                 \/ runs' = <<>> /\ theses' = <<>> /\ revoked' = {}]_deskVars
  BY <1>3 DEF StepKept
<1>4. QED
  <2>1. DeskInit /\ [][DeskNext]_deskVars => []RunsInv
    BY DeskInitHolds, DeskStepHolds, PTL
  <2>2. DeskInit /\ [][DeskNext]_deskVars =>
          [][/\ IsPrefix(overrides, overrides')
             /\ \/ NothingRewritten
                \/ runs' = <<>> /\ theses' = <<>> /\ revoked' = {}]_deskVars
    BY <1>1, <1>2, <1>3, <2>1, PTL
  <2>3. QED
    BY <2>2 DEF DeskNeverRewrites, NothingRewritten

-----------------------------------------------------------------------------
(* The throttle.  First, counting.                                         *)
USE LimiterAssumption

(* A nonempty set of numbers has a least one: the intervals below its      *)
(* members are finite sets, and inclusion of finite sets is well founded.  *)
LEMMA LeastNumber ==
  ASSUME NEW T, T \subseteq Nat, T # {}
  PROVE  Min(T) \in T /\ \A y \in T : Min(T) <= y
<1> DEFINE Below == {0..n : n \in T}
<1>1. /\ \A n \in T : 0..n \in FiniteSubsetsOf(Nat)
      /\ \A n \in T : n \in Nat /\ n \in 0..n
  <2>1. \A n \in T : n \in Nat
    OBVIOUS
  <2>2. \A n \in Nat : IsFiniteSet(0..n) /\ 0..n \subseteq Nat
    BY FS_Interval
  <2>3. QED
    BY <2>1, <2>2 DEF FiniteSubsetsOf
<1>2. Below \subseteq FiniteSubsetsOf(Nat) /\ Below # {}
  BY <1>1
<1>3. IsWellFoundedOn(StrictSubsetOrdering(Nat), FiniteSubsetsOf(Nat))
  BY FS_StrictSubsetOrderingWellFounded
<1>4. \E x \in Below : \A y \in Below : ~(<<y, x>> \in StrictSubsetOrdering(Nat))
  <2> HIDE DEF Below
  <2>1. QED
    BY <1>2, <1>3, WFMin
<1>5. PICK m \in T : \A k \in T : <<0..k, 0..m>> \notin StrictSubsetOrdering(Nat)
  BY <1>4
<1>6. \A k \in T : m <= k
  <2>1. SUFFICES ASSUME NEW k \in T, k < m PROVE FALSE
    BY <1>1
  <2>2. 0..k \subseteq 0..m /\ 0..k # 0..m
    BY <1>1, <2>1
  <2>3. QED
    BY <1>1, <1>5, <2>2 DEF StrictSubsetOrdering, FiniteSubsetsOf
<1>7. QED
  BY <1>6 DEF Min

LEMMA SuffixOf ==
  ASSUME NEW e \in Seq(Nat), NEW l \in Nat, l = Len(e), NEW d \in Nat, 1 <= d, d <= l
  PROVE  /\ SubSeq(e, d, l) \in Seq(Nat) /\ Len(SubSeq(e, d, l)) = l - d + 1
         /\ \A j \in 1..(l - d + 1) : SubSeq(e, d, l)[j] = e[d + j - 1]
OBVIOUS

LEMMA AppendedOne ==
  ASSUME NEW past \in Seq(Nat), NEW n \in Nat, n = Len(past), NEW t \in Nat
  PROVE  /\ Append(past, t) \in Seq(Nat) /\ Len(Append(past, t)) = n + 1
         /\ Append(past, t)[n + 1] = t
         /\ \A i \in 1..n : Append(past, t)[i] = past[i]
OBVIOUS

(* The admissions a window that ends at t holds.                           *)
InWindow(past, t) == {i \in DOMAIN past : past[i] > t - Window /\ past[i] <= t}

(* The first m of n admissions are at least a window old at t; the others  *)
(* are not, and are not after it; no window holds too many; one admission  *)
(* is the first after the m-th, and after w seconds it leaves the window;  *)
(* and one more is made.                                                   *)
OutBy(past, n, m, t) == \A i \in 1..n : i <= m => past[i] <= t - Window
InFrom(past, n, m, t) == \A i \in 1..n : m < i => past[i] > t - Window /\ past[i] <= t
NoneOver(past, n) == \A i \in 1..n : Cardinality(InWindow(past, past[i])) <= Limit
Oldest(past, n, m, oldest) ==
  \A i \in 1..n : (i <= m + 1 => past[i] <= oldest) /\ (m < i => oldest <= past[i])
Grown(more, past, n, t) == more[n + 1] = t /\ \A i \in 1..n : more[i] = past[i]
WaitFor(oldest, t, w) ==
  2 * w >= oldest + Window - t /\ 2 * w <= oldest + Window - t + 1
Until(past, n, t) == \A i \in 1..n : past[i] <= t

LEMMA IntervalSize ==
  ASSUME NEW m \in Nat, NEW n \in Nat, m <= n
  PROVE  IsFiniteSet((m + 1)..n) /\ Cardinality((m + 1)..n) = n - m
<1>1. m + 1 \in Int /\ n \in Int
  OBVIOUS
<1>2. /\ IsFiniteSet((m + 1)..n)
      /\ Cardinality((m + 1)..n) = IF m + 1 > n THEN 0 ELSE n - (m + 1) + 1
  BY <1>1, FS_Interval
<1>3. (IF m + 1 > n THEN 0 ELSE n - (m + 1) + 1) = n - m
  OBVIOUS
<1>4. QED
  BY <1>2, <1>3

(* When the window begins after the m-th admission it holds the others.    *)
LEMMA CountFrom ==
  ASSUME NEW n \in Nat, NEW past \in [1..n -> Nat], NEW t \in Int,
         NEW m \in Nat, m <= n,
         OutBy(past, n, m, t), InFrom(past, n, m, t)
  PROVE  Cardinality(InWindow(past, t)) = n - m
<1>1. DOMAIN past = 1..n /\ \A i \in 1..n : past[i] \in Nat
  OBVIOUS
<1>2. InWindow(past, t) = (m + 1)..n
  BY <1>1 DEF InWindow, OutBy, InFrom
<1>3. QED
  BY <1>2, IntervalSize

(* When it begins at or after the m-th it holds at most the others.        *)
LEMMA CountAfter ==
  ASSUME NEW n \in Nat, NEW past \in [1..n -> Nat], NEW t \in Int,
         NEW m \in Nat, m <= n,
         OutBy(past, n, m, t)
  PROVE  /\ Cardinality(InWindow(past, t)) \in Nat
         /\ Cardinality(InWindow(past, t)) <= n - m
<1>1. DOMAIN past = 1..n /\ \A i \in 1..n : past[i] \in Nat
  OBVIOUS
<1>2. InWindow(past, t) \subseteq (m + 1)..n
  BY <1>1 DEF InWindow, OutBy
<1>3. /\ IsFiniteSet((m + 1)..n)
      /\ Cardinality((m + 1)..n) = n - m
  BY IntervalSize
<1>4. /\ IsFiniteSet(InWindow(past, t))
      /\ Cardinality(InWindow(past, t)) <= Cardinality((m + 1)..n)
  BY <1>2, <1>3, FS_Subset
<1>5. Cardinality(InWindow(past, t)) \in Nat
  BY <1>4, FS_CardinalityType
<1>6. QED
  BY <1>3, <1>4, <1>5

(* A refusal, when all but the first m admissions are in the window and    *)
(* they are the limit: the wait brings the first of them out of it, and a  *)
(* second less would not.                                                  *)
AtRefusal(n, past, m, t, w, oldest) ==
  /\ n \in Nat /\ past \in [1..n -> Nat] /\ m \in Nat /\ n - m = Limit
  /\ t \in Nat /\ w \in Nat /\ w >= 1 /\ oldest \in Nat
  /\ OutBy(past, n, m, t) /\ InFrom(past, n, m, t)
  /\ Oldest(past, n, m, oldest) /\ WaitFor(oldest, t, w)

LEMMA FullWindow ==
  ASSUME NEW n, NEW past, NEW m, NEW t, NEW w, NEW oldest,
         AtRefusal(n, past, m, t, w, oldest)
  PROVE  /\ Cardinality(InWindow(past, t)) = Limit
         /\ Cardinality(InWindow(past, t + 2 * w)) < Limit
         /\ Cardinality(InWindow(past, t + 2 * w - 2)) = Limit
<1>1. /\ n \in Nat /\ past \in [1..n -> Nat] /\ m \in Nat /\ n - m = Limit
      /\ t \in Nat /\ w \in Nat /\ w >= 1 /\ oldest \in Nat
      /\ OutBy(past, n, m, t) /\ InFrom(past, n, m, t)
      /\ Oldest(past, n, m, oldest) /\ WaitFor(oldest, t, w)
  BY DEF AtRefusal
<1>2. m <= n /\ m + 1 <= n /\ m + 1 \in Nat /\ n - (m + 1) < Limit
  BY <1>1
<1>3. Cardinality(InWindow(past, t)) = Limit
  BY <1>1, <1>2, CountFrom
<1>4. Cardinality(InWindow(past, t + 2 * w)) < Limit
  <2>1. t + 2 * w \in Int /\ oldest <= t + 2 * w - Window
    BY <1>1 DEF WaitFor
  <2>2. OutBy(past, n, m + 1, t + 2 * w)
    BY <1>1, <2>1 DEF OutBy, Oldest
  <2>3. /\ Cardinality(InWindow(past, t + 2 * w)) \in Nat
        /\ Cardinality(InWindow(past, t + 2 * w)) <= n - (m + 1)
    BY <1>1, <1>2, <2>1, <2>2, CountAfter
  <2>4. QED
    BY <1>1, <1>2, <2>3
<1>5. Cardinality(InWindow(past, t + 2 * w - 2)) = Limit
  <2>1. PICK b \in Int : b = t + 2 * w - 2 /\ t <= b /\ oldest > b - Window
    BY <1>1 DEF WaitFor
  <2>2. OutBy(past, n, m, b)
    BY <1>1, <2>1 DEF OutBy
  <2>3. InFrom(past, n, m, b)
    BY <1>1, <2>1 DEF InFrom, Oldest
  <2>4. Cardinality(InWindow(past, b)) = n - m
    BY <1>1, <1>2, <2>2, <2>3, CountFrom
  <2>5. QED
    BY <1>1, <2>1, <2>4
<1>6. QED
  BY <1>3, <1>4, <1>5

(* An admission, when all but the first m admissions are in the window and *)
(* are fewer than the limit: every window still holds at most the limit.   *)
LEMMA OneMore ==
  ASSUME NEW n \in Nat, NEW past \in [1..n -> Nat], NEW m \in Nat,
         m <= n, n - m < Limit, NEW t \in Nat,
         OutBy(past, n, m, t), InFrom(past, n, m, t), NoneOver(past, n),
         Until(past, n, t),
         NEW more \in [1..(n + 1) -> Nat], Grown(more, past, n, t)
  PROVE  NoneOver(more, n + 1)
<1>1. /\ n + 1 \in Nat /\ m <= n + 1
      /\ DOMAIN more = 1..(n + 1) /\ DOMAIN past = 1..n
      /\ \A i \in 1..(n + 1) : i # n + 1 => i \in 1..n
      /\ \A i \in 1..n : i \in 1..(n + 1) /\ past[i] \in Nat
  OBVIOUS
<1>2. more[n + 1] = t /\ \A i \in 1..n : more[i] = past[i] /\ past[i] <= t
  BY DEF Grown, Until
<1>3. Cardinality(InWindow(more, t)) <= Limit
  <2>1. OutBy(more, n + 1, m, t)
    <3>1. ASSUME NEW i \in 1..(n + 1), i <= m PROVE more[i] <= t - Window
      <4>1. i \in 1..n
        BY <3>1
      <4>2. QED
        BY <1>2, <3>1, <4>1 DEF OutBy
    <3>2. QED
      BY <3>1 DEF OutBy
  <2>2. InFrom(more, n + 1, m, t)
    <3>1. ASSUME NEW i \in 1..(n + 1), m < i PROVE more[i] > t - Window /\ more[i] <= t
      <4>1. CASE i = n + 1
        BY <1>2, <4>1
      <4>2. CASE i # n + 1
        BY <1>1, <1>2, <3>1, <4>2 DEF InFrom
      <4>3. QED
        BY <4>1, <4>2
    <3>2. QED
      BY <3>1 DEF InFrom
  <2>3. Cardinality(InWindow(more, t)) = n + 1 - m
    BY <1>1, <2>1, <2>2, CountFrom, SMTT(30)
  <2>4. QED
    BY <2>3
<1>4. ASSUME NEW i \in 1..n, past[i] # t
      PROVE  InWindow(more, past[i]) = InWindow(past, past[i])
  <2>1. ~(more[n + 1] <= past[i])
    BY <1>1, <1>4, <1>2
  <2>2. QED
    BY <1>1, <1>2, <2>1 DEF InWindow
<1>5. ASSUME NEW i \in 1..(n + 1) PROVE Cardinality(InWindow(more, more[i])) <= Limit
  <2>1. CASE more[i] = t
    BY <1>3, <2>1
  <2>2. CASE more[i] # t
    <3>1. i \in 1..n /\ more[i] = past[i]
      BY <1>1, <1>2, <2>2
    <3>2. InWindow(more, past[i]) = InWindow(past, past[i])
      BY <1>4, <2>2, <3>1
    <3>3. QED
      BY <3>1, <3>2 DEF NoneOver
  <2>3. QED
    BY <2>1, <2>2
<1>6. QED
  BY <1>5 DEF NoneOver

-----------------------------------------------------------------------------
(* The invariant of the throttle.                                          *)

LimiterTypeOK ==
  /\ now \in Nat
  /\ events \in [Keys -> Seq(Nat)]
  /\ admitted \in [Keys -> Seq(Nat)]
  /\ refused \in [Keys -> [at : Int, wait : Int]]

Before(k) == Len(admitted[k]) - Len(events[k])

(* A bucket is what is left of its admissions, in the order of time, when  *)
(* some that are at least a window old have been dropped from the front.   *)
BucketHolds(k) ==
  /\ Len(events[k]) <= Len(admitted[k])
  /\ Len(events[k]) <= Limit
  /\ \A j \in 1..Len(events[k]) : events[k][j] = admitted[k][Before(k) + j]
  /\ \A i \in 1..Before(k) : admitted[k][i] <= now - Window
  /\ \A i \in 1..Len(admitted[k]) : admitted[k][i] <= now
  /\ \A i \in 1..Len(admitted[k]) : \A j \in 1..Len(admitted[k]) :
       i <= j => admitted[k][i] <= admitted[k][j]

AdmitsWithin(k) ==
  \A i \in 1..Len(admitted[k]) :
    Cardinality(InWindow(admitted[k], admitted[k][i])) <= Limit

RefusedRightly(k) ==
  refused[k] # Never =>
    LET back == refused[k].at + 2 * refused[k].wait IN
    /\ Cardinality(InWindow(admitted[k], refused[k].at)) = Limit
    /\ Cardinality(InWindow(admitted[k], back)) < Limit
    /\ refused[k].wait = 1 \/ Cardinality(InWindow(admitted[k], back - 2)) = Limit

LimiterInv ==
  /\ LimiterTypeOK
  /\ \A k \in Keys : BucketHolds(k) /\ AdmitsWithin(k) /\ RefusedRightly(k)

(* What a check leaves in the bucket: the admissions less than a window    *)
(* old, all of them and no others.                                         *)
LEMMA RecentIsWindow ==
  ASSUME LimiterTypeOK, NEW k \in Keys, BucketHolds(k)
  PROVE  \E m \in 0..Len(admitted[k]) :
           /\ Recent(k) \in Seq(Nat)
           /\ Len(Recent(k)) = Len(admitted[k]) - m
           /\ Len(Recent(k)) <= Len(events[k])
           /\ \A j \in 1..(Len(admitted[k]) - m) :
                Recent(k)[j] = admitted[k][m + j]
           /\ \A i \in 1..m : admitted[k][i] <= now - Window
           /\ \A i \in (m + 1)..Len(admitted[k]) : admitted[k][i] > now - Window
<1>1. PICK past \in Seq(Nat), e \in Seq(Nat) : past = admitted[k] /\ e = events[k]
  BY DEF LimiterTypeOK
<1>2. PICK n \in Nat, l \in Nat : n = Len(past) /\ l = Len(e)
  OBVIOUS
<1>3. /\ l <= n
      /\ \A j \in 1..l : e[j] = past[n - l + j]
      /\ \A i \in 1..(n - l) : past[i] <= now - Window
      /\ \A i \in 1..n : \A j \in 1..n : i <= j => past[i] <= past[j]
  BY <1>1, <1>2 DEF BucketHolds, Before
<1>4. /\ now \in Nat /\ now - Window \in Int
      /\ \A j \in 1..l : e[j] \in Nat
      /\ \A i \in 1..n : past[i] \in Nat
      /\ DOMAIN e = 1..l
  BY <1>2 DEF LimiterTypeOK
<1> DEFINE young == {i \in 1..l : e[i] > now - Window}
<1>5. Recent(k) = IF young = {} THEN <<>> ELSE SubSeq(e, Min(young), l)
  BY <1>1, <1>2, <1>4 DEF Recent, From
<1>6. CASE young = {}
  <2>1. ASSUME NEW j \in 1..l PROVE e[j] <= now - Window
    <3>1. e[j] \in Nat /\ ~(e[j] > now - Window)
      BY <1>4, <1>6
    <3>2. QED
      BY <1>4, <3>1
  <2>2. \A i \in (n - l + 1)..n : past[i] <= now - Window
    <3>1. ASSUME NEW i \in (n - l + 1)..n PROVE past[i] <= now - Window
      <4>1. i - (n - l) \in 1..l /\ n - l + (i - (n - l)) = i
        BY <1>3
      <4>2. QED
        BY <1>3, <2>1, <4>1
    <3>2. QED
      BY <3>1
  <2>3. \A i \in 1..n : past[i] <= now - Window
    BY <1>3, <2>2
  <2>4. /\ Recent(k) = <<>> /\ Recent(k) \in Seq(Nat) /\ Len(Recent(k)) = 0
    BY <1>5, <1>6
  <2>5. n \in 0..n /\ n - n = 0 /\ 1..(n - n) = {} /\ (n + 1)..n = {}
    OBVIOUS
  <2>6. QED
    BY <1>1, <1>2, <2>3, <2>4, <2>5, SMTT(30)
<1>7. CASE young # {}
  <2>1. PICK d \in 1..l : d = Min(young) /\ e[d] > now - Window
                          /\ \A j \in young : d <= j
    <3> HIDE DEF young
    <3>1. young \subseteq 1..l /\ \A i \in young : e[i] > now - Window
      BY DEF young
    <3>2. young \subseteq Nat
      BY <3>1
    <3>3. Min(young) \in young /\ \A j \in young : Min(young) <= j
      BY <1>7, <3>2, LeastNumber
    <3>4. QED
      BY <3>1, <3>3
  <2>2. PICK m \in 0..n : m = n - l + d - 1
    BY <1>3
  <2>3. /\ Recent(k) \in Seq(Nat)
        /\ Len(Recent(k)) = l - d + 1
        /\ \A j \in 1..(l - d + 1) : Recent(k)[j] = e[d + j - 1]
    <3>1. Recent(k) = SubSeq(e, d, l)
      BY <1>5, <1>7, <2>1
    <3>2. /\ SubSeq(e, d, l) \in Seq(Nat) /\ Len(SubSeq(e, d, l)) = l - d + 1
          /\ \A j \in 1..(l - d + 1) : SubSeq(e, d, l)[j] = e[d + j - 1]
      <4>1. d \in Nat /\ 1 <= d /\ d <= l
        OBVIOUS
      <4>2. QED
        BY <1>2, <4>1, SuffixOf, SMTT(30)
    <3>3. QED
      BY <3>1, <3>2
  <2>4. n - m = l - d + 1
    BY <2>2
  <2>5. ASSUME NEW j \in 1..(n - m) PROVE Recent(k)[j] = past[m + j]
    <3>1. d + j - 1 \in 1..l /\ n - l + (d + j - 1) = m + j
      BY <2>2, <2>4
    <3>2. QED
      BY <1>3, <2>3, <2>4, <3>1
  <2>6. ASSUME NEW i \in 1..m PROVE past[i] <= now - Window
    <3>1. CASE i \in 1..(n - l)
      BY <1>3, <3>1
    <3>2. CASE i \notin 1..(n - l)
      <4>1. PICK j \in 1..l : j = i - (n - l)
        BY <1>3, <2>2, <3>2
      <4>2. j < d /\ past[i] = e[j]
        BY <1>3, <2>2, <4>1
      <4>3. j \notin young
        <5> HIDE DEF young
        <5>1. j \in young => d <= j
          BY <2>1
        <5>2. QED
          BY <4>2, <5>1
      <4>4. QED
        BY <1>4, <4>2, <4>3
    <3>3. QED
      BY <3>1, <3>2
  <2>7. ASSUME NEW i \in (m + 1)..n PROVE past[i] > now - Window
    <3>1. m + 1 \in 1..n /\ m + 1 <= i /\ i \in 1..n /\ n - l + d = m + 1
      BY <1>3, <2>2
    <3>2. past[m + 1] = e[d]
      BY <1>3, <3>1
    <3>3. past[m + 1] <= past[i]
      BY <1>3, <3>1
    <3>4. QED
      BY <1>4, <2>1, <3>1, <3>2, <3>3, SMTT(30)
  <2>8. /\ Recent(k) \in Seq(Nat)
        /\ Len(Recent(k)) = Len(admitted[k]) - m
        /\ Len(Recent(k)) <= Len(events[k])
        /\ m \in 0..Len(admitted[k])
    BY <1>1, <1>2, <2>3, <2>4
  <2>9. /\ \A j \in 1..(Len(admitted[k]) - m) : Recent(k)[j] = admitted[k][m + j]
        /\ \A i \in 1..m : admitted[k][i] <= now - Window
        /\ \A i \in (m + 1)..Len(admitted[k]) : admitted[k][i] > now - Window
    BY <1>1, <1>2, <2>5, <2>6, <2>7
  <2>10. QED
    BY <2>8, <2>9
<1>8. QED
  BY <1>6, <1>7

(* The wait that is told: the halves of a second until the oldest counted  *)
(* admission is a window old, in whole seconds, rounded up.                *)
LEMMA WaitIsRoundedUp ==
  ASSUME LimiterTypeOK, NEW recent \in Seq(Nat), Len(recent) >= 1,
         recent[1] > now - Window
  PROVE  LET w == RetryAfter(recent)  x == recent[1] + Window - now IN
         /\ w \in Nat /\ w >= 1
         /\ 2 * w >= x /\ 2 * w <= x + 1
<1>1. recent[1] \in Nat /\ now \in Nat
  BY DEF LimiterTypeOK
<1>2. PICK x \in Nat : x = recent[1] + Window - now /\ x >= 1
  BY <1>1
<1>3. /\ (x + 1) \div 2 \in Nat /\ (x + 1) \div 2 >= 1
      /\ 2 * ((x + 1) \div 2) >= x /\ 2 * ((x + 1) \div 2) <= x + 1
  BY <1>2
<1>4. PICK y \in Nat : y = (x + 1) \div 2 /\ y >= 1 /\ 2 * y >= x /\ 2 * y <= x + 1
  BY <1>3
<1>5. RetryAfter(recent) = Max({1, y})
  BY <1>2, <1>4 DEF RetryAfter
<1>6. y \in {1, y} /\ \A z \in {1, y} : y >= z
  BY <1>4
<1>7. Max({1, y}) \in {1, y} /\ \A z \in {1, y} : Max({1, y}) >= z
  BY <1>6 DEF Max
<1>8. Max({1, y}) = y
  BY <1>4, <1>6, <1>7
<1>9. QED
  BY <1>2, <1>4, <1>5, <1>8

LEMMA LimiterInitInv == LimiterInit => LimiterInv
<1> SUFFICES ASSUME LimiterInit PROVE LimiterInv
  OBVIOUS
<1>1. LimiterTypeOK
  BY DEF LimiterInit, LimiterTypeOK, Never
<1>2. ASSUME NEW k \in Keys PROVE BucketHolds(k) /\ AdmitsWithin(k) /\ RefusedRightly(k)
  <2>1. events[k] = <<>> /\ admitted[k] = <<>> /\ refused[k] = Never
    BY DEF LimiterInit
  <2>2. BucketHolds(k)
    BY <2>1 DEF BucketHolds, Before
  <2>3. AdmitsWithin(k)
    BY <2>1 DEF AdmitsWithin
  <2>4. RefusedRightly(k)
    BY <2>1 DEF RefusedRightly
  <2>5. QED
    BY <2>2, <2>3, <2>4
<1>3. QED
  BY <1>1, <1>2 DEF LimiterInv

(* A key that is not checked keeps what holds of it as time goes on.       *)
LEMMA LimiterQuiet ==
  ASSUME LimiterInv, NEW k \in Keys, now' \in Nat, now <= now',
         events'[k] = events[k], admitted'[k] = admitted[k], refused'[k] = refused[k]
  PROVE  BucketHolds(k)' /\ AdmitsWithin(k)' /\ RefusedRightly(k)'
<1>1. BucketHolds(k) /\ AdmitsWithin(k) /\ RefusedRightly(k) /\ now \in Nat
      /\ admitted[k] \in Seq(Nat) /\ events[k] \in Seq(Nat)
  BY DEF LimiterInv, LimiterTypeOK
<1>2. Len(admitted[k]) \in Nat /\ Len(events[k]) \in Nat
      /\ \A i \in 1..Len(admitted[k]) : admitted[k][i] \in Nat
  BY <1>1
<1>3. BucketHolds(k)'
  <2>1. \A i \in 1..Before(k) : i \in 1..Len(admitted[k])
    BY <1>2 DEF Before
  <2>2. \A i \in 1..Before(k) : admitted[k][i] <= now' - Window
    BY <1>1, <1>2, <2>1, SMTT(30) DEF BucketHolds
  <2>3. \A i \in 1..Len(admitted[k]) : admitted[k][i] <= now'
    BY <1>1, <1>2 DEF BucketHolds
  <2>4. QED
    BY <1>1, <2>2, <2>3 DEF BucketHolds, Before
<1>4. AdmitsWithin(k)' /\ RefusedRightly(k)'
  BY <1>1 DEF AdmitsWithin, RefusedRightly, InWindow
<1>5. QED
  BY <1>3, <1>4

(* A refusal: the bucket is full, and of the admissions the window holds   *)
(* the oldest is the first to leave it.                                    *)
LEMMA LimiterRefuses ==
  ASSUME LimiterInv, NEW k \in Keys, Len(Recent(k)) >= Limit,
         refused' = [refused EXCEPT ![k] = [at |-> now, wait |-> RetryAfter(Recent(k))]],
         events' = [events EXCEPT ![k] = Recent(k)],
         UNCHANGED <<now, admitted>>
  PROVE  LimiterTypeOK' /\ BucketHolds(k)' /\ AdmitsWithin(k)' /\ RefusedRightly(k)'
<1>1. BucketHolds(k) /\ AdmitsWithin(k) /\ LimiterTypeOK
  BY DEF LimiterInv
<1>2. PICK past \in Seq(Nat), n \in Nat, t \in Nat :
        past = admitted[k] /\ n = Len(past) /\ t = now
  BY <1>1 DEF LimiterTypeOK
<1>3. PICK m \in 0..n :
        /\ Recent(k) \in Seq(Nat)
        /\ Len(Recent(k)) = n - m
        /\ Len(Recent(k)) <= Len(events[k])
        /\ \A j \in 1..(n - m) : Recent(k)[j] = past[m + j]
        /\ \A i \in 1..m : past[i] <= t - Window
        /\ \A i \in (m + 1)..n : past[i] > t - Window
  BY <1>1, <1>2, RecentIsWindow
<1>4. /\ Len(events[k]) <= Limit /\ Len(events[k]) \in Nat
      /\ \A i \in 1..n : past[i] \in Nat /\ past[i] <= t
      /\ \A i \in 1..n : \A j \in 1..n : i <= j => past[i] <= past[j]
  BY <1>1, <1>2 DEF BucketHolds, LimiterTypeOK
<1>5. n - m = Limit
  BY <1>3, <1>4
<1>6. m + 1 \in 1..n /\ Recent(k)[1] = past[m + 1] /\ Len(Recent(k)) >= 1
  BY <1>3, <1>5
<1>7. PICK w \in Nat :
        /\ w = RetryAfter(Recent(k)) /\ w >= 1
        /\ 2 * w >= past[m + 1] + Window - t /\ 2 * w <= past[m + 1] + Window - t + 1
  <2>1. Recent(k)[1] > now - Window
    <3>1. m + 1 \in (m + 1)..n
      BY <1>6
    <3>2. past[m + 1] > t - Window
      BY <1>3, <3>1
    <3>3. QED
      BY <1>2, <1>6, <3>2
  <2>2. QED
    BY <1>1, <1>2, <1>3, <1>6, <2>1, WaitIsRoundedUp
<1>8. /\ events'[k] = Recent(k) /\ admitted'[k] = past /\ now' = t
      /\ refused'[k] = [at |-> t, wait |-> w]
  BY <1>1, <1>2, <1>7 DEF LimiterTypeOK
<1>9. LimiterTypeOK'
  <2>1. [at |-> now, wait |-> RetryAfter(Recent(k))] \in [at : Int, wait : Int]
    BY <1>2, <1>7
  <2>2. QED
    BY <1>1, <1>3, <2>1 DEF LimiterTypeOK
<1>10. BucketHolds(k)'
  <2>1. n - Limit = m
    BY <1>5
  <2>2. /\ Len(events'[k]) = Limit /\ Len(admitted'[k]) = n
        /\ Before(k)' = m
    BY <1>2, <1>3, <1>5, <1>8, <2>1 DEF Before
  <2>3. \A j \in 1..Limit : events'[k][j] = admitted'[k][m + j]
    BY <1>3, <1>5, <1>8
  <2>4. \A i \in 1..m : admitted'[k][i] <= now' - Window
    BY <1>3, <1>8
  <2>5. \A i \in 1..n : /\ admitted'[k][i] <= now'
                        /\ \A j \in 1..n : i <= j => admitted'[k][i] <= admitted'[k][j]
    BY <1>4, <1>8
  <2>6. Limit <= n
    BY <1>5
  <2>7. /\ \A i \in 1..n : admitted'[k][i] <= now'
        /\ \A i \in 1..n : \A j \in 1..n : i <= j => admitted'[k][i] <= admitted'[k][j]
    BY <2>5
  <2>8. BucketHolds(k)' = /\ Limit <= n /\ Limit <= Limit
                          /\ \A j \in 1..Limit : events'[k][j] = admitted'[k][m + j]
                          /\ \A i \in 1..m : admitted'[k][i] <= now' - Window
                          /\ \A i \in 1..n : admitted'[k][i] <= now'
                          /\ \A i \in 1..n : \A j \in 1..n :
                               i <= j => admitted'[k][i] <= admitted'[k][j]
    BY <2>2 DEF BucketHolds
  <2>9. QED
    BY <2>3, <2>4, <2>6, <2>7, <2>8
<1>11. AdmitsWithin(k)'
  BY <1>1 DEF AdmitsWithin
<1>12. /\ Cardinality(InWindow(past, t)) = Limit
       /\ Cardinality(InWindow(past, t + 2 * w)) < Limit
       /\ Cardinality(InWindow(past, t + 2 * w - 2)) = Limit
  <2>1. OutBy(past, n, m, t)
    BY <1>3 DEF OutBy
  <2>2. InFrom(past, n, m, t)
    BY <1>3, <1>4 DEF InFrom
  <2>3. past \in [1..n -> Nat]
    BY <1>2
  <2>4. PICK oldest \in Nat : oldest = past[m + 1]
    BY <1>6, <2>3
  <2>5. Oldest(past, n, m, oldest)
    BY <1>4, <1>6, <2>4 DEF Oldest
  <2>6. WaitFor(oldest, t, w) /\ w >= 1
    BY <1>7, <2>4 DEF WaitFor
  <2>7. m \in Nat
    OBVIOUS
  <2>8. AtRefusal(n, past, m, t, w, oldest)
    BY <1>5, <2>1, <2>2, <2>3, <2>5, <2>6, <2>7 DEF AtRefusal
  <2>9. QED
    BY <2>8, FullWindow
<1>13. RefusedRightly(k)'
  <2>1. /\ refused'[k].at = t /\ refused'[k].wait = w
    BY <1>8
  <2>2. /\ InWindow(admitted[k], refused[k].at)' = InWindow(past, t)
        /\ InWindow(admitted[k], refused[k].at + 2 * refused[k].wait)' = InWindow(past, t + 2 * w)
        /\ InWindow(admitted[k], refused[k].at + 2 * refused[k].wait - 2)'
             = InWindow(past, t + 2 * w - 2)
    BY <1>8, <2>1 DEF InWindow
  <2>3. RefusedRightly(k)' <=>
          (refused'[k] # Never =>
             /\ Cardinality(InWindow(past, t)) = Limit
             /\ Cardinality(InWindow(past, t + 2 * w)) < Limit
             /\ w = 1 \/ Cardinality(InWindow(past, t + 2 * w - 2)) = Limit)
    BY <2>1, <2>2 DEF RefusedRightly
  <2>4. QED
    BY <1>12, <2>3
<1>14. QED
  BY <1>9, <1>10, <1>11, <1>13

(* An admission: the window that ends now holds the bucket and this one.   *)
LEMMA LimiterAdmits ==
  ASSUME LimiterInv, NEW k \in Keys, Len(Recent(k)) < Limit,
         events' = [events EXCEPT ![k] = Append(Recent(k), now)],
         admitted' = [admitted EXCEPT ![k] = Append(@, now)],
         refused' = [refused EXCEPT ![k] = Never],
         UNCHANGED now
  PROVE  LimiterTypeOK' /\ BucketHolds(k)' /\ AdmitsWithin(k)' /\ RefusedRightly(k)'
<1>1. BucketHolds(k) /\ AdmitsWithin(k) /\ LimiterTypeOK
  BY DEF LimiterInv
<1>2. PICK past \in Seq(Nat), n \in Nat, t \in Nat :
        past = admitted[k] /\ n = Len(past) /\ t = now
  BY <1>1 DEF LimiterTypeOK
<1>3. PICK m \in 0..n :
        /\ Recent(k) \in Seq(Nat)
        /\ Len(Recent(k)) = n - m
        /\ \A j \in 1..(n - m) : Recent(k)[j] = past[m + j]
        /\ \A i \in 1..m : past[i] <= t - Window
        /\ \A i \in (m + 1)..n : past[i] > t - Window
  BY <1>1, <1>2, RecentIsWindow
<1>4. /\ \A i \in 1..n : past[i] \in Nat /\ past[i] <= t
      /\ \A i \in 1..n : \A j \in 1..n : i <= j => past[i] <= past[j]
  BY <1>1, <1>2, SMTT(30) DEF BucketHolds, LimiterTypeOK
<1>5. /\ Append(past, t) \in Seq(Nat) /\ Append(Recent(k), t) \in Seq(Nat)
       /\ Len(Append(past, t)) = n + 1 /\ Append(past, t)[n + 1] = t
       /\ \A i \in 1..n : Append(past, t)[i] = past[i]
       /\ Len(Append(Recent(k), t)) = n - m + 1
       /\ Append(Recent(k), t)[n - m + 1] = t
       /\ \A j \in 1..(n - m) : Append(Recent(k), t)[j] = Recent(k)[j]
  <2>1. n - m \in Nat
    OBVIOUS
  <2>2. QED
    BY <1>2, <1>3, <2>1, AppendedOne, SMTT(30)
<1>6. PICK more \in Seq(Nat), left \in Seq(Nat) :
        more = Append(past, t) /\ left = Append(Recent(k), t)
  BY <1>5
<1>7. /\ Len(more) = n + 1 /\ more[n + 1] = t
      /\ \A i \in 1..n : more[i] = past[i]
      /\ Len(left) = n - m + 1 /\ left[n - m + 1] = t
      /\ \A j \in 1..(n - m) : left[j] = past[m + j]
  BY <1>3, <1>6, <1>5
<1>8. /\ events'[k] = left /\ admitted'[k] = more /\ now' = t /\ refused'[k] = Never
  BY <1>1, <1>2, <1>6 DEF LimiterTypeOK
<1>9. LimiterTypeOK'
  <2>1. Never \in [at : Int, wait : Int]
    BY DEF Never
  <2>2. QED
    BY <1>1, <1>2, <1>6, <2>1 DEF LimiterTypeOK
<1>10. ASSUME NEW i \in 1..(n + 1) PROVE more[i] \in Nat /\ more[i] <= t
  <2>1. CASE i = n + 1
    BY <1>7, <2>1
  <2>2. CASE i # n + 1
    <3>1. i \in 1..n
      BY <2>2
    <3>2. QED
      BY <1>4, <1>7, <3>1
  <2>3. QED
    BY <2>1, <2>2
<1>11. BucketHolds(k)'
  <2>1. n - m + 1 <= Limit
    BY <1>3
  <2>2. /\ Len(events'[k]) = n - m + 1 /\ Len(admitted'[k]) = n + 1
        /\ Before(k)' = m
    BY <1>7, <1>8, SMTT(30) DEF Before
  <2>3. ASSUME NEW j \in 1..(n - m + 1) PROVE left[j] = more[m + j]
    <3>1. CASE j = n - m + 1
      <4>1. m + j = n + 1
        BY <3>1
      <4>2. QED
        BY <1>7, <3>1, <4>1
    <3>2. CASE j # n - m + 1
      <4>1. j \in 1..(n - m) /\ m + j \in 1..n
        BY <3>2
      <4>2. QED
        BY <1>7, <4>1
    <3>3. QED
      BY <3>1, <3>2
  <2>4. ASSUME NEW i \in 1..m PROVE more[i] <= t - Window
    <3>1. i \in 1..n
      OBVIOUS
    <3>2. QED
      BY <1>3, <1>7, <3>1
  <2>5. ASSUME NEW i \in 1..(n + 1), NEW j \in 1..(n + 1), i <= j
        PROVE  more[i] <= more[j]
    <3>1. CASE j = n + 1
      BY <1>7, <1>10, <3>1
    <3>2. CASE j # n + 1
      <4>1. i \in 1..n /\ j \in 1..n
        BY <2>5, <3>2
      <4>2. QED
        BY <1>4, <1>7, <2>5, <4>1
    <3>3. QED
      BY <3>1, <3>2
  <2>6. n - m + 1 <= n + 1
    OBVIOUS
  <2>7. QED
    BY <1>8, <1>10, <2>1, <2>2, <2>3, <2>4, <2>5, <2>6 DEF BucketHolds
<1>12. NoneOver(more, n + 1)
  <2>1. OutBy(past, n, m, t) /\ InFrom(past, n, m, t)
    BY <1>3, <1>4 DEF OutBy, InFrom
  <2>2. Until(past, n, t) /\ NoneOver(past, n)
    BY <1>1, <1>2, <1>4 DEF AdmitsWithin, NoneOver, Until
  <2>3. n - m < Limit /\ m <= n /\ m \in Nat
    BY <1>3
  <2>4. past \in [1..n -> Nat] /\ more \in [1..(n + 1) -> Nat]
    <3>1. past \in [1..n -> Nat]
      BY <1>2
    <3>2. more \in [1..(n + 1) -> Nat]
      BY <1>7, SMTT(30)
    <3>3. QED
      BY <3>1, <3>2
  <2>5. Grown(more, past, n, t)
    BY <1>7 DEF Grown
  <2>6. QED
    BY <2>1, <2>2, <2>3, <2>4, <2>5, OneMore
<1>13. AdmitsWithin(k)'
  BY <1>7, <1>8, <1>12 DEF AdmitsWithin, NoneOver, InWindow
<1>14. RefusedRightly(k)'
  BY <1>8 DEF RefusedRightly
<1>15. QED
  BY <1>9, <1>11, <1>13, <1>14

LEMMA LimiterStep == LimiterInv /\ [LimiterNext]_limiterVars => LimiterInv'
<1> SUFFICES ASSUME LimiterInv, [LimiterNext]_limiterVars PROVE LimiterInv'
  OBVIOUS
<1>1. LimiterTypeOK
  BY DEF LimiterInv
<1>2. CASE Tick \/ UNCHANGED limiterVars
  <2>1. now' \in Nat /\ now <= now' /\ UNCHANGED <<events, admitted, refused>>
    BY <1>1, <1>2 DEF Tick, limiterVars, LimiterTypeOK
  <2>2. LimiterTypeOK'
    BY <1>1, <2>1 DEF LimiterTypeOK
  <2>3. QED
    BY <2>1, <2>2, LimiterQuiet DEF LimiterInv
<1>3. ASSUME NEW k \in Keys, Check(k) PROVE LimiterInv'
  <2>1. LimiterTypeOK' /\ BucketHolds(k)' /\ AdmitsWithin(k)' /\ RefusedRightly(k)'
    BY <1>3, LimiterRefuses, LimiterAdmits DEF Check, Admit
  <2>2. ASSUME NEW j \in Keys \ {k}
        PROVE  BucketHolds(j)' /\ AdmitsWithin(j)' /\ RefusedRightly(j)'
    <3>1. /\ now' \in Nat /\ now <= now' /\ events'[j] = events[j]
          /\ admitted'[j] = admitted[j] /\ refused'[j] = refused[j]
      BY <1>1, <1>3 DEF Check, Admit, LimiterTypeOK
    <3>2. QED
      BY <3>1, LimiterQuiet
  <2>3. QED
    BY <2>1, <2>2 DEF LimiterInv
<1>4. QED
  BY <1>2, <1>3 DEF LimiterNext

(* No window admits more than the limit, a refusal means that the limit    *)
(* was reached, and the wait it tells is enough and no second too long,    *)
(* for every limit and every window.                                       *)
THEOREM ThrottleIsExact ==
  LimiterInit /\ [][LimiterNext]_limiterVars => []LimiterIsExact
<1>1. LimiterInv => LimiterIsExact
  <2> SUFFICES ASSUME LimiterInv, NEW k \in Keys
      PROVE  LET past == admitted[k]
                 Passed(t) == Cardinality({i \in DOMAIN past :
                                             past[i] > t - Window /\ past[i] <= t})
                 refusal == refused[k]
                 back == refusal.at + 2 * refusal.wait
             IN /\ \A i \in DOMAIN past : Passed(past[i]) <= Limit
                /\ Len(events[k]) <= Limit
                /\ refusal # Never => /\ Passed(refusal.at) = Limit
                                      /\ Passed(back) < Limit
                                      /\ refusal.wait = 1 \/ Passed(back - 2) = Limit
    BY DEF LimiterIsExact
  <2>1. /\ BucketHolds(k) /\ AdmitsWithin(k) /\ RefusedRightly(k)
        /\ DOMAIN admitted[k] = 1..Len(admitted[k])
    BY DEF LimiterInv, LimiterTypeOK
  <2>2. QED
    BY <2>1 DEF BucketHolds, AdmitsWithin, RefusedRightly, InWindow
<1>2. QED
  BY <1>1, LimiterInitInv, LimiterStep, PTL

-----------------------------------------------------------------------------
(* The page library.  What it keeps is not inductive alone: a call that    *)
(* waits will write later, so what it holds must already be true of the    *)
(* page (CallsHold), and a new version takes the next number only if the   *)
(* newest has the greatest (Chained).                                      *)

Versions == [artifact : Nat, content : Contents, retrieved : Nat, number : Nat \ {0}, previous : Nat]
CallStates ==
  [at : {"idle"}]
    \cup [at : {"waiting"}, requested : Nat]
    \cup [at : {"cached"}, requested : Nat, artifact : Nat]
    \cup [at : {"answered"}, requested : Nat, content : Contents, completed : Nat]
    \cup [at : {"reading"}, artifact : Nat]

TypeLibrary ==
  /\ clock \in Nat /\ web \in Contents
  /\ blobs \in Seq(Contents)
  /\ versions \subseteq Versions
  /\ ocr \subseteq Nat \X {"known", "unknown"}
  /\ call \in [Calls -> CallStates]
  /\ kept \subseteq [artifact : Nat, content : Contents, requested : Nat,
                      from : {"waiting", "cached", "answered"}]
  /\ sent \in Seq(Nat)

(* The page shows what it shows now, and every version showed once.        *)
ShownHolds ==
  /\ <<clock, web>> \in shown
  /\ \A v \in versions : v.retrieved <= clock /\ <<v.retrieved, v.content>> \in shown

(* The versions are told apart by each of their keys, and have their bytes. *)
Distinct ==
  /\ \A v, w \in versions :
       v # w => v.content # w.content /\ v.number # w.number /\ v.artifact # w.artifact
  /\ \A v \in versions : v.artifact \in DOMAIN blobs /\ blobs[v.artifact] = v.content

(* One version has the greatest number, and each of the others is the      *)
(* previous one of another.                                                *)
Chained ==
  /\ versions # {} => \E v \in versions : \A w \in versions : w.number <= v.number
  /\ \A v \in versions :
       IF v.number = 1 THEN v.previous = NoArtifact
       ELSE \E w \in versions : w.number = v.number - 1 /\ w.artifact = v.previous

Names(artifact) == \E v \in versions : v.artifact = artifact

(* What a call holds is true of the page, and a deck is read by one call   *)
(* before it has an outcome.                                               *)
CallsHold ==
  /\ \A c \in Calls :
       /\ call[c].at \in {"waiting", "cached", "answered"} => call[c].requested <= clock
       /\ call[c].at = "cached" =>
            \E v \in versions : /\ v.artifact = call[c].artifact
                                /\ v.retrieved <= call[c].requested
                                /\ call[c].requested - v.retrieved <= CacheTtl
       /\ call[c].at = "answered" =>
            /\ call[c].completed <= clock
            /\ <<call[c].completed, call[c].content>> \in shown
       /\ call[c].at = "reading" =>
            Names(call[c].artifact) /\ \A o \in ocr : o[1] # call[c].artifact
  /\ \A c, d \in Calls :
       /\ c # d /\ call[c].at = "reading" /\ call[d].at = "reading"
       => call[c].artifact # call[d].artifact

KeptHold ==
  \A k \in kept :
    /\ Names(k.artifact) /\ k.artifact \in policies
    /\ blobs[k.artifact] = k.content
    /\ k.from = "cached" => \E t \in (k.requested - CacheTtl)..k.requested : <<t, k.content>> \in shown

RegistryHolds == \A a \in registry : Names(a)

SentHold ==
  /\ \A i \in DOMAIN sent : Names(sent[i]) /\ blobs[sent[i]] \in Pdfs
  /\ \A i, j \in DOMAIN sent : sent[i] = sent[j] => i = j

OutcomesHold ==
  /\ \A o \in ocr : Names(o[1])
  /\ \A o, p \in ocr : o[1] = p[1] => o = p

LibraryInv ==
  /\ TypeLibrary /\ ShownHolds /\ Distinct /\ Chained
  /\ CallsHold /\ KeptHold /\ RegistryHolds /\ SentHold /\ OutcomesHold

-----------------------------------------------------------------------------
(* What the operators of the page return.                                  *)

(* The newest version is one of them and has the greatest number.          *)
LEMMA NewestIs ==
  ASSUME Chained, versions # {}
  PROVE  Newest(versions) \in versions /\ \A w \in versions : w.number <= Newest(versions).number
  BY DEF Chained, Newest

(* The writes are made in order: a later one is made only after an earlier. *)
LEMMA ReachedInOrder ==
  ASSUME NEW reach \in Reaches
  PROVE  /\ Reached("version", reach) => Reached("bytes", reach)
         /\ Reached("policy", reach) <=> reach = "policy"
         /\ reach = "policy" => Reached("version", reach)
  BY DEF Reached, Reaches

(* A version made now has the next number, and an artifact of its own.     *)
LEMMA NewVersionIs ==
  ASSUME TypeLibrary, Chained, NEW c \in Calls, call[c].at = "answered"
  PROVE  LET v == NewVersion(c) IN
         /\ v \in Versions
         /\ v.artifact = Len(blobs) + 1
         /\ v.content = call[c].content /\ v.retrieved = call[c].completed
         /\ \A w \in versions : w.number < v.number
         /\ IF v.number = 1 THEN v.previous = NoArtifact
            ELSE \E w \in versions : w.number = v.number - 1 /\ w.artifact = v.previous
<1>1. call[c] \in [at : {"answered"}, requested : Nat, content : Contents, completed : Nat]
  BY DEF TypeLibrary, CallStates
<1>2. Len(blobs) \in Nat
  BY DEF TypeLibrary
<1>3. CASE versions = {}
  BY <1>1, <1>2, <1>3 DEF NewVersion, History, Versions, NoArtifact
<1>4. CASE versions # {}
  <2>1. /\ Newest(versions) \in versions
        /\ \A w \in versions : w.number <= Newest(versions).number
    BY <1>4, NewestIs
  <2>2. Newest(versions) \in Versions /\ \A w \in versions : w \in Versions
    BY <2>1 DEF TypeLibrary
  <2>3. NewVersion(c) = [artifact |-> Len(blobs) + 1, content |-> call[c].content,
                         retrieved |-> call[c].completed,
                         number |-> Newest(versions).number + 1,
                         previous |-> Newest(versions).artifact]
    BY <1>4 DEF NewVersion, History
  <2> DEFINE v == NewVersion(c)
             newest == Newest(versions)
  <2>4. /\ v.artifact = Len(blobs) + 1 /\ v.content = call[c].content
        /\ v.retrieved = call[c].completed /\ v.number = newest.number + 1
        /\ v.previous = newest.artifact
    BY <2>3
  <2>5. newest.number \in Nat /\ newest.number # 0 /\ newest.artifact \in Nat
    BY <2>2 DEF Versions
  <2>6. v \in Versions
    BY <1>1, <1>2, <2>3, <2>5 DEF Versions
  <2>7. \A w \in versions : w.number \in Nat /\ w.number <= newest.number
    BY <2>1, <2>2 DEF Versions
  <2>8. newest \in versions
    BY <2>1
  <2> HIDE DEF v, newest
  <2>9. /\ \A w \in versions : w.number < v.number
        /\ v.number # 1 /\ newest.number = v.number - 1 /\ newest.artifact = v.previous
    BY <2>4, <2>5, <2>7
  <2>10. \E w \in versions : w.number = v.number - 1 /\ w.artifact = v.previous
    BY <2>8, <2>9
  <2>11. QED
    BY <2>4, <2>6, <2>9, <2>10 DEF v
<1>5. QED
  BY <1>3, <1>4

-----------------------------------------------------------------------------
(* The invariant holds at first.                                           *)
LEMMA InvInit == LibraryInit => LibraryInv
<1> SUFFICES ASSUME LibraryInit PROVE LibraryInv
  OBVIOUS
<1>1. web \in Contents
  BY LibraryAssumption DEF LibraryInit
<1>2. TypeLibrary
  BY <1>1 DEF LibraryInit, TypeLibrary, CallStates, Idle
<1>3. CallsHold
  BY DEF LibraryInit, CallsHold, Idle
<1>4. QED
  BY <1>2, <1>3 DEF LibraryInit, LibraryInv, ShownHolds, Distinct, Chained, KeptHold,
     RegistryHolds, SentHold, OutcomesHold

(* A step that leaves the durable tables and the histories alone has only  *)
(* its call and the registry to answer for.                                *)
LEMMA TablesKept ==
  ASSUME LibraryInv, UNCHANGED <<clock, web, durable, shown, kept, sent>>,
         call' \in [Calls -> CallStates], CallsHold', RegistryHolds'
  PROVE  LibraryInv'
<1> USE DEF LibraryInv, durable
<1>1. TypeLibrary'
  BY DEF TypeLibrary
<1>2. ShownHolds' /\ Distinct' /\ Chained'
  BY DEF ShownHolds, Distinct, Chained
<1>3. KeptHold' /\ SentHold' /\ OutcomesHold'
  BY DEF KeptHold, SentHold, OutcomesHold, Names
<1>4. QED
  BY <1>1, <1>2, <1>3

(* So it is with what one call comes to hold, unless it goes on to OCR.    *)
LEMMA OneCall ==
  ASSUME LibraryInv, NEW c \in Calls, NEW x, call' = [call EXCEPT ![c] = x],
         UNCHANGED <<clock, versions, ocr, shown>>,
         x.at # "reading",
         x.at \in {"waiting", "cached", "answered"} => x.requested <= clock,
         x.at = "cached" => \E v \in versions : /\ v.artifact = x.artifact
                                                /\ v.retrieved <= x.requested
                                                /\ x.requested - v.retrieved <= CacheTtl,
         x.at = "answered" => x.completed <= clock /\ <<x.completed, x.content>> \in shown
  PROVE  CallsHold'
<1>1. call'[c] = x /\ \A d \in Calls : d # c => call'[d] = call[d]
  BY DEF LibraryInv, TypeLibrary
<1>2. ASSUME NEW d \in Calls
      PROVE  /\ call'[d].at \in {"waiting", "cached", "answered"} => call'[d].requested <= clock'
             /\ call'[d].at = "cached" =>
                  \E w \in versions' : /\ w.artifact = call'[d].artifact
                                       /\ w.retrieved <= call'[d].requested
                                       /\ call'[d].requested - w.retrieved <= CacheTtl
             /\ call'[d].at = "answered" =>
                  /\ call'[d].completed <= clock'
                  /\ <<call'[d].completed, call'[d].content>> \in shown'
             /\ call'[d].at = "reading" =>
                  (\E w \in versions' : w.artifact = call'[d].artifact)
                  /\ \A o \in ocr' : o[1] # call'[d].artifact
  <2>1. CASE d = c
    BY <1>1, <2>1
  <2>2. CASE d # c
    BY <1>1, <2>2 DEF LibraryInv, CallsHold, Names
  <2>3. QED
    BY <2>1, <2>2
<1>3. \A d, e \in Calls : /\ d # e /\ call'[d].at = "reading" /\ call'[e].at = "reading"
                          => call'[d].artifact # call'[e].artifact
  BY <1>1 DEF LibraryInv, CallsHold
<1>4. QED
  BY <1>2, <1>3 DEF CallsHold, Names

LEMMA RequestInv == ASSUME LibraryInv, NEW c \in Calls, Request(c) PROVE LibraryInv'
<1> USE DEF LibraryInv
<1>1. CASE CachedArtifact = {}
  <2>1. call' = [call EXCEPT ![c] = [at |-> "waiting", requested |-> clock]]
    BY <1>1 DEF Request
  <2>2. call' \in [Calls -> CallStates]
    BY <2>1 DEF TypeLibrary, CallStates
  <2>3. CallsHold'
    <3> PICK x : x = [at |-> "waiting", requested |-> clock]
      OBVIOUS
    <3>1. x.at = "waiting" /\ x.requested <= clock
      BY DEF TypeLibrary
    <3>2. UNCHANGED <<clock, versions, ocr, shown>>
      BY DEF Request, durable
    <3>3. QED
      BY <2>1, <3>1, <3>2, OneCall
  <2>4. RegistryHolds'
    BY DEF Request, RegistryHolds, Names, durable
  <2>5. QED
    BY <2>2, <2>3, <2>4, TablesKept DEF Request
<1>2. CASE CachedArtifact # {}
  <2> PICK v : v = Newest(versions)
    OBVIOUS
  <2>1. versions # {} /\ clock - v.retrieved <= CacheTtl /\ CachedArtifact = {v.artifact}
    BY <1>2 DEF CachedArtifact
  <2>2. v \in versions /\ v \in Versions
    BY <2>1, NewestIs DEF TypeLibrary
  <2>3. call' = [call EXCEPT ![c] = [at |-> "cached", requested |-> clock, artifact |-> v.artifact]]
    BY <1>2, <2>1 DEF Request
  <2>4. call' \in [Calls -> CallStates]
    <3>1. v.artifact \in Nat
      BY <2>2 DEF Versions
    <3>2. QED
      BY <2>3, <3>1 DEF TypeLibrary, CallStates
  <2>5. CallsHold'
    <3>1. v.retrieved <= clock
      BY <2>2 DEF ShownHolds
    <3> PICK x : x = [at |-> "cached", requested |-> clock, artifact |-> v.artifact]
      OBVIOUS
    <3>2. x.at = "cached" /\ x.requested = clock /\ x.artifact = v.artifact
      OBVIOUS
    <3>3. UNCHANGED <<clock, versions, ocr, shown>>
      BY DEF Request, durable
    <3>4. \E w \in versions : /\ w.artifact = x.artifact /\ w.retrieved <= x.requested
                              /\ x.requested - w.retrieved <= CacheTtl
      BY <2>1, <2>2, <3>1, <3>2
    <3>5. x.requested <= clock
      BY <3>2 DEF TypeLibrary
    <3>6. QED
      BY <2>3, <3>2, <3>3, <3>4, <3>5, OneCall
  <2>6. RegistryHolds'
    BY DEF Request, RegistryHolds, Names, durable
  <2>7. QED
    BY <2>4, <2>5, <2>6, TablesKept DEF Request
<1>3. QED
  BY <1>1, <1>2

LEMMA AcquiredInv == ASSUME LibraryInv, NEW c \in Calls, Acquired(c) PROVE LibraryInv'
<1> USE DEF LibraryInv
<1>1. call[c] \in [at : {"waiting"}, requested : Nat]
  BY DEF Acquired, TypeLibrary, CallStates
<1>2. call' = [call EXCEPT ![c] = [at |-> "answered", requested |-> call[c].requested,
                                   content |-> web, completed |-> clock]]
  BY DEF Acquired
<1>3. call' \in [Calls -> CallStates]
  BY <1>1, <1>2 DEF TypeLibrary, CallStates
<1>4. CallsHold'
  BY <1>1, <1>2 DEF Acquired, CallsHold, ShownHolds, TypeLibrary, Names, durable
<1>5. RegistryHolds'
  BY DEF Acquired, RegistryHolds, Names, durable
<1>6. QED
  BY <1>3, <1>4, <1>5, TablesKept DEF Acquired

LEMMA NotAcquiredInv == ASSUME LibraryInv, NEW c \in Calls, NotAcquired(c) PROVE LibraryInv'
<1> USE DEF LibraryInv
<1>1. call' \in [Calls -> CallStates]
  BY DEF NotAcquired, TypeLibrary, CallStates, Idle
<1>2. CallsHold'
  BY DEF NotAcquired, CallsHold, TypeLibrary, Names, durable, Idle
<1>3. RegistryHolds'
  BY DEF NotAcquired, RegistryHolds, Names, durable
<1>4. QED
  BY <1>1, <1>2, <1>3, TablesKept DEF NotAcquired

-----------------------------------------------------------------------------
(* Acceptance of a version that is there already: its call ends, and it    *)
(* may enter the registry, the policies and the history.                   *)
LEMMA KnownKept ==
  ASSUME LibraryInv, NEW c \in Calls, NEW a \in Nat, NEW reach \in Reaches, Names(a),
         Register(a, reach),
         call' = [call EXCEPT ![c] = Idle],
         UNCHANGED <<clock, web, blobs, versions, ocr, shown, sent>>,
         \/ UNCHANGED kept
         \/ /\ reach = "policy"
            /\ Kept(c, a, blobs[a])
            /\ call[c].requested \in Nat /\ call[c].at \in {"waiting", "cached", "answered"}
            /\ call[c].at = "cached" =>
                 \E t \in (call[c].requested - CacheTtl)..call[c].requested :
                   <<t, blobs[a]>> \in shown
  PROVE  LibraryInv'
<1> USE DEF LibraryInv
<1>1. a \in DOMAIN blobs /\ blobs[a] \in Contents
  <2>1. a \in DOMAIN blobs
    BY DEF Names, Distinct
  <2>2. QED
    BY <2>1 DEF TypeLibrary
<1>2. TypeLibrary'
  <2>1. call' \in [Calls -> CallStates]
    BY DEF TypeLibrary, CallStates, Idle
  <2>2. kept' \subseteq [artifact : Nat, content : Contents, requested : Nat,
                       from : {"waiting", "cached", "answered"}]
    BY <1>1 DEF TypeLibrary, Kept
  <2>3. QED
    BY <2>1, <2>2 DEF TypeLibrary
<1>3. ShownHolds' /\ Distinct' /\ Chained'
  BY DEF ShownHolds, Distinct, Chained
<1>4. CallsHold'
  BY DEF CallsHold, TypeLibrary, Names, Idle
<1>5. RegistryHolds'
  BY DEF RegistryHolds, Register, Names
<1>6. policies \subseteq policies' /\ (reach = "policy" => a \in policies')
  BY ReachedInOrder DEF Register, AppendIdempotent
<1>7. KeptHold'
  <2> SUFFICES ASSUME NEW k \in kept'
               PROVE  /\ Names(k.artifact)' /\ k.artifact \in policies'
                      /\ blobs'[k.artifact] = k.content
                      /\ k.from = "cached" => \E t \in (k.requested - CacheTtl)..k.requested :
                                       <<t, k.content>> \in shown'
    BY DEF KeptHold
  <2>1. CASE k \in kept
    BY <2>1, <1>6 DEF KeptHold, Names
  <2>2. CASE k \notin kept
    <3>1. /\ reach = "policy"
          /\ k = [artifact |-> a, content |-> blobs[a],
                  requested |-> call[c].requested, from |-> call[c].at]
      BY <2>2 DEF Kept
    <3>2. QED
      BY <3>1, <2>2, <1>6 DEF Names
  <2>3. QED
    BY <2>1, <2>2
<1>8. SentHold' /\ OutcomesHold'
  BY DEF SentHold, OutcomesHold, Names
<1>9. QED
  BY <1>2, <1>3, <1>4, <1>5, <1>7, <1>8

LEMMA CachedInv == ASSUME LibraryInv, NEW c \in Calls, AcceptCached(c) PROVE LibraryInv'
<1> PICK a : a = call[c].artifact
  OBVIOUS
<1>1. call[c] \in [at : {"cached"}, requested : Nat, artifact : Nat]
  BY DEF AcceptCached, LibraryInv, TypeLibrary, CallStates
<1>2. PICK v \in versions : /\ v.artifact = a /\ v.retrieved <= call[c].requested
                            /\ call[c].requested - v.retrieved <= CacheTtl
  BY <1>1 DEF LibraryInv, CallsHold
<1>3. Names(a)
  BY <1>2 DEF Names
<1>4. \E t \in (call[c].requested - CacheTtl)..call[c].requested : <<t, blobs[a]>> \in shown
  <2>1. blobs[a] = v.content /\ <<v.retrieved, v.content>> \in shown
    BY <1>2 DEF LibraryInv, Distinct, ShownHolds
  <2>2. v.retrieved \in Nat
    BY DEF LibraryInv, TypeLibrary, Versions
  <2>3. v.retrieved \in (call[c].requested - CacheTtl)..call[c].requested
    BY <1>1, <1>2, <2>2, LibraryAssumption
  <2>4. QED
    BY <2>1, <2>3
<1>5. PICK reach \in {"version", "policy"} :
        /\ Register(a, reach)
        /\ IF reach = "policy" THEN Kept(c, a, blobs[a]) ELSE UNCHANGED kept
  BY DEF AcceptCached
<1>6. reach \in Reaches
  BY DEF Reaches
<1>7. a \in Nat /\ call[c].requested \in Nat
  BY <1>1
<1>8. QED
  BY <1>3, <1>4, <1>5, <1>6, <1>7, KnownKept DEF AcceptCached

LEMMA NotModifiedInv == ASSUME LibraryInv, NEW c \in Calls, AcceptNotModified(c) PROVE LibraryInv'
<1> PICK a : a = Newest(versions).artifact
  OBVIOUS
<1>1. call[c] \in [at : {"waiting"}, requested : Nat]
  BY DEF AcceptNotModified, LibraryInv, TypeLibrary, CallStates
<1>2. Newest(versions) \in versions
  BY NewestIs DEF AcceptNotModified, LibraryInv
<1>3. Names(a) /\ a \in Nat
  BY <1>2 DEF Names, LibraryInv, TypeLibrary, Versions
<1>4. PICK reach \in {"version", "policy"} :
        /\ Register(a, reach)
        /\ IF reach = "policy" THEN Kept(c, a, blobs[a]) ELSE UNCHANGED kept
  BY DEF AcceptNotModified
<1>5. reach \in Reaches
  BY DEF Reaches
<1>6. QED
  BY <1>1, <1>3, <1>4, <1>5, KnownKept DEF AcceptNotModified

LEMMA ExistingInv == ASSUME LibraryInv, NEW c \in Calls, AcceptExisting(c) PROVE LibraryInv'
<1>1. call[c] \in [at : {"answered"}, requested : Nat, content : Contents, completed : Nat]
  BY DEF AcceptExisting, LibraryInv, TypeLibrary, CallStates
<1>2. PICK v \in Existing(c), reach \in Reaches :
        /\ Register(v.artifact, reach)
        /\ IF reach = "policy" THEN Kept(c, v.artifact, call[c].content) ELSE UNCHANGED kept
  BY DEF AcceptExisting
<1>3. v \in versions /\ v.content = call[c].content
  BY DEF Existing, History
<1>4. Names(v.artifact) /\ blobs[v.artifact] = call[c].content /\ v.artifact \in Nat
  BY <1>3 DEF Names, LibraryInv, Distinct, TypeLibrary, Versions
<1>5. QED
  BY <1>1, <1>2, <1>4, KnownKept DEF AcceptExisting

-----------------------------------------------------------------------------
(* Acceptance of a new version.                                            *)

(* The tables after it, however far the writes get.                        *)
LEMMA NewTables ==
  ASSUME LibraryInv, NEW c \in Calls, call[c].at = "answered", Existing(c) = {},
         NEW reach \in Reaches, KeepNew(NewVersion(c), reach),
         UNCHANGED <<clock, web, shown>>
  PROVE  /\ blobs' \in Seq(Contents) /\ Len(blobs) <= Len(blobs')
         /\ \A i \in DOMAIN blobs : i \in DOMAIN blobs' /\ blobs'[i] = blobs[i]
         /\ versions \subseteq versions' /\ versions' \subseteq versions \cup {NewVersion(c)}
         /\ versions' \subseteq Versions
         /\ Reached("version", reach) => NewVersion(c) \in versions'
         /\ ShownHolds' /\ Distinct' /\ Chained'
<1> DEFINE v == NewVersion(c)
<1> USE DEF LibraryInv
<1>1. /\ v \in Versions /\ v.artifact = Len(blobs) + 1
      /\ v.content = call[c].content /\ v.retrieved = call[c].completed
      /\ \A w \in versions : w.number < v.number
      /\ IF v.number = 1 THEN v.previous = NoArtifact
         ELSE \E w \in versions : w.number = v.number - 1 /\ w.artifact = v.previous
  BY NewVersionIs
<1>2. /\ blobs' = IF Reached("bytes", reach) THEN Append(blobs, v.content) ELSE blobs
      /\ versions' = IF Reached("version", reach) THEN versions \cup {v} ELSE versions
  BY DEF KeepNew
<1>3. v.retrieved <= clock /\ <<v.retrieved, v.content>> \in shown
  BY <1>1 DEF CallsHold
<1>4. \A w \in versions : w.content # v.content
  BY <1>1 DEF Existing, History
<1> HIDE DEF v
<1>5. v.content \in Contents /\ v.number \in Nat
  BY <1>1 DEF Versions
<1>6. blobs \in Seq(Contents) /\ versions \subseteq Versions
  BY DEF TypeLibrary
<1>7. /\ blobs' \in Seq(Contents) /\ Len(blobs) <= Len(blobs')
      /\ \A i \in DOMAIN blobs : i \in DOMAIN blobs' /\ blobs'[i] = blobs[i]
  BY <1>2, <1>5, <1>6
<1>8. Reached("version", reach) => /\ v.artifact \in DOMAIN blobs'
                                   /\ blobs'[v.artifact] = v.content
  BY <1>1, <1>2, <1>5, <1>6, ReachedInOrder
<1>9. ShownHolds'
  BY <1>2, <1>3 DEF ShownHolds
<1>10. Distinct'
  <2>1. \A w \in versions : w.artifact \in DOMAIN blobs /\ w.artifact # v.artifact
    <3>1. DOMAIN blobs = 1..Len(blobs) /\ Len(blobs) \in Nat
      BY <1>6
    <3>2. QED
      BY <1>1, <3>1 DEF Distinct
  <2>2. \A w \in versions : w.number # v.number
    BY <1>1, <1>5, <1>6 DEF Versions
  <2>3. \A x, w \in versions' :
          x # w => x.content # w.content /\ x.number # w.number /\ x.artifact # w.artifact
    BY <1>2, <1>4, <2>1, <2>2 DEF Distinct
  <2>4. \A x \in versions' : x.artifact \in DOMAIN blobs' /\ blobs'[x.artifact] = x.content
    BY <1>2, <1>7, <1>8 DEF Distinct
  <2>5. QED
    BY <2>3, <2>4 DEF Distinct
<1>11. Chained'
  <2>1. CASE versions' = versions
    BY <2>1 DEF Chained
  <2>2. CASE versions' = versions \cup {v}
    <3>1. \A w \in versions' : w.number <= v.number
      BY <1>1, <1>5, <1>6, <2>2 DEF Versions
    <3>2. QED
      BY <1>1, <2>2, <3>1 DEF Chained
  <2>3. QED
    BY <1>2, <2>1, <2>2
<1>12. QED
  BY <1>1, <1>2, <1>6, <1>7, <1>9, <1>10, <1>11 DEF v

LEMMA NewInv == ASSUME LibraryInv, NEW c \in Calls, AcceptNew(c) PROVE LibraryInv'
<1> PICK v : v = NewVersion(c)
  OBVIOUS
<1>1. PICK reach \in Reaches :
        /\ KeepNew(v, reach) /\ Register(v.artifact, reach)
        /\ IF reach = "policy"
           THEN /\ Kept(c, v.artifact, v.content)
                /\ call' = [call EXCEPT ![c] = [at |-> "reading", artifact |-> v.artifact]]
                /\ sent' = IF v.content \in Pdfs THEN Append(sent, v.artifact) ELSE sent
           ELSE call' = [call EXCEPT ![c] = Idle] /\ UNCHANGED <<kept, sent>>
  BY DEF AcceptNew
<1>2. call[c].at = "answered" /\ Existing(c) = {} /\ UNCHANGED <<clock, web, ocr, requests, shown>>
  BY DEF AcceptNew
<1>3. /\ blobs' \in Seq(Contents) /\ Len(blobs) <= Len(blobs')
      /\ \A i \in DOMAIN blobs : i \in DOMAIN blobs' /\ blobs'[i] = blobs[i]
      /\ versions \subseteq versions' /\ versions' \subseteq versions \cup {v}
      /\ versions' \subseteq Versions
      /\ Reached("version", reach) => v \in versions'
      /\ ShownHolds' /\ Distinct' /\ Chained'
  BY <1>1, <1>2, NewTables
<1>4. v \in Versions /\ v.artifact = Len(blobs) + 1 /\ v.content = call[c].content
  BY <1>2, NewVersionIs DEF LibraryInv
<1>5. call[c] \in [at : {"answered"}, requested : Nat, content : Contents, completed : Nat]
  BY <1>2 DEF LibraryInv, TypeLibrary, CallStates
<1> USE DEF LibraryInv
<1>6. v.artifact \in Nat /\ v.content \in Contents
  BY <1>4 DEF Versions
<1>7. \A a : Names(a) => Names(a)' /\ a \in DOMAIN blobs /\ blobs'[a] = blobs[a] /\ a # v.artifact
  <2>1. DOMAIN blobs = 1..Len(blobs) /\ Len(blobs) \in Nat
    BY DEF TypeLibrary
  <2>2. QED
    BY <1>3, <1>4, <2>1 DEF Names, Distinct
<1>8. reach = "policy" => Names(v.artifact)' /\ blobs'[v.artifact] = v.content
  <2>1. reach = "policy" => v \in versions'
    BY <1>3, ReachedInOrder
  <2>2. QED
    BY <1>3, <2>1 DEF Names, Distinct
<1>9. policies \subseteq policies' /\ (reach = "policy" => v.artifact \in policies')
  BY <1>1, ReachedInOrder DEF Register, AppendIdempotent
<1>10. TypeLibrary'
  <2>1. call' \in [Calls -> CallStates]
    <3>1. Idle \in CallStates /\ [at |-> "reading", artifact |-> v.artifact] \in CallStates
      BY <1>6 DEF CallStates, Idle
    <3>2. \/ call' = [call EXCEPT ![c] = Idle]
          \/ call' = [call EXCEPT ![c] = [at |-> "reading", artifact |-> v.artifact]]
      BY <1>1
    <3>3. QED
      BY <3>1, <3>2 DEF TypeLibrary
  <2>2. kept' \subseteq [artifact : Nat, content : Contents, requested : Nat,
                       from : {"waiting", "cached", "answered"}]
    <3>1. [artifact |-> v.artifact, content |-> v.content,
           requested |-> call[c].requested, from |-> call[c].at]
            \in [artifact : Nat, content : Contents, requested : Nat,
                from : {"waiting", "cached", "answered"}]
      BY <1>5, <1>6
    <3>2. \/ kept' = kept
          \/ kept' = kept \cup {[artifact |-> v.artifact, content |-> v.content,
                               requested |-> call[c].requested, from |-> call[c].at]}
      BY <1>1 DEF Kept
    <3>3. QED
      BY <3>1, <3>2 DEF TypeLibrary
  <2>3. sent' \in Seq(Nat)
    <3>1. sent \in Seq(Nat) /\ sent' \in {sent, Append(sent, v.artifact)}
      BY <1>1 DEF TypeLibrary
    <3>2. QED
      BY <1>6, <3>1
  <2>4. QED
    BY <1>2, <1>3, <2>1, <2>2, <2>3 DEF TypeLibrary
<1>11. CallsHold'
  <2>1. \A d \in Calls : d # c => call'[d] = call[d]
    BY <1>1 DEF TypeLibrary
  <2>2. \/ call'[c].at = "idle"
        \/ /\ reach = "policy" /\ call'[c].at = "reading" /\ call'[c].artifact = v.artifact
    BY <1>1 DEF TypeLibrary, Idle
  <2>3. \A o \in ocr : o[1] # v.artifact
    BY <1>7 DEF OutcomesHold
  <2>4. \A d \in Calls : call[d].at = "reading" => call[d].artifact # v.artifact
    BY <1>7 DEF CallsHold
  <2>5. ASSUME NEW d \in Calls
        PROVE /\ call'[d].at \in {"waiting", "cached", "answered"} => call'[d].requested <= clock'
              /\ call'[d].at = "cached" =>
                   \E w \in versions' : /\ w.artifact = call'[d].artifact
                                        /\ w.retrieved <= call'[d].requested
                                        /\ call'[d].requested - w.retrieved <= CacheTtl
              /\ call'[d].at = "answered" =>
                   /\ call'[d].completed <= clock'
                   /\ <<call'[d].completed, call'[d].content>> \in shown'
              /\ call'[d].at = "reading" =>
                   (\E w \in versions' : w.artifact = call'[d].artifact) /\ \A o \in ocr' : o[1] # call'[d].artifact
    <3>1. CASE d = c
      BY <1>2, <1>8, <2>2, <2>3, <3>1 DEF Names
    <3>2. CASE d # c
      BY <1>2, <1>3, <1>7, <2>1, <3>2 DEF CallsHold, Names
    <3>3. QED
      BY <3>1, <3>2
  <2>6. \A d, e \in Calls :
          d # e /\ call'[d].at = "reading" /\ call'[e].at = "reading"
          => call'[d].artifact # call'[e].artifact
    BY <2>1, <2>2, <2>4 DEF CallsHold
  <2>7. QED
    BY <2>5, <2>6 DEF CallsHold, Names
<1>12. KeptHold'
  <2> SUFFICES ASSUME NEW k \in kept'
               PROVE  /\ Names(k.artifact)' /\ k.artifact \in policies'
                      /\ blobs'[k.artifact] = k.content
                      /\ k.from = "cached" => \E t \in (k.requested - CacheTtl)..k.requested :
                                       <<t, k.content>> \in shown'
    BY DEF KeptHold
  <2>1. CASE k \in kept
    BY <1>2, <1>7, <1>9, <2>1 DEF KeptHold
  <2>2. CASE k \notin kept
    <3>1. reach = "policy" /\ k = [artifact |-> v.artifact, content |-> v.content,
                                   requested |-> call[c].requested, from |-> "answered"]
      BY <1>1, <1>2, <2>2 DEF Kept
    <3>2. QED
      BY <1>8, <1>9, <3>1
  <2>3. QED
    BY <2>1, <2>2
<1>13. RegistryHolds'
  <2>1. Reached("version", reach) => Names(v.artifact)'
    BY <1>3 DEF Names
  <2>2. QED
    BY <1>1, <1>7, <2>1 DEF RegistryHolds, Register
<1>14. SentHold'
  <2>1. CASE sent' = sent
    BY <1>7, <2>1 DEF SentHold
  <2>2. CASE sent' # sent
    <3>1. reach = "policy" /\ v.content \in Pdfs /\ sent' = Append(sent, v.artifact)
      BY <1>1, <2>2
    <3>2. sent \in Seq(Nat) /\ \A i \in DOMAIN sent : sent[i] # v.artifact
      BY <1>7 DEF SentHold, TypeLibrary
    <3>3. /\ DOMAIN sent' = DOMAIN sent \cup {Len(sent) + 1}
          /\ \A i \in DOMAIN sent : sent'[i] = sent[i]
          /\ sent'[Len(sent) + 1] = v.artifact
      BY <1>6, <3>1, <3>2
    <3>4. QED
      BY <1>7, <1>8, <3>1, <3>2, <3>3 DEF SentHold
  <2>3. QED
    BY <2>1, <2>2
<1>15. OutcomesHold'
  BY <1>2, <1>7 DEF OutcomesHold
<1>16. QED
  BY <1>3, <1>10, <1>11, <1>12, <1>13, <1>14, <1>15

-----------------------------------------------------------------------------
(* OCR and the world.                                                      *)

LEMMA ReadingInv == ASSUME LibraryInv, NEW c \in Calls, FinishReading(c) PROVE LibraryInv'
<1> PICK a : a = call[c].artifact
  OBVIOUS
<1> USE DEF LibraryInv
<1>1. call[c] \in [at : {"reading"}, artifact : Nat]
  BY DEF FinishReading, TypeLibrary, CallStates
<1>2. Names(a) /\ (\A o \in ocr : o[1] # a)
      /\ \A d \in Calls : d # c /\ call[d].at = "reading" => call[d].artifact # a
  BY <1>1 DEF CallsHold
<1>3. PICK state \in {"known", "unknown"} : ocr' \in {ocr, ocr \cup {<<a, state>>}}
  BY DEF FinishReading, AppendIdempotent
<1>4. /\ call' = [call EXCEPT ![c] = Idle]
      /\ UNCHANGED <<clock, web, blobs, versions, policies, registry, shown, kept, sent>>
  BY DEF FinishReading
<1>5. a \in Nat
  BY <1>1
<1>6. TypeLibrary'
  BY <1>3, <1>4, <1>5 DEF TypeLibrary, CallStates, Idle
<1>7. ShownHolds' /\ Distinct' /\ Chained'
  BY <1>4 DEF ShownHolds, Distinct, Chained
<1>8. CallsHold'
  <2>1. call'[c].at = "idle" /\ \A d \in Calls : d # c => call'[d] = call[d]
    BY <1>4 DEF TypeLibrary, Idle
  <2>2. ASSUME NEW d \in Calls, call'[d].at = "reading", NEW o \in ocr'
        PROVE  o[1] # call'[d].artifact
    <3>1. d # c /\ call'[d] = call[d] /\ call[d].artifact # a
      BY <1>2, <2>1, <2>2
    <3>2. CASE o \in ocr
      BY <2>2, <3>1, <3>2 DEF CallsHold
    <3>3. CASE o = <<a, state>>
      BY <3>1, <3>3
    <3>4. QED
      BY <1>3, <3>2, <3>3
  <2>3. QED
    BY <1>4, <2>1, <2>2 DEF CallsHold, Names
<1>9. KeptHold' /\ RegistryHolds' /\ SentHold'
  BY <1>4 DEF KeptHold, RegistryHolds, SentHold, Names
<1>10. OutcomesHold'
  BY <1>2, <1>3, <1>4 DEF OutcomesHold, Names
<1>11. QED
  BY <1>6, <1>7, <1>8, <1>9, <1>10

(* Time and the page move on: what was shown stays shown.                  *)
LEMMA WorldInv ==
  ASSUME LibraryInv, WebChanges \/ TimePasses PROVE LibraryInv'
<1> USE DEF LibraryInv, durable
<1>1. /\ clock' \in Nat /\ clock <= clock' /\ web' \in Contents
      /\ <<clock', web'>> \in shown' /\ shown \subseteq shown'
      /\ UNCHANGED <<durable, registry, call, requests, kept, sent>>
  BY DEF WebChanges, TimePasses, TypeLibrary
<1>2. TypeLibrary'
  BY <1>1 DEF TypeLibrary
<1>3. ShownHolds'
  BY <1>1 DEF ShownHolds, TypeLibrary, Versions
<1>4. Distinct' /\ Chained'
  BY <1>1 DEF Distinct, Chained
<1>5. CallsHold'
  <2>1. \A c \in Calls : call[c].at \in {"waiting", "cached", "answered"} => call[c].requested \in Nat
    BY DEF TypeLibrary, CallStates
  <2>2. \A c \in Calls : call[c].at = "answered" => call[c].completed \in Nat
    BY DEF TypeLibrary, CallStates
  <2>3. clock \in Nat
    BY DEF TypeLibrary
  <2>4. QED
    BY <1>1, <2>1, <2>2, <2>3 DEF CallsHold, Names
<1>6. KeptHold' /\ RegistryHolds' /\ SentHold' /\ OutcomesHold'
  BY <1>1 DEF KeptHold, RegistryHolds, SentHold, OutcomesHold, Names
<1>7. QED
  BY <1>2, <1>3, <1>4, <1>5, <1>6

LEMMA EndInv == ASSUME LibraryInv, ProcessEnds PROVE LibraryInv'
<1> USE DEF LibraryInv
<1>1. call' \in [Calls -> CallStates] /\ \A c \in Calls : call'[c].at = "idle"
  BY DEF ProcessEnds, CallStates, Idle
<1>2. CallsHold'
  BY <1>1 DEF CallsHold
<1>3. RegistryHolds'
  BY DEF ProcessEnds, RegistryHolds
<1>4. QED
  BY <1>1, <1>2, <1>3, TablesKept DEF ProcessEnds

-----------------------------------------------------------------------------
(* Every step keeps the invariant.                                         *)
LEMMA InvStep == LibraryInv /\ [LibraryNext]_libraryVars => LibraryInv'
<1> SUFFICES ASSUME LibraryInv, [LibraryNext]_libraryVars PROVE LibraryInv'
  OBVIOUS
<1>1. CASE UNCHANGED libraryVars
  <2>1. call' \in [Calls -> CallStates] /\ CallsHold' /\ RegistryHolds'
    BY <1>1 DEF libraryVars, durable, LibraryInv, TypeLibrary, CallsHold, RegistryHolds, Names
  <2>2. QED
    BY <1>1, <2>1, TablesKept DEF libraryVars, durable
<1>2. CASE LibraryNext
  BY <1>2, RequestInv, AcquiredInv, NotAcquiredInv, CachedInv, NotModifiedInv, ExistingInv,
     NewInv, ReadingInv, WorldInv, EndInv DEF LibraryNext
<1>3. QED
  BY <1>1, <1>2

LEMMA InvSuffices == LibraryInv => PagesAreKeptOnce
<1> SUFFICES ASSUME LibraryInv PROVE PagesAreKeptOnce
  OBVIOUS
<1> DEFINE ids == {v.artifact : v \in versions}
<1>1. \A a : Names(a) <=> a \in ids
  BY DEF Names
<1>2. \A k \in kept : k.artifact \in ids \cap policies
  BY <1>1 DEF LibraryInv, KeptHold
<1>3. registry \subseteq ids
  BY <1>1 DEF LibraryInv, RegistryHolds
<1>4. IsInjective(sent)
  BY DEF LibraryInv, SentHold, IsInjective
<1>5. QED
  BY <1>2, <1>3, <1>4 DEF PagesAreKeptOnce, LibraryInv, Distinct, Chained, KeptHold,
     SentHold, OutcomesHold

(* The same bytes are one version, versions form one chain with their      *)
(* bytes, a cache hit was on the page within the time to live, and nothing *)
(* is sent to OCR twice: application/sourcing.py, whatever interleaves.    *)
THEOREM KeptOnce == LibrarySpec => []PagesAreKeptOnce
<1>1. LibraryInit => LibraryInv
  BY InvInit
<1>2. LibraryInv /\ [LibraryNext]_libraryVars => LibraryInv'
  BY InvStep
<1>3. LibraryInv => PagesAreKeptOnce
  BY InvSuffices
<1>4. QED
  BY <1>1, <1>2, <1>3, PTL DEF LibrarySpec
=============================================================================

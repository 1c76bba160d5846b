--------------------------------- MODULE Desk ---------------------------------
(* The desk operations of the application service: theses, status             *)
(* capabilities, run snapshots and their retries, write-once registries and   *)
(* attributed overrides: application/service.py and                           *)
(* infrastructure/rule_overrides.py.  Every operation holds the service's     *)
(* lock.  All of it but the overrides is lost with the process.               *)
EXTENDS Integers, Sequences, SequencesExt, FiniteSets, Functions

CONSTANTS Applications, MaxAttempts,
          MaxCommands   \* bound on the commands of a behaviour

ASSUME AttemptsAssumption == MaxAttempts \in Nat \ {0}

VARIABLES
  theses,        \* revisions of the one thesis, the last one active
  capability,    \* by application
  runs,          \* by identifier, in the order they were made
  retryByParent,
  routes, audits, artifacts,   \* write-once, by identifier
  results,       \* deterministic rule results of the stored assessments
  overrides,     \* the durable audit stream
  revoked,       \* history: the applications revoked in this life
  answers,       \* history: what each retried run was answered
  commands       \* history: how many

volatile == <<theses, capability, runs, retryByParent, routes, audits, artifacts, results,
              revoked, answers>>
deskVars == <<volatile, overrides, commands>>

NoCapability == "none"
Empty == <<>>
DeskInit ==
  /\ theses = <<>> /\ runs = <<>> /\ routes = <<>> /\ overrides = <<>> /\ commands = 0
  /\ capability = [a \in Applications |-> NoCapability]
  /\ retryByParent = Empty /\ audits = Empty /\ artifacts = Empty
  /\ results = Empty /\ answers = Empty
  /\ revoked = {}

Command == commands < MaxCommands /\ commands' = commands + 1

(* A registry accepts what it does not hold or holds in the same form.        *)
Agrees(registry, id, record) == \A i \in DOMAIN registry : i = id => registry[i] = record
With(registry, id, record) == [i \in DOMAIN registry \cup {id} |-> IF i = id THEN record ELSE registry[i]]

-----------------------------------------------------------------------------
(* Theses.                                                                    *)
CreateThesis ==
  /\ Command
  /\ theses' = Append(theses, [thesis |-> IF theses = <<>> THEN 1 ELSE theses[1].thesis,
                               number |-> Len(theses) + 1])
  /\ UNCHANGED <<capability, runs, retryByParent, routes, audits, artifacts, results, overrides,
                 revoked, answers>>

-----------------------------------------------------------------------------
(* Status capabilities.  The bearer is derived from the application, so that  *)
(* a replay answers the same one without keeping it.                          *)
IssuedAnewBug(a) == "usable"

Issued(a) == IF capability[a] = NoCapability THEN "usable" ELSE capability[a]

RegisterApplication(a) ==
  /\ Command
  /\ capability' = [capability EXCEPT ![a] = Issued(a)]
  /\ UNCHANGED <<theses, runs, retryByParent, routes, audits, artifacts, results, overrides,
                 revoked, answers>>

RevokeFounderStatus(a) ==
  /\ Command
  /\ capability[a] # NoCapability
  /\ capability' = [capability EXCEPT ![a] = "revoked"]
  /\ revoked' = revoked \cup {a}
  /\ UNCHANGED <<theses, runs, retryByParent, routes, audits, artifacts, results, overrides, answers>>

Granted(a) == capability[a] = "usable"

-----------------------------------------------------------------------------
(* Runs.  An output is named by the run and the stage that made it.           *)
Stage(status, outputs) == [status |-> status, outputs |-> outputs]
Outputs(stages) == UNION {stages[i].outputs : i \in DOMAIN stages}
NewRun(kind, status, attempt, parent, stages, outputs, failures) ==
  [kind |-> kind, status |-> status, attempt |-> attempt, parent |-> parent, stages |-> stages,
   outputs |-> outputs, failures |-> failures]
NextId == Len(runs) + 1
Unlinked == 0

(* A failed run of any attempt, with or without outputs of an earlier stage.  *)
SeedFailedRun(attempt, outputs) ==
  /\ Command
  /\ runs' = Append(runs, NewRun("screening", IF outputs = {} THEN "failed" ELSE "partially_succeeded",
                                 attempt, IF attempt > 1 THEN -1 ELSE Unlinked,
                                 <<Stage("succeeded", outputs), Stage("failed", {})>>, outputs,
                                 {"retryable"}))
  /\ UNCHANGED <<theses, capability, retryByParent, routes, audits, artifacts, results, overrides,
                 revoked, answers>>

StartSourcing ==
  /\ Command
  /\ theses # <<>>
  /\ runs' = Append(runs, NewRun("sourcing", "succeeded", 1, Unlinked,
                                 [i \in 1..3 |-> Stage("succeeded", {})], {}, {}))
  /\ UNCHANGED <<theses, capability, retryByParent, routes, audits, artifacts, results, overrides,
                 revoked, answers>>

QueueSourcingRun ==
  /\ Command
  /\ theses # <<>>
  /\ runs' = Append(runs, NewRun("sourcing", "queued", 1, Unlinked,
                                 [i \in 1..2 |-> Stage("queued", {})], {}, {}))
  /\ UNCHANGED <<theses, capability, retryByParent, routes, audits, artifacts, results, overrides,
                 revoked, answers>>

(* What a coordinator may publish of its run.                                 *)
Snapshot(r, status, failure) ==
  LET found == {<<r, 1>>} IN
  [runs[r] EXCEPT
     !.status = status,
     !.stages = CASE status = "queued" -> [i \in 1..2 |-> Stage("queued", {})]
                  [] status = "running" -> <<Stage("succeeded", found), Stage("running", {})>>
                  [] status = "succeeded" -> <<Stage("succeeded", found), Stage("succeeded", {})>>
                  [] status = "partially_succeeded" -> <<Stage("succeeded", found), Stage("failed", {})>>
                  [] OTHER -> <<Stage("failed", {}), Stage("skipped", {})>>,
     !.outputs = IF status \in {"succeeded", "partially_succeeded"} THEN found ELSE {},
     !.failures = IF status \in {"partially_succeeded", "failed"} THEN {failure} ELSE {}]

Order == [queued |-> 0, running |-> 1, succeeded |-> 2, partially_succeeded |-> 2, failed |-> 2]

PublishSourcingRun(r, status, failure) ==
  LET run == Snapshot(r, status, failure) IN
  /\ Command
  /\ runs[r].kind = "sourcing" /\ Len(runs[r].stages) = 2
  /\ Order[run.status] >= Order[runs[r].status]
  /\ Order[runs[r].status] < 2 \/ run = runs[r]
  /\ runs' = [runs EXCEPT ![r] = run]
  /\ UNCHANGED <<theses, capability, retryByParent, routes, audits, artifacts, results, overrides,
                 revoked, answers>>

RetryableUnboundedBug(run) ==
  /\ run.status \in {"failed", "partially_succeeded"}
  /\ "permanent" \notin run.failures

Retryable(run) ==
  /\ run.status \in {"failed", "partially_succeeded"}
  /\ run.failures # {} /\ "permanent" \notin run.failures
  /\ run.attempt + 1 <= MaxAttempts
  /\ \E i \in DOMAIN run.stages : run.stages[i].status = "failed"
  /\ \A i \in DOMAIN run.stages : run.stages[i].status \in {"succeeded", "skipped", "failed"}

ResumedEmptyBug(run, id) ==
  [i \in DOMAIN run.stages |-> IF run.stages[i].status = "failed" THEN Stage("succeeded", {<<id, i>>})
                               ELSE Stage("skipped", {})]

(* Finished stages are skipped and keep their outputs; a failed one is given  *)
(* an output.                                                                 *)
Resumed(run, id) ==
  [i \in DOMAIN run.stages |-> IF run.stages[i].status = "failed" THEN Stage("succeeded", {<<id, i>>})
                               ELSE Stage("skipped", run.stages[i].outputs)]

Answered(p, r) ==
  With(answers, p, (IF p \in DOMAIN answers THEN answers[p] ELSE {}) \cup {r})

RetryRunForgetsBug(p) ==
  /\ Command
  /\ Retryable(runs[p])
  /\ LET stages == Resumed(runs[p], NextId) IN
       runs' = Append(runs, NewRun(runs[p].kind, "succeeded", runs[p].attempt + 1, p, stages,
                                   runs[p].outputs \cup Outputs(stages), {}))
  /\ retryByParent' = With(retryByParent, p, NextId)
  /\ answers' = Answered(p, NextId)
  /\ UNCHANGED <<theses, capability, routes, audits, artifacts, results, overrides, revoked>>

RetryRun(p) ==
  /\ Command
  /\ \/ /\ p \in DOMAIN retryByParent
        /\ answers' = Answered(p, retryByParent[p])
        /\ UNCHANGED <<runs, retryByParent>>
     \/ /\ p \notin DOMAIN retryByParent
        /\ Retryable(runs[p])
        /\ LET stages == Resumed(runs[p], NextId) IN
             runs' = Append(runs, NewRun(runs[p].kind, "succeeded", runs[p].attempt + 1, p, stages,
                                         runs[p].outputs \cup Outputs(stages), {}))
        /\ retryByParent' = With(retryByParent, p, NextId)
        /\ answers' = Answered(p, NextId)
  /\ UNCHANGED <<theses, capability, routes, audits, artifacts, results, overrides, revoked>>

-----------------------------------------------------------------------------
(* Registries.                                                                *)
RegisterSourceArtifact(id, descriptor) ==
  /\ Command
  /\ Agrees(artifacts, id, descriptor)
  /\ artifacts' = With(artifacts, id, descriptor)
  /\ UNCHANGED <<theses, capability, runs, retryByParent, routes, audits, results, overrides,
                 revoked, answers>>

RouteFits(known, route) == \A i \in DOMAIN known : known[i].id = route.id => known[i] = route
Merge(known, route) == IF route \in Range(known) THEN known ELSE Append(known, route)
Merged(known, batch) == FoldLeft(Merge, known, batch)

(* One conflicting route refuses the whole batch, within the batch too.       *)
PublishCandidatePublicContacts(batch) ==
  /\ Command
  /\ \A i \in DOMAIN batch : /\ RouteFits(routes, batch[i])
                             /\ RouteFits(SubSeq(batch, 1, i - 1), batch[i])
  /\ routes' = Merged(routes, batch)
  /\ UNCHANGED <<theses, capability, runs, retryByParent, audits, artifacts, results, overrides,
                 revoked, answers>>

PublishCandidateSourcingAuditLatestBug(r, audit) ==
  /\ Command
  /\ runs[r].kind = "sourcing"
  /\ audits' = With(audits, r, audit)
  /\ UNCHANGED <<theses, capability, runs, retryByParent, routes, artifacts, results, overrides,
                 revoked, answers>>

PublishCandidateSourcingAudit(r, audit) ==
  /\ Command
  /\ runs[r].kind = "sourcing"
  /\ Agrees(audits, r, audit)
  /\ audits' = With(audits, r, audit)
  /\ UNCHANGED <<theses, capability, runs, retryByParent, routes, artifacts, results, overrides,
                 revoked, answers>>

-----------------------------------------------------------------------------
(* Rule results of an assessment, one for each criterion of the active        *)
(* thesis, and their overrides.                                               *)
StoreAssessment(outcome) ==
  /\ Command
  /\ theses # <<>>
  /\ results' = With(results, commands, outcome)
  /\ UNCHANGED <<theses, capability, runs, retryByParent, routes, audits, artifacts, overrides,
                 revoked, answers>>

RecordRuleOverride(id, result, replacement) ==
  /\ Command
  /\ result \in DOMAIN results
  /\ \A i \in DOMAIN overrides : overrides[i].id # id
  /\ overrides' = Append(overrides, [id |-> id, result |-> result, original |-> results[result],
                                     replacement |-> replacement])
  /\ UNCHANGED volatile

(* The process ends and another begins: only the audit stream survives.       *)
Restart ==
  /\ Command
  /\ theses' = <<>> /\ runs' = <<>> /\ routes' = <<>>
  /\ capability' = [a \in Applications |-> NoCapability]
  /\ retryByParent' = Empty /\ audits' = Empty /\ artifacts' = Empty
  /\ results' = Empty /\ answers' = Empty
  /\ revoked' = {}
  /\ UNCHANGED overrides

DeskNext ==
  \/ CreateThesis \/ StartSourcing \/ QueueSourcingRun \/ Restart
  \/ \E a \in Applications : RegisterApplication(a) \/ RevokeFounderStatus(a)
  \/ \E attempt \in 1..MaxAttempts, outputs \in {{}, {<<0, 0>>}} : SeedFailedRun(attempt, outputs)
  \/ \E r \in DOMAIN runs :
       \/ RetryRun(r)
       \/ \E status \in DOMAIN Order, failure \in {"retryable", "permanent"} :
            PublishSourcingRun(r, status, failure)
       \/ \E audit \in {"x", "y"} : PublishCandidateSourcingAudit(r, audit)
  \/ \E id \in {"x"}, d \in {1, 2} : RegisterSourceArtifact(id, d)
  \/ \E first, second \in [id : {"x", "y"}, source : {1, 2}] :
       PublishCandidatePublicContacts(<<first, second>>)
  \/ \E outcome \in {"indeterminate", "not_evaluated"} : StoreAssessment(outcome)
  \/ \E id \in {"x", "y"}, result \in DOMAIN results : RecordRuleOverride(id, result, "pass")

-----------------------------------------------------------------------------
(* A retry belongs to one failed run that nothing else retries, is within the *)
(* attempts allowed, loses no output its parent had accepted, and every       *)
(* request to retry that run is answered with it; a run keeps every output of *)
(* its stages; and no application whose capability was revoked can be read    *)
(* with it again in this life of the process, replayed or not.                *)
RetriesAreBounded ==
  /\ \A r \in DOMAIN runs :
       LET run == runs[r] IN
       /\ run.attempt <= MaxAttempts
       /\ run.status # "running" => Outputs(run.stages) \subseteq run.outputs
       /\ run.parent > 0 =>
            LET parent == runs[run.parent] IN
            /\ parent.status \in {"failed", "partially_succeeded"}
            /\ parent.outputs \subseteq Outputs(run.stages)
            /\ run.attempt = parent.attempt + 1
            /\ \A i \in DOMAIN run.stages :
                 run.stages[i].status = "succeeded" <=> parent.stages[i].status = "failed"
            /\ answers[run.parent] = {r}
  /\ \A a \in revoked : ~Granted(a)

Extends(after, before) ==
  \A id \in DOMAIN before : id \in DOMAIN after /\ after[id] = before[id]

(* While the process lives, nothing that was published is replaced or lost: a *)
(* thesis revision, a finished run, a route's provenance, an audit, an        *)
(* artifact's metadata, a rule result that was overridden; and the overrides  *)
(* outlive it, each under its own identifier with the outcome it replaced.    *)
DeskNeverRewrites ==
  [][/\ IsPrefix(overrides, overrides')
     /\ \/ /\ IsPrefix(theses, theses')
           /\ IsPrefix(routes, routes')
           /\ \A i, j \in DOMAIN routes' : routes'[i].id = routes'[j].id => i = j
           /\ \A r \in DOMAIN runs : r \in DOMAIN runs' /\ (Order[runs[r].status] = 2 => runs'[r] = runs[r])
           /\ Extends(audits', audits) /\ Extends(artifacts', artifacts) /\ Extends(results', results)
           /\ revoked \subseteq revoked'
        \/ runs' = <<>> /\ theses' = <<>> /\ revoked' = {}]_deskVars
=============================================================================

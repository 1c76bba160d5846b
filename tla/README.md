# FounderLookup verification

TLA+ models of the FounderLookup backend (`src/backend/src/founderlookup`), the
TLC runs that check them and the TLAPS proofs about them.  FounderLookup takes
in pitch decks (inbound), looks for founders in public sources (outbound),
screens each Opportunity with deterministic rules and an optional graph of live
analyses, and leaves the Decision to a human investor.

The backend is one Python process: FastAPI handlers and background tasks on one
event loop, one service object whose state lives in memory behind an `RLock`,
and SQLite files and an artifact directory that outlive it.  What is hard about
it is what happens around the awaits and around a restart: a submission checked
before an upload and registered after it, a screening prepared when queued and
published when the graph answers, an extraction that several replays want, three
durable writes in a row that may break off after any of them.  Those are what the
modules are about.

Paths below are relative to `src/backend/src/founderlookup`.

## Inventory

| Component | State | Operations | Talks to | What makes it correct |
|---|---|---|---|---|
| Application intake: `ingestion/intake.py`, `infrastructure/intake_repository.py`, `infrastructure/artifacts.py` | SQLite tables of entities, idempotency keys and revisions; one file per artifact | submit, import a focused artifact, extract a deck, record an attempt | the submission handler, extraction tasks | a request has one application for ever, an answer is durable, replays repeat it, histories only grow, racing extractions agree |
| Deck extraction: `runtime.py`, `application/deck_evidence.py`, `infrastructure/deck_evidence.py`, part of `application/service.py` | events of claimed applications, runs, projections (process); extraction and observations (durable) | schedule, coalesce, extract, persist, project, fail | intake, OCR provider, Memory, Opportunities | one extraction at a time, what is shown is durable, a success stays, a queued run ends |
| Outbound candidates: `application/service.py`, the end of `application/sourcing.py`, the handler in `api/app.py` | candidates, their status, assessments, both maps of links, Opportunities | seed, assess, activate, record outreach, submit through a link, register | sourcing runs, investor, intake | a link takes one Application, its records agree, the workflow moves only as commanded |
| Screening and Decisions: `application/service.py`, `application/live_screening.py`, `infrastructure/live_screening.py` | runs, prepared fallbacks, assessments, Decisions, case, founder status (process); stored assessments (durable) | queue, run, accept, fail, start at once, decide | the graph, deck projections, Memory | every run has one assessment, case and founder status follow the history, an Advance rests on readiness |
| Inbound intelligence graph: `screening/inbound_graph.py` | budget of calls, node results, audit | three reads side by side, validation, memo; fallbacks, timeouts | live analyses | the budget is exact, an answer is whole, it ends |
| Sourcing run: `application/sourcing.py`, `publish_sourcing_run` in `application/service.py` | round, budgets, evidence, failures, run status; snapshots in Memory | discover, acquire, assess gaps, stop, publish | source adapters, candidates, Memory | budgets hold, the stop reason is true, the outcome hides no failure, it ends |
| Pipeline runs: `application/service.py` (`retry_run`, `publish_sourcing_run`) | runs and their attempts | publish, retry with a linked attempt | all run owners | a retry preserves accepted outputs, attempts are bounded, a finished run does not change |
| Pages and durable Memory: the acquisition half of `application/sourcing.py`, `infrastructure/persistence.py` | append-only SQLite records, artifacts (durable), registry (process) | look into the cache, acquire, keep, send a deck to OCR | sourcing runs, adapters, OCR | the same bytes are one version, a row has its bytes, a deck reaches OCR once |
| Rate limiting: `api/security.py` | recent calls per client | admit or refuse | public routes | never more than the limit in a window, Retry-After suffices |
| Founder status capabilities, theses, registries, rule overrides: `application/service.py`, `infrastructure/rule_overrides.py` | tokens; revisions; descriptors, contacts, audits; a durable ledger | issue, replay, revoke; append; publish | service | revoked stays revoked, what was published is not replaced |
| Query planners and executor: `screening/query_planner.py`, `ingestion/query_planner.py`, `screening/query_executor.py` | none | compile text to criteria and retrievals; filter and order | service, sourcing | nothing said is lost or invented, nothing unknown is held against anyone |
| Ratings and verdicts: `screening/axes.py`, `rubrics.py`, `confidence.py`, `founder_reads.py`, `preliminary.py`, `evaluation.py`, `application/screening_bridge.py` | none | pure functions | service | absence condemns nobody, orders do not matter, scores keep their bounds |
| Deck claims and model answers: `application/deck_evidence.py`, `screening/live_analyses.py`, `inbound_analysis.py` | none | project a deck, check an answer | extraction, graph | everything said has its grounds |
| Adapters, OCR, page extraction, identity: `ingestion/` | ledger of links | discover, acquire, extract, resolve | providers | what leaves is allowed, what comes back is proved, failures are told |
| Hackathon parsing, HTTP surface, demo bootstrap, frontend | none that outlives a call, or wiring only | I/O, formats | everything | tested against their formats |

`PROJECT.json` lists every component with its status, and every hazard found
with its line.

## Modules

| Module | Models | Checked by | Proved in |
|---|---|---|---|
| `IdempotentIntake` | abstract promise of intake to its clients | `intake_loop` (refined by `Intake`) | `Intake_proofs` |
| `Intake` | intake repository, artifact store, intake service | `intake_threads`, `intake_loop`, `intake_unlink` | `Intake_proofs` |
| `OutboundCandidates` | candidates, links, submission handler | `outbound_candidates`, `outbound_replay` | `OutboundCandidates_proofs` |
| `Screening` | live screening, Decisions, case, founder status | `screening`, `screening_order` | `Screening_proofs` |
| `InboundGraph` | one run of the graph | `graph` | `InboundGraph_proofs` |
| `DeckExtraction` | extraction tasks, projection, restarts | `extraction`, `extraction_replay` | `DeckExtraction_proofs` |
| `SourcingRun` | one sourcing run | `sourcing` | `SourcingRun_proofs` |
| `PageLibrary` | cache, versions and OCR of a page that several runs acquire | `rules` | `Service_proofs` |
| `Desk` | theses, capabilities, runs and retries, registries, overrides | `rules` | `Service_proofs` |
| `RateLimiter` | the throttle of the public routes | `rules` | `Service_proofs` |
| `QueryPlans`, `SourcePlanner`, `QueryExecutor` | the two planners and the executor | `rules`, cases of `QueryCases` | `Rules_proofs` (the executor) |
| `ScoreRubrics`, `ConfidenceBand`, `Conviction`, `ScreeningBridge` | ratings, scores, verdicts and their evaluation | `rules`, cases of `AssessmentCases` | `Rules_proofs` (of the evaluation, the rank agreement) |
| `DeckEvidence`, `LiveAnalyses` | claims of a deck, answers of a model | `rules`, cases of `EvidenceCases` | `Rules_proofs` (the projection and the answers, not the parsing of a deck) |
| `OcrClient`, `Identity`, `PageExtraction` | the OCR client, identities and links, page extraction | `rules`, cases of `BoundaryCases` | `Rules_proofs` (the OCR client, the identities and the ledger) |
| `GitHubSource`, `TavilySource`, `KeylessSource` | the source adapters | `rules`, cases of `SourceCases` | |

`MC*` modules give the constants small values.  The modules name each other
where they meet: the durable intake behind `OutboundCandidates` is one atomic
step because `Intake` refines `IdempotentIntake` on one event loop; the accepted
extractions of `DeckExtraction` are the settled decks of that promise; the graph
behind `Screening` answers or fails because `InboundGraph` ends; what a
`SourcingRun` does to candidates is `Find` and `FinishSourcing` of
`OutboundCandidates`, and what it acquires is kept by `PageLibrary`.
`DeckEvidence` makes the claims of `ScoreRubrics`, and its cases put them to the
snapshot of `LiveAnalyses`, as the service does; `ScreeningBridge` composes the
rubrics, reads, bands and verdicts.

Definitions whose names end in `Bug` are not part of a specification.  Each is a
plausible slip in the definition that follows it (a dropped guard, a swapped
order, a missing reset), kept to show that a property notices it.

### Intake

`entity`, `keyRow` and `history` are the tables `intake_entities`,
`intake_idempotency_keys` and `intake_revisions`; `blob` is the artifact
directory.  `Reserve` is `_reserve()`, one transaction, by key, by fingerprint or
new.  `LinkBlob`, `ConfirmBlob` and `SubmitError` are `put()`: link the file,
meet the same bytes there, fail before or after the link and clean up, if the
clean-up does not fail in its turn.
`MarkStored` is the second transaction and `AnswerClient` the answer;
`ReturnAccepted`, `StartExtraction`, `FinishExtraction`, `FailExtraction` and
`ExtractionError` (what the extractor said cannot be recorded) are `extract_deck()`
around its await.  `Crash` ends the process between any two
steps; what is durable stays.  With `Parallel = FALSE` a submission's steps run
without interruption (they contain no await), with `TRUE` callers are threads or
processes.  `TablesAgree`, `AcceptedIsDurable`, `CreatedOnce`,
`HistoryMovesForward` and `ExtractionsAgree` hold for threads too;
`StoredHasBytes` and `ImplementsPromise` are about the event loop, because of the
finding of `intake_unlink`.

A crash is the death of the process: losing power between an `fsync` and a rename
is not modelled.  Hash checks, symlink and permission checks and the temporary
file are one outcome, success or failure.  Requests that fail validation never
reach the repository and are not members of `Requests`.

### OutboundCandidates

`status` is the candidate's workflow, `linkOf` and `candidateOf` the two maps of
links, `origin` the Opportunity's origin.  `BeginSubmit` is what the handler does
before it awaits the upload, `FinishSubmit` all that follows: durable intake, then
`register_application()` with its second check (`Registrable`).
`FinishSourcing` is the end of a sourcing run, which assesses what it found rounds
earlier, each candidate failing on its own.  `StartPreliminaryAssessment`,
`Activate` and `RecordOutreach` are the investor's.  One life of the process is
modelled since nothing here outlives it.

### Screening

`prepared` is the fallback and `task` the background task of a live run;
`assessments` the history, in order of acceptance; `clock` dates memos.
`StartScreening` is the immediate path (no live graph, or the demo seed),
`QueueLiveScreening`, `MarkRunning`, `AcceptLiveScreening` and
`AcceptLiveScreeningFailure` the live one, `Cancel` the loss of its task,
`AcceptDeck` the acceptance of the deck's projection, `RecordDecision` the
investor.  `Supported` names the projections that leave no readiness blocker;
today's rules block every one of them (there are always required inputs missing), and
the model keeps the general case, which the code also handles.  A late result that
reopens a decided case is the code's documented rerun and not an error; the
properties say that case and founder status then tell so.  A cancelled screening
leaves its run running for ever, as `QueuedRunEnds` says.

### InboundGraph

`node` is what each of the five stages is doing, `audit` how it ended, `used` the
budget.  `Claim` takes a call and starts, `Answer`, `AnswerUnusably` and
`StageTimesOut` end a stage, `Finish` the graph; `TimesOut` is the total timeout,
after which every stage is the fallback's.  Time is discrete and passes only while
the loop has nothing to run (`Tick`); a deadline and an answer at the same instant
may be seen in either order.

### DeckExtraction

`inflight` is the coordinator's claim (an event per application), `task` what each
background task waits for.  `Submit` schedules, `Wait`, `Start` and `Resume` claim
or coalesce, `Finish` and `ExtractionFails` end the await, with persistence and
projection, `StartFails` and `Cancel` break off, `Crash` begins the next `life`
with an empty process.  Opportunity identifiers are random per process, so a life
stands for the Opportunity its replay registers.

### SourcingRun

`search` holds the bounds of the command, `now` the round under way.  One action
per stage: `Discover`, `AcquirePrimary`, `AcquireDecks`, `AssessGaps`, `Finish`;
`StopReason` has the six reasons in the code's order, `RoundPages` the share of
pages of a hackathon round, `Publish` the status in the process and in Memory,
`Break` a storage error outside the answered ones.  Leads, pages and evidence are
counts and keys.

### PageLibrary

One page that several runs acquire.  `Request` looks into the cache
(`CachedArtifact`), `Acquired` is the adapter's answer, `AcceptCached`,
`AcceptExisting` and `AcceptNew` keep what came; `AcceptNotModified` is an answer
that the page has not changed, and its acceptance in one step, since it carries
nothing (no adapter of the repository gives it yet).  They read the page's history
anew (`History`) and write bytes, version, registry and policy in this order, each
of which may fail (`Reaches`).  `FinishReading` is OCR's answer.  `WebChanges`,
`TimePasses` and `ProcessEnds` happen at any time: Memory and the artifact store
stay, the registry and the calls do not.

### Desk and RateLimiter

`Desk` has one action per operation of the service under its lock that the other
modules leave out; `Restart` loses all but the overrides.  `RateLimiter.Check` is
one step, as the handlers run on one event loop and `check()` awaits nothing; time
is in halves of a second because Retry-After is in whole ones.

### Pure rules and their cases

A rule is an operator over abstracted data.  The case modules are machines of one step:
a *case* is picked from a bounded family, and the invariant relates the rule's
answers on it and on its neighbours (one signal more, one criterion more, the
reverse order, what is known made unknown).  A rule is so checked against
what it promises and not against a copy of itself.

## Runs

| Run | Question | Bounds and why they are enough |
|---|---|---|
| `intake_threads` | Are the tables, answers and histories right whatever threads, crashes and errors do? | Two of each: keys, requests, applications, submitters, extractors, results.  A conflict needs two keys for a request or two requests for a key, a race two calls; `MaxFailures = 1` failed attempt lets a failure precede and follow another attempt.  `TablesAgree` and `AcceptedIsDurable` are proved for all sizes. |
| `intake_loop` | Does intake keep its promise on one event loop, and is a replaying client answered? | One submitter stands for all, as none overlap; an application and a focused artifact with a key each and a spare one; two extractors that race across the await. |
| `intake_unlink` | Do answered bytes stay with two threads?  They do not. | Two submitters of one request. |
| `outbound_candidates` | Does a link take one Application and do its records agree? | One candidate (they share nothing), two decks, two submissions that race, two runs that assess. |
| `outbound_replay` | Can an accepted submission be replayed?  Not after a reassessment. | The same. |
| `screening` | Do history, case, founder status and memory agree, and does a queued run end? | Two overlapping screenings, two projections with and without blockers, two Decisions (before and after a late result). |
| `screening_order` | Is the latest memo the newest?  It is not. | Two screenings. |
| `graph` | Is the budget exact, the answer whole, and does the graph end? | Two limits: a budget for the reads only with no more time than a stage, and the default proportions (30 s and 100 s: total > 3 x stage) with a call for every stage. |
| `extraction` | Do tasks coalesce, does success stay, does a queued run end? | Three tasks so that one works, one waits and one comes late; two applications, one whose records are the company's only; three lives; two failures. |
| `extraction_replay` | Does a replay resume after a restart?  Not the projection. | Two lives. |
| `sourcing` | Do budgets, stop reasons, outcome and snapshots hold, and does a run end? | Two searches: calls for two rounds and a half, and hackathon pages that do not divide among the rounds; two evidence keys, so that a round may bring nothing, something or all. |
| `rules` | Are the pure rules fair and grounded, is what crosses the boundary guarded, do desk, throttle and pages hold? | Queries of three tokens and requests of two clauses (a denial, a range, a modifier and what they meet); three signals (net sums on both sides of every threshold); two pages of three lines (two labels can disagree in either order); two claims and their contradiction; four identity signals (a chain); settings, reports and model cards over six names (the latest pointer, the bare alias of the family, two numbered versions of it, one of an earlier family and a stranger), cards that list up to three of them, a version perhaps twice; every answer of the adapters to two queries; five commands at the desk (thesis, run, failure, retry, retry again); a window of two admissions over six halves of a second; three requests of a page by two calls, two contents and a time to live of one. |

The runs' properties that cover several rules (`QueriesAreFair`,
`AssessmentsAreFair`, `EvidenceIsGrounded`, `BoundaryIsGuarded`) are conjunctions or
a `CASE` over the kind of case; each conjunct has a definition and a comment of its
own next to its cases.  The machines of `rules` share no state, so each moves while
the others are at rest, which loses no behaviour of any of them.

`CHECK_DEADLOCK FALSE` is given where the modelled thing really rests: a graph or
a sourcing run that ended, an Opportunity whose bounded runs and Decisions are
used up, a case that was picked.  `MaxFailures`, `MaxLives`, `MaxDecisions`,
`MaxCommands`, `MaxTime`, `MaxClock` and `MaxRequests` are the bounds on counters;
each is a guard of the action it bounds.

### What the violated runs show

- `intake_unlink`: `put()` unlinks its target when anything fails after the link,
  also when another submission has found those bytes there and was answered.  It
  needs two threads or processes; on one event loop theorem `BytesHeld` excludes it.
- `outbound_replay`: a preliminary assessment moves an applied candidate back,
  after which the founder's replay of the accepted submission is refused.
- `screening_order`: a live screening that fails after a later one was accepted
  publishes the fallback of its queueing as the latest memo.
- `extraction_replay`: Memory's observations carry the Opportunity of the process
  that wrote them; the replay after a restart projects them for another one and
  is refused as a conflict.

### Met while modelling

Disagreements and limits that no run of their own is about; the modules keep the code's
behaviour.

- The model that OCR reports is recorded as it is unless it is
  `mistral-ocr-latest`: any name that begins with `mistral-ocr-4` will do, the bare
  alias too.  `backend/README.md:250-252` says that every stored result preserves
  a concrete model; that is so when the latest pointer is echoed and its card asked, or
  when the provider reports a version.  `OcrIsBounded` claims a numbered version in the
  first case only.
- Tavily's results that are no object or have no string for a url are passed over: a
  reply of nothing else is a success without leads or failures.
- A deck with conflicting labels makes its claims unresolved, but the snapshot of
  `live_analyses.py` wants the claims of a contradiction contradicted: preparing a
  live screening of such a deck raises.  `DeckIsGrounded` says that it is exactly the
  contradictions that do this.
- The sourcing planner takes negation words for stop words, so that "not in Berlin"
  becomes the hard constraint Berlin, and "without fintech or crypto" excludes the one
  and requires the other.  The screening planner marks executable-looking text
  and may still make a criterion of a phrase inside it.
- A deck's OCR is attempted only when its artifact is new: after a failure that is
  marked retryable, a storage error after the version was written, or a
  restart, no later run reads it.  A page that returns to an earlier content keeps
  that version's time and the cache goes on with the newest number, so it is
  acquired again every time.
- Versions are numbered in the order they are kept, which need not be the order
  they were retrieved in.
- A restart revives a revoked status capability: the bearer is derived from the
  application and the revocation lives in the process.
- A retry makes up the output of the stage that failed.
- Two contacts of a page that normalise to one address on one line share an
  identifier; with different labels the whole batch is refused.
- Hacker News, OpenAlex and Semantic Scholar report success without leads on a
  payload that is not a list; GitHub passes over a later query once the leads are
  full, and its lead identifiers may coincide (`a-b/c` and `a/b-c`).  Tavily's
  acquisition applies the policy's domains and not the request's exclusions.
- A rate limit is computed from a clock read before the lock; on one event loop
  this makes no difference.

## Fairness

- `Intake`: a client replays a request until it is answered (strong fairness of a
  reservation under a key that has a row: a retry is enabled again and again but
  not all the time); a call that has begun runs (weak fairness); crashes and storage errors
  do not go on for ever.  Nothing is assumed of extractions.
- `Screening`: the event loop runs its tasks, and the graph answers or fails,
  which is `GraphEnds`.  Cancellation is allowed at any time.
- `InboundGraph`: handlers run and time passes.  Nothing is assumed of the
  provider, which may never answer.
- `DeckExtraction`: the loop runs its tasks, the OCR provider answers or fails (its
  client has a timeout), the client replays (strong fairness, since a restart or a
  busy task may interrupt it).  Crashes and failures are bounded by the run.
- `SourcingRun`: adapters answer or fail within their timeouts.  `Break` is never
  required and never excluded.
- `Desk`, `RateLimiter`, `PageLibrary` and the cases promise nothing that must
  happen: no fairness.

## Proofs

Every safety property of the stateful modules that a run checks is also a theorem
(but type invariants that are conjuncts of a larger invariant have none of their
own), for every value of the constants that the named assumptions allow.  What the
assumptions say is what the code guarantees: limits and counters are natural
numbers (positive where settings demand it), and `None` is none of the values it
stands beside.

### Intake

`Intake_proofs`, from `IntakeAssumption` and for any keys, requests,
applications, callers and results:

- `Typing`, `Idempotent` (`TablesAgree`) and `Durable` (`AcceptedIsDurable`).
  None of them is inductive alone: rewriting the latest revision needs one to be there,
  and an answer is only as good as the call that gives it.  The invariant
  `TablesInv` adds `CallsBound` (a call in progress holds the identifiers its key
  is bound to, and reaches its answer over a stored deck) and
  `ExtractsStoredDecks`.  One lemma for appending a revision (`Revise`), one for
  steps that leave the tables alone (`TablesKept`), then one per action.
- `BytesHeld` (`StoredHasBytes`): on one event loop a record marked stored has its
  bytes.  `LoopInv` says that one submission is under way at a time, that its file
  is there from the link on, and that while it may still unlink a file it created no
  record relies on that file.
- `OneCreator` (`CreatedOnce`): whoever is told that it created an application was
  the one to reserve it.
- `OnlyForward` (`HistoryMovesForward`), from `HistoryHolds`: every later record
  follows every earlier one (`Follows`, a transitive relation), and the attempts of
  the latest account for its extraction, which is what appending to it needs.
- `OneExtraction` (`ExtractionsAgree`): what a caller was answered is on record,
  and what is on record stays.
- `KeepsPromise`: `Spec => ImplementsPromise` when `~Parallel`, the refinement
  of `IdempotentIntake`.  Initial states map to initial states; `Reserve` maps to
  the promise's acceptance or to a stutter, the durable mark to its holding, answers
  and extractions to its own, and links, errors and crashes to stutters.
  `LoopInv` is needed where the mapping reads the bytes.  It is stated for one event
  loop because `intake_unlink` refutes it for threads.

### Outbound candidates

`OutboundCandidates_proofs`, from `CandidatesAssumption`, for any candidates,
decks, submissions and sourcing runs: `Typing`, `LinksConsistent`, `OnePerLink`,
`OnlyLinkedRefused`, `FilledWhileInvited` and `StatusCommanded`.  The invariant
`LinksInv` ties the answers to the origins (`AnsweredAreRegistered`: an
application is answered exactly when it has an origin, the one its company
implies), from which an application without origin is on no link
(`FreshIsUnlinked`) and a direct one is never refused.

### Screening and Decisions

`Screening_proofs`, from `ScreeningAssumption`, for any number of runs, decks and
Decisions: `RunsAlways`, `CaseAlways` and `AdvanceAlways`.  What the three lack
is where each run stands: `TasksHoldRuns` ties a task's progress to its run's status
and its prepared fallback to the run it was prepared for, and
`ReviewedWasAccepted` keeps Decisions to assessments that were there.  Then an
acceptance appends one assessment of a run that had none, which is all
`RunsMatchHistory` needs; and every action that appends an assessment or a Decision
sets case and founder status together with it.

### Inbound graph

`InboundGraph_proofs`, from `LimitsAssumption` and `NoneAssumption`, for every
set of limits: `BudgetAlways`, `AnswersWhole` and `NeverCutOff`.

- The budget: `used` is the number of stages ever called (`Called`).  The edges
  (`EdgesHold`) bound how many can have been called before a stage is refused:
  a read follows at most two others, the validation the three reads, the memo all
  four; hence a refusal means a budget below that (`BudgetHolds`).
- The time: `TimeHolds`.  Time passes only while some stage is called and not overdue,
  so a level of the graph begins at most one stage timeout after the one before;
  three levels make the factor 3 of `StageTimeoutsSuffice`.

### Deck extraction

`DeckExtraction_proofs`, from `ExtractionAssumption`, for any applications and
tasks and any bounds on lives and failures: `ClaimsAlways`, `ShownAlways` and the
action property `SuccessKept`.  The missing fact is `WorkIsRegistered`: a task works
only for an application that this life of the process has registered.

### Sourcing run

`SourcingRun_proofs`, from `BudgetAssumption` (searches within the command's
bounds, finitely many evidence keys), for every such search:
`StopAlwaysExplained`, `PagesAlwaysLast`, `OutcomeAlwaysHonest` and
`SnapshotsAlwaysFollow`.  The four are tied together by where the task is: which
budgets are still open there, whether the loop has stopped (`StopHolds`), what has
been published (`PublishHolds`).  `ShareHolds` is the argument about pages: the
rounded share of a round leaves a page for each round after it, and decks use no
more than what the round was allowed and did not acquire.

### Pages

`Service_proofs`, from `LibraryAssumption` (there is something to show, and the
time to live is a natural number), for any calls, contents, restarts and storage
errors: `KeptOnce`, that `PagesAreKeptOnce` always holds.  It is not inductive alone.
`LibraryInv` adds what a waiting call holds, since it will be written later
(`CallsHold`: a cached version was retrieved within the time to live, an answer was
on the page when it came, and a deck is read by one call only and before it has an
outcome); that one version has the greatest number, since the next is counted from
it (`Chained`); and that the page shows now what it shows (`ShownHolds`).

### Desk and throttle

`Service_proofs`, each machine of its own next-state relation, as they share nothing:

- `RetriesStayBounded` (`RetriesAreBounded`), from `AttemptsAssumption`.
  `RunsInv` says that the table of retries is one to one between runs and their
  retries and is what was answered, and that outputs of a run that did not succeed
  come from stages that did not fail, which is why making up the failed
  stages loses nothing.  `StatusInv` is about revoked capabilities.
- `NothingIsRewritten`, the action property `DeskNeverRewrites`, from `KeptInv`:
  routes are unique by identifier and rule results are kept under the numbers of past
  commands, so a new one meets none.  A batch of contacts is a fold over a
  sequence of one or two routes, which `PairFold` unfolds.
- `ThrottleIsExact` (`LimiterIsExact`), from `LimiterAssumption`, for every limit
  and window.  `LimiterInv` says of a bucket that it is the end of the admissions,
  which are in order: those before it are at least a window old and those in it are
  not, so dropping from the front forgets nothing that still counts (`BucketHolds`),
  and no window holds more than the limit (`AdmitsWithin`).  A refusal happens at a full
  bucket, whose first event is the one that has to leave the window: the wait told
  is the least number of whole seconds after which it has (`RefusedRightly`).

### Pure rules, proved

`Rules_proofs`, with no assumption on any constant.  A run enumerates a bounded
family of cases of each kind; the theorems are about every case of a kind, and their
hypotheses are what the code's own types and validators guarantee of a case.

- `AssessmentsHold` (`AssessmentsAreFair`), of eight kinds of case: axes of any number
  of signals, trends of any points in time, claims (`trust`), founder scores of any
  observations, confidence bands around any number of samples, verdicts
  (`conviction`), the reads of a founder's observations, and bundles of the bridge.
- `AnswersAreGrounded` (`EvidenceIsGrounded`), of the two kinds of a model's answer, on
  an axis and for a memo, whatever was answered.  The snapshot is one that the
  code accepts (`SnapshotHolds`), which it validates before it asks.
- `TransfersAndLinksAreGuarded` (`BoundaryIsGuarded`), of the OCR client, for all
  settings that validation admits (`SettingsHold`), documents, answers and model cards,
  over any model names: what the code reads off a name is its prefix and whether it
  has the form of a numbered version, and the two are independent; of the ledger of links after
  commands of any number; and of the identities of one or more signals, of whatever
  kinds, values, records and categories (`SignalsOf`).
- `AnswersToQueriesAreFair` (`QueriesAreFair`), of the executor, for any number of
  records with distinct identifiers (`RecordsHold`), any limit and any two criteria
  that a plan may hold (`CriterionHolds`).
- On their own, more general than a case: `LedgerIsExact` (along every history, a
  reversal is the only one of an earlier approval of its pair),
  `IgnoranceExcludesNobody` and `ConstraintsOnlyNarrow` (criteria of any number and
  order), `VerdictsAreCautious` (a closing verdict needs everything known),
  `AgreementIsExact` (rankings of any length, tied or not, are compared pair by pair,
  each pair once, and tau stays within its bounds), and
  `DeckClaimsAreGrounded`: whatever assertions were read off a deck, provided that a
  line asserts one thing (`AssertionsHold`), its claims have their grounds and its
  conflicts are told.

They rest on four groups of lemmas.  Scores are sums that the community modules define by
folding over a set in an order of its own: `NumberInduction` and `SubsetInduction`
derive induction over numbers and over the subsets of a finite set from the
library's well-foundedness of inclusion (as sets, since a theorem with an operator
for a parameter cannot be used), and from them come the laws that a sum does not
depend on the order, that it grows with its terms and that it is bounded by
them.  `RankingIsExact` says that ranks counted by an order are a bijection, so that
a limit takes the best.  `LedgerReverses` carries the ledger's invariant along a
sequence of commands.  `JoinAllIs` says that joining clusters group by group, in
whatever order, gives the classes of the least equivalence that holds every
group: from it, that later signals only join identities, that their order does not
matter, and what resolves an identity when every name is made its own (`Blinded`).

Some definitions have the form they have because of the proofs: the executor's
answer is a set of eligible records and their ranks, and not a filtered and
sorted list; the samples of a band are sorted by counting how many are at most a
value; the ledger after a number of commands is a recursive function, and not a
fold; and the claims that an answer cites are named (`SectionClaims`, `CitedClaims`).

### Only model-checked

- The other kinds of case of the four laws of pure rules: the evaluation of predictions
  but for its rank agreement, both planners, the lines of a deck and of a page, and
  the source adapters (`SourcesAreProven`).  Their values are sequences filtered,
  flattened or folded by library operators that take an operator (`SelectSeq`,
  `FoldLeft`), of which the provers have no law, and what they are for every input
  needs an induction over data with an operator of its own for each.
- Liveness under fairness (`ReservedIsAnswered`, `QueuedRunEnds` of screening and of
  extraction, `GraphEnds`, `RunEnds`): out of the prover's reach, as is everything
  about `ENABLED`.
- The four violated properties, each refuted by its run.

## Not modelled

- Prompts, wording, rationales and formats: abstracted to what the control and the
  rules distinguish (usable or not, supported or not, which run, when).
- The whole lexicons of the planners and money formats: one word of each kind.
- Parsing of hackathon pages and their contacts (`ingestion/hackathons.py`,
  `ingestion/projections.py`): text taken apart character by character.
- Authentication, HTTP validation and problem responses, CORS, settings, the shared
  HTTP client and the bounded PDF download.
- Telemetry, views, the expiry of status capabilities.
- Several processes on one database, except as `Parallel` callers of intake.
- Frontend and demo bootstrap.

## Plan

Written so far are the modules above, most important first: intake (what a founder
was told must be true after any crash), the candidates' links, screening and
Decisions, then the graph, extraction and sourcing that feed them, then the pages,
the desk, the throttle and the pure rules; and the proofs of every stateful module's
safety and of most kinds of case of the rules.  To come:

1. Laws of the remaining kinds of case for every input: the planners first, once
   their spans are stated as sets of positions and not as filtered sequences.
2. The bounded PDF download with its redirects, and the expiry of capabilities.
3. Hackathon projections over abstract lines, as `PageExtraction` has them.

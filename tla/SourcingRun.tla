---------------------------- MODULE SourcingRun -----------------------------
(***************************************************************************)
(* One sourcing run: MultiAdapterSourcingCoordinator (sourcing.py).  A     *)
(* loop of rounds discovers leads through the approved adapters, acquires  *)
(* their pages and then the decks the pages link to, and assesses what is  *)
(* still missing; a stop reason ends it, in a fixed order of precedence.   *)
(* All rounds share one budget of discovery calls and one of pages.  A     *)
(* hackathon search spreads its pages over the rounds and keeps one of     *)
(* each round for a deck.                                                  *)
(*                                                                         *)
(* Any storage error that a round does not answer for itself ends the      *)
(* background task where it is.  What the run does to candidates is the    *)
(* module OutboundCandidates.                                              *)
(***************************************************************************)
EXTENDS Naturals, Sequences, FiniteSets

CONSTANTS
  Searches,  \* the bounds a search may run within
  Keys,      \* evidence its rounds may bring
  None       \* no stop reason yet

(* A command within its coordinator's limits: approved adapters for the    *)
(* requested source categories, leads a round may accept, budgets of pages *)
(* and of discovery calls, rounds after the first, and whether hackathons  *)
(* are among the categories.                                               *)
BoundedSearch ==
  {q \in [adapters : Nat, results : 1..20, pages : 1..20, calls : 1..32,
          followUps : 0..3, hackathon : BOOLEAN] : q.pages <= q.results}

RunStages   == {"discover", "acquire", "canonicalize"}
StopReasons == {"partial_failure", "sufficient_evidence", "no_new_evidence",
                "call_budget_exhausted", "page_budget_exhausted",
                "round_budget_exhausted"}
Terminal    == {"succeeded", "partially_succeeded", "failed"}

ASSUME BudgetAssumption ==
  /\ Searches \subseteq BoundedSearch
  /\ IsFiniteSet(Keys)
  /\ None \notin StopReasons

Least(m, n) == IF m < n THEN m ELSE n
Most(m, n)  == IF m > n THEN m ELSE n

VARIABLES
  search,    \* the bounds of this run
  pc,        \* where the background task is
  run,       \* the published status of the run
  snapshots, \* statuses Memory has recorded for it
  round,     \* index of the round
  calls,     \* discovery calls used
  pages,     \* pages used, with those of this round
  evidence,  \* evidence of all rounds
  now,       \* this round: pages allowed and acquired, leads, its evidence, failure
  outputs,   \* some artifact was accepted
  failed,    \* stages with failures
  rounds,    \* audits of the rounds assessed
  stop       \* the stop reason

vars == <<search, pc, run, snapshots, round, calls, pages, evidence, now,
          outputs, failed, rounds, stop>>

Fresh == [allowed |-> 0, acquired |-> 0, leads |-> 0, keys |-> {}, failure |-> FALSE]

TypeOK ==
  /\ search \in Searches
  /\ pc \in {"queued", "discover", "acquire", "decks", "assess", "finish", "done",
             "broken"}
  /\ run \in {"queued", "running"} \cup Terminal
  /\ snapshots \in Seq({"queued", "running"} \cup Terminal)
  /\ round \in 0..search.followUps
  /\ calls \in 0..search.calls
  /\ pages \in 0..search.pages
  /\ evidence \subseteq Keys
  /\ now \in [allowed : 0..search.pages, acquired : 0..search.pages,
              leads : 0..search.results, keys : SUBSET Keys, failure : BOOLEAN]
  /\ outputs \in BOOLEAN
  /\ failed \subseteq RunStages
  /\ rounds \in Seq([new : Nat, gaps : BOOLEAN, failure : BOOLEAN])
  /\ stop \in StopReasons \cup {None}

Init ==
  /\ search \in Searches
  /\ pc = "queued"
  /\ run = "queued"
  /\ snapshots = <<"queued">>
  /\ round = 0 /\ calls = 0 /\ pages = 0
  /\ evidence = {}
  /\ now = Fresh
  /\ outputs = FALSE
  /\ failed = {}
  /\ rounds = <<>>
  /\ stop = None

-----------------------------------------------------------------------------
PublishStaleBug(status, next) ==
  /\ run' = status
  /\ \/ /\ snapshots' = Append(snapshots, run)
        /\ pc' = next
     \/ /\ pc' = "broken"
        /\ UNCHANGED snapshots

(* A status is published in the process and then recorded in Memory; if    *)
(* that fails the task ends there.                                         *)
Publish(status, next) ==
  /\ run' = status
  /\ \/ /\ snapshots' = Append(snapshots, status)
        /\ pc' = next
     \/ /\ pc' = "broken"
        /\ UNCHANGED snapshots

(* The task starts.                                                        *)
Start ==
  /\ pc = "queued"
  /\ Publish("running", "discover")
  /\ UNCHANGED <<search, round, calls, pages, evidence, now, outputs, failed,
                 rounds, stop>>

Failing(stage, fails) == IF fails THEN failed \cup {stage} ELSE failed

DiscoveryCallsUnboundedBug == search.adapters

(* Adapters are called in order while calls are left.                      *)
DiscoveryCalls == Least(search.adapters, search.calls - calls)

RoundPagesGreedyBug == search.pages - pages

(* Pages this round may use: all that are left, but in a hackathon search  *)
(* with follow-ups its share of them, rounded up.                          *)
RoundPages ==
  LET left == search.pages - pages
      togo == search.followUps - round + 1 IN
  IF search.hackathon /\ search.followUps > 0
    THEN Least(left, Most(1, (left + togo - 1) \div togo))
    ELSE left

(* A page is kept for a deck when there is more than one.                  *)
PrimaryLimit(allowed) ==
  IF search.hackathon /\ allowed > 1 THEN allowed - 1 ELSE allowed

(* The round's discovery calls return together: leads, failures, or both.  *)
Discover ==
  /\ pc = "discover"
  /\ \E n \in 0..search.results, fails \in BOOLEAN :
       /\ DiscoveryCalls = 0 => n = 0 /\ ~fails
       /\ now' = [Fresh EXCEPT !.allowed = RoundPages, !.leads = n, !.failure = fails]
       /\ failed' = Failing("discover", fails)
  /\ calls' = calls + DiscoveryCalls
  /\ pc' = "acquire"
  /\ UNCHANGED <<search, run, snapshots, round, pages, evidence, outputs, rounds, stop>>

(* Pages p are acquired and some accepted; each of the others is a failure *)
(* of acquisition.  What is accepted brings evidence and may fail to be    *)
(* projected or mapped to a candidate.                                     *)
Acquired(p, accepted, unmapped, keys) ==
  /\ accepted \in 0..p
  /\ accepted = 0 <=> keys = {}
  /\ unmapped => accepted > 0
  /\ pages' = pages + p
  /\ outputs' = (outputs \/ accepted > 0)

AcquirePrimary ==
  /\ pc = "acquire"
  /\ \E accepted \in 0..search.pages, unmapped \in BOOLEAN, keys \in SUBSET Keys :
       LET p == Least(now.leads, PrimaryLimit(now.allowed)) IN
       /\ Acquired(p, accepted, unmapped, keys)
       /\ failed' = Failing("acquire", accepted < p)
                    \cup IF unmapped THEN {"canonicalize"} ELSE {}
       /\ now' = [now EXCEPT !.acquired = p, !.keys = keys,
                             !.failure = @ \/ accepted < p \/ unmapped]
  /\ pc' = "decks"
  /\ UNCHANGED <<search, run, snapshots, round, calls, evidence, rounds, stop>>

(* The decks a hackathon page links to are acquired while the round has    *)
(* pages.  Those of an unsupported kind fail without costing a page, and   *)
(* so do those left over when no later round has pages for them.           *)
AcquireDecks ==
  /\ pc = "decks"
  /\ \E links \in 0..search.pages, p \in 0..search.pages, accepted \in 0..search.pages,
        unmapped \in BOOLEAN, keys \in SUBSET Keys :
       LET room     == now.allowed - now.acquired
           selected == Least(links, room)
           left     == search.pages - (pages - now.acquired)
           leftover == links > room /\ now.allowed >= left
           fails    == leftover \/ p < selected \/ accepted < p IN
       /\ links > 0 => search.hackathon /\ now.keys # {}
       /\ p \in 0..selected
       /\ Acquired(p, accepted, unmapped, keys)
       /\ failed' = Failing("acquire", fails)
                    \cup IF unmapped THEN {"canonicalize"} ELSE {}
       /\ now' = [now EXCEPT !.acquired = @ + p, !.keys = @ \cup keys,
                             !.failure = @ \/ fails \/ unmapped]
  /\ pc' = "assess"
  /\ UNCHANGED <<search, run, snapshots, round, calls, evidence, rounds, stop>>

StopReasonNoPagesBug(new, gaps) ==
  CASE now.failure            -> "partial_failure"
    [] ~gaps /\ new > 0       -> "sufficient_evidence"
    [] new = 0                -> "no_new_evidence"
    [] calls >= search.calls      -> "call_budget_exhausted"
    [] round >= search.followUps  -> "round_budget_exhausted"
    [] OTHER                  -> None

StopReasonSwappedBug(new, gaps) ==
  CASE ~gaps                  -> "sufficient_evidence"
    [] now.failure            -> "partial_failure"
    [] new = 0                -> "no_new_evidence"
    [] calls >= search.calls      -> "call_budget_exhausted"
    [] pages >= search.pages      -> "page_budget_exhausted"
    [] round >= search.followUps  -> "round_budget_exhausted"
    [] OTHER                  -> None

(* Why the loop stops after this round, if it does: the conditions are     *)
(* exclusive in the order of the code.                                     *)
StopReason(new, gaps) ==
  LET productive == ~now.failure /\ new > 0 /\ gaps
      mayCall    == productive /\ calls < search.calls
      mayAcquire == mayCall /\ pages < search.pages IN
  CASE now.failure                               -> "partial_failure"
    [] ~now.failure /\ new > 0 /\ ~gaps          -> "sufficient_evidence"
    [] ~now.failure /\ new = 0                   -> "no_new_evidence"
    [] productive /\ calls >= search.calls           -> "call_budget_exhausted"
    [] mayCall /\ pages >= search.pages              -> "page_budget_exhausted"
    [] mayAcquire /\ round >= search.followUps       -> "round_budget_exhausted"
    [] mayAcquire /\ round < search.followUps        -> None

AssessGapsRefundsBug ==
  /\ pc = "assess"
  /\ \E gaps \in BOOLEAN :
       LET new == Cardinality(now.keys \ evidence) IN
       /\ ~outputs => gaps
       /\ rounds' = <<[new |-> new, gaps |-> gaps, failure |-> now.failure]>>
       /\ stop' = IF now.failure THEN None ELSE StopReason(new, gaps)
       /\ round' = IF stop' = None /\ ~now.failure THEN round + 1 ELSE round
  /\ evidence' = evidence \cup now.keys
  /\ calls' = IF now.failure THEN 0 ELSE calls
  /\ pages' = IF now.failure THEN pages - now.acquired ELSE pages
  /\ pc' = IF stop' = None THEN "discover" ELSE "finish"
  /\ UNCHANGED <<search, run, snapshots, now, outputs, failed>>

(* The gaps of everything found so far are assessed.  With nothing found   *)
(* every requested category is one.                                        *)
AssessGaps ==
  /\ pc = "assess"
  /\ \E gaps \in BOOLEAN :
       LET new == Cardinality(now.keys \ evidence) IN
       /\ ~outputs => gaps
       /\ rounds' = Append(rounds, [new |-> new, gaps |-> gaps, failure |-> now.failure])
       /\ stop' = StopReason(new, gaps)
  /\ evidence' = evidence \cup now.keys
  /\ round' = IF stop' = None THEN round + 1 ELSE round
  /\ pc' = IF stop' = None THEN "discover" ELSE "finish"
  /\ UNCHANGED <<search, run, snapshots, calls, pages, now, outputs, failed>>

OutcomeLenientBug(failures) ==
  IF failures = {} \/ outputs THEN "succeeded" ELSE "failed"

Outcome(failures) ==
  CASE failures = {}              -> "succeeded"
    [] failures # {} /\ outputs   -> "partially_succeeded"
    [] failures # {} /\ ~outputs  -> "failed"

(* The candidates found are assessed, each failing on its own, and the run *)
(* is published and recorded with its outcome.                             *)
Finish ==
  /\ pc = "finish"
  /\ \E unassessed \in BOOLEAN :
       /\ unassessed => outputs
       /\ failed' = Failing("canonicalize", unassessed)
  /\ Publish(Outcome(failed'), "done")
  /\ UNCHANGED <<search, round, calls, pages, evidence, now, outputs, rounds, stop>>

(* Memory fails while the task records telemetry, an audit or a snapshot.  *)
Break ==
  /\ pc \in {"discover", "acquire", "decks", "assess", "finish"}
  /\ pc' = "broken"
  /\ UNCHANGED <<search, run, snapshots, round, calls, pages, evidence, now,
                 outputs, failed, rounds, stop>>

Next ==
  \/ Start
  \/ Discover
  \/ AcquirePrimary
  \/ AcquireDecks
  \/ AssessGaps
  \/ Finish
  \/ Break

Spec == Init /\ [][Next]_vars

-----------------------------------------------------------------------------
(* Properties.                                                             *)

(* The loop goes on only after rounds that brought something new, left     *)
(* gaps and failed nowhere, and stops for a reason the last round and the  *)
(* budgets bear out: nothing that could still be tried is given up, no     *)
(* failure is covered by a better reason, and no round is started that     *)
(* could not call or acquire anything.                                     *)
StopIsExplained ==
  /\ \A i \in DOMAIN rounds : i < Len(rounds) \/ stop = None =>
       rounds[i].new > 0 /\ rounds[i].gaps /\ ~rounds[i].failure
  /\ stop # None =>
       LET last == rounds[Len(rounds)] IN
       CASE stop = "partial_failure"        -> last.failure
         [] stop = "sufficient_evidence"    -> ~last.failure /\ last.new > 0 /\ ~last.gaps
         [] stop = "no_new_evidence"        -> ~last.failure /\ last.new = 0
         [] stop = "call_budget_exhausted"  -> calls = search.calls
         [] stop = "page_budget_exhausted"  -> pages = search.pages
         [] stop = "round_budget_exhausted" -> Len(rounds) = search.followUps + 1
  /\ pc = "discover" => calls < search.calls /\ pages < search.pages

(* A hackathon search that has a page for every round never runs out of    *)
(* pages before its last round.                                            *)
PagesLastToTheEnd ==
  search.hackathon /\ search.followUps > 0 /\ search.pages > search.followUps =>
    search.pages - pages >= search.followUps - round + (IF pc = "discover" THEN 1 ELSE 0)

(* The outcome tells what happened: success means no stage failed and the  *)
(* loop did not stop for a failure, and a run that failed brought nothing. *)
OutcomeIsHonest ==
  run \in Terminal =>
    /\ run = "succeeded" <=> failed = {}
    /\ run = "succeeded" => stop # "partial_failure"
    /\ run = "failed" => ~outputs /\ evidence = {}

(* Memory has recorded each status in the order of publication, and but    *)
(* for the one the task broke at also the current one; no terminal status  *)
(* is ever replaced.                                                       *)
SnapshotsFollowRun ==
  /\ TypeOK
  /\ pc # "broken" => snapshots[Len(snapshots)] = run
  /\ \A i \in DOMAIN snapshots :
       /\ i = 1 <=> snapshots[i] = "queued"
       /\ snapshots[i] \in Terminal => i = Len(snapshots) /\ run = snapshots[i]

-----------------------------------------------------------------------------
(* Liveness: the adapters answer or fail, within their timeouts.           *)
Fairness == WF_vars(Start \/ Discover \/ AcquirePrimary \/ AcquireDecks
                    \/ AssessGaps \/ Finish)

FairSpec == Spec /\ Fairness

(* A queued run ends with an outcome, unless Memory fails: then it says    *)
(* running for ever.                                                       *)
RunEnds == <>(run \in Terminal \/ pc = "broken")
=============================================================================

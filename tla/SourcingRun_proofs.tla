------------------------- MODULE SourcingRun_proofs -------------------------
(***************************************************************************)
(* Proofs about SourcingRun, for every bounded search and any evidence.    *)
(*                                                                         *)
(* The invariants the runs check are tied together by where the task is:   *)
(* which budgets of the round are still open there, whether the loop has   *)
(* stopped, and what has been published.                                   *)
(***************************************************************************)
EXTENDS SourcingRun, FiniteSetTheorems, TLAPS

USE BudgetAssumption

(* The places of the task where a round is under way.                      *)
InRound == {"acquire", "decks", "assess"}

(* The loop has stopped exactly when the task is past it, and has assessed *)
(* a round for each index it has been through.                             *)
StopHolds ==
  /\ pc \in {"queued", "discover"} \cup InRound => stop = None
  /\ pc \in {"finish", "done"} => stop # None
  /\ Len(rounds) = round + (IF stop = None THEN 0 ELSE 1)
  /\ pc = "queued" => calls = 0 /\ pages = 0

(* What a stop reason says of the last round and the budgets.              *)
LastSays(last) ==
  /\ stop = "partial_failure"        => last.failure
  /\ stop = "sufficient_evidence"    => ~last.failure /\ last.new > 0 /\ ~last.gaps
  /\ stop = "no_new_evidence"        => ~last.failure /\ last.new = 0
  /\ stop = "call_budget_exhausted"  => calls = search.calls
  /\ stop = "page_budget_exhausted"  => pages = search.pages
  /\ stop = "round_budget_exhausted" => Len(rounds) = search.followUps + 1

GoesOn(audit) == audit.new > 0 /\ audit.gaps /\ ~audit.failure

(* StopIsExplained, its reasons one by one.                                *)
Explained ==
  /\ \A i \in DOMAIN rounds : i < Len(rounds) \/ stop = None => GoesOn(rounds[i])
  /\ stop # None => rounds # <<>> /\ LastSays(rounds[Len(rounds)])
  /\ pc = "discover" => calls < search.calls /\ pages < search.pages

(* A round's pages are within what was left when it began.                 *)
PagesHold ==
  pc \in InRound =>
    /\ now.acquired <= now.allowed
    /\ now.allowed <= search.pages - (pages - now.acquired)
    /\ pc = "acquire" => now.acquired = 0

(* A hackathon search with a page for every round.                         *)
Spread == search.hackathon /\ search.followUps > 0 /\ search.pages > search.followUps

(* A round leaves a page for each round after it.                          *)
ShareHolds ==
  Spread /\ pc \in InRound =>
    search.pages - (pages - now.acquired) - now.allowed >= search.followUps - round

(* What the run tells of itself is known from what it accepted.            *)
OutcomeHolds ==
  /\ now.failure => failed # {}
  /\ stop = "partial_failure" => failed # {}
  /\ ~outputs => evidence = {} /\ now.keys = {}
  /\ run \in Terminal => pc \in {"done", "broken"}

(* Publication: where the task is says what was published.                 *)
PublishHolds ==
  /\ pc = "queued" => run = "queued"
  /\ pc \in {"discover", "finish"} \cup InRound => run = "running"
  /\ Len(snapshots) >= 1

-----------------------------------------------------------------------------
(* The bounds of the search.                                               *)
LEMMA SearchType ==
  ASSUME TypeOK
  PROVE  /\ search.adapters \in Nat
         /\ search.results \in 1..20 /\ search.pages \in 1..20
         /\ search.calls \in 1..32 /\ search.followUps \in 0..3
         /\ search.hackathon \in BOOLEAN
  BY DEF TypeOK, BoundedSearch

LEMMA CounterType ==
  ASSUME TypeOK
  PROVE  /\ round \in 0..search.followUps /\ calls \in 0..search.calls
         /\ pages \in 0..search.pages
  BY DEF TypeOK

(* The record of a round.                                                  *)
RoundRecord == [allowed : 0..search.pages, acquired : 0..search.pages,
                leads : 0..search.results, keys : SUBSET Keys, failure : BOOLEAN]

LEMMA NowType ==
  ASSUME TypeOK
  PROVE  /\ now \in RoundRecord
         /\ now.allowed \in 0..search.pages /\ now.acquired \in 0..search.pages
         /\ now.leads \in 0..search.results
         /\ now.keys \in SUBSET Keys /\ now.failure \in BOOLEAN
  BY DEF TypeOK, RoundRecord

(* An even share of the pages left, rounded up, leaves a page for each of  *)
(* the rounds to come when there was one for every round.                  *)
LEMMA EvenShare ==
  ASSUME NEW left \in 0..20, NEW togo \in 1..4
  PROVE  /\ (left + togo - 1) \div togo \in Nat
         /\ left >= togo =>
              left - Least(left, Most(1, (left + togo - 1) \div togo)) >= togo - 1
<1>1. CASE togo = 1
  BY <1>1 DEF Least, Most
<1>2. CASE togo = 2
  BY <1>2 DEF Least, Most
<1>3. CASE togo = 3
  BY <1>3 DEF Least, Most
<1>4. CASE togo = 4
  BY <1>4 DEF Least, Most
<1>5. QED
  BY <1>1, <1>2, <1>3, <1>4

(* The pages a round may use.                                              *)
LEMMA RoundPagesBound ==
  ASSUME TypeOK
  PROVE  /\ RoundPages \in 0 .. (search.pages - pages)
         /\ Spread /\ search.pages - pages >= search.followUps - round + 1 =>
              search.pages - pages - RoundPages >= search.followUps - round
<1> DEFINE left == search.pages - pages
           togo == search.followUps - round + 1
<1>1. left \in 0..20 /\ togo \in 1..4
  BY SearchType, CounterType
<1>2. /\ (left + togo - 1) \div togo \in Nat
      /\ left >= togo =>
           left - Least(left, Most(1, (left + togo - 1) \div togo)) >= togo - 1
  BY <1>1, EvenShare
<1>3. RoundPages = IF search.hackathon /\ search.followUps > 0
                     THEN Least(left, Most(1, (left + togo - 1) \div togo)) ELSE left
  BY DEF RoundPages
<1>4. Least(left, Most(1, (left + togo - 1) \div togo)) \in 0 .. left
  <2> DEFINE q == (left + togo - 1) \div togo
  <2>1. q \in Nat
    BY <1>2
  <2> HIDE DEF q, left, togo
  <2>2. Most(1, q) \in Nat
    BY <2>1 DEF Most
  <2>3. Least(left, Most(1, q)) \in 0 .. left
    BY <1>1, <2>2 DEF Least
  <2>4. QED
    BY <2>3 DEF q
<1>5. togo - 1 = search.followUps - round
  BY SearchType, CounterType
<1> HIDE DEF left, togo
<1>6. RoundPages \in 0 .. left
  BY <1>1, <1>3, <1>4
<1>7. Spread /\ left >= togo => left - RoundPages >= togo - 1
  BY <1>2, <1>3 DEF Spread
<1>8. QED
  BY <1>5, <1>6, <1>7 DEF left, togo

(* The primary limit leaves the pages allowed or one less.                 *)
LEMMA PrimaryBound ==
  ASSUME NEW allowed \in Nat, NEW leads \in Nat
  PROVE  Least(leads, PrimaryLimit(allowed)) \in 0 .. allowed
<1>1. PrimaryLimit(allowed) \in 0 .. allowed
  BY DEF PrimaryLimit
<1>2. QED
  BY <1>1 DEF Least

(* Without outputs nothing was accepted, and so no evidence came.          *)
LEMMA AcquiredEffect ==
  ASSUME TypeOK, NEW p, NEW accepted \in 0..search.pages, NEW unmapped, NEW keys,
         Acquired(p, accepted, unmapped, keys)
  PROVE  /\ pages' = pages + p /\ outputs' \in BOOLEAN /\ (outputs => outputs')
         /\ ~outputs' => keys = {}
<1>1. accepted \in Nat
  BY SearchType
<1>2. outputs' = (outputs \/ accepted > 0) /\ pages' = pages + p
  BY DEF Acquired
<1>3. accepted > 0 \/ keys = {}
  BY <1>1 DEF Acquired
<1>4. QED
  BY <1>2, <1>3

(* What acquiring pages does to a round, whichever pages they are.         *)
Acquires(p, keys) ==
  /\ pages' = pages + p
  /\ now' \in RoundRecord
  /\ now'.allowed = now.allowed /\ now'.acquired = now.acquired + p
  /\ now'.keys \subseteq now.keys \cup keys
  /\ now'.failure => now.failure \/ failed' # {}
  /\ failed \subseteq failed' /\ failed' \subseteq RunStages
  /\ outputs' \in BOOLEAN /\ (outputs => outputs')
  /\ ~outputs' => keys = {}

LEMMA PrimaryEffect ==
  ASSUME TypeOK, PagesHold, AcquirePrimary
  PROVE  \E p \in Nat, keys \in SUBSET Keys :
           p <= now.allowed - now.acquired /\ Acquires(p, keys)
<1>1. now.acquired = 0
  BY DEF PagesHold, InRound, AcquirePrimary
<1>2. PICK accepted \in 0..search.pages, unmapped \in BOOLEAN, keys \in SUBSET Keys :
        LET p == Least(now.leads, PrimaryLimit(now.allowed)) IN
        /\ Acquired(p, accepted, unmapped, keys)
        /\ failed' = Failing("acquire", accepted < p)
                     \cup IF unmapped THEN {"canonicalize"} ELSE {}
        /\ now' = [now EXCEPT !.acquired = p, !.keys = keys,
                              !.failure = @ \/ accepted < p \/ unmapped]
  BY DEF AcquirePrimary
<1>3. PICK p : p = Least(now.leads, PrimaryLimit(now.allowed))
  OBVIOUS
<1>4. p \in 0 .. now.allowed
  <2>1. now.allowed \in Nat /\ now.leads \in Nat
    BY NowType, SearchType
  <2>2. QED
    BY <1>3, <2>1, PrimaryBound
<1>5. PICK fails \in BOOLEAN : fails <=> (now.failure \/ accepted < p \/ unmapped)
  OBVIOUS
<1>6. now' = [now EXCEPT !.acquired = p, !.keys = keys, !.failure = fails]
  BY <1>2, <1>3, <1>5
<1>7. now' \in RoundRecord
      /\ now'.allowed = now.allowed /\ now'.acquired = p /\ now'.keys = keys
      /\ now'.failure = fails
  <2>1. now \in RoundRecord /\ p \in 0..search.pages
    BY <1>4, NowType, SearchType
  <2>2. QED
    BY <1>6, <2>1 DEF RoundRecord
<1>8. /\ accepted < p \/ unmapped => failed' # {}
      /\ failed \subseteq failed' /\ failed' \subseteq RunStages
  BY <1>2, <1>3 DEF Failing, RunStages, TypeOK
<1>9. /\ pages' = pages + p /\ outputs' \in BOOLEAN /\ (outputs => outputs')
      /\ ~outputs' => keys = {}
  BY <1>2, <1>3, AcquiredEffect
<1>10. now'.failure => now.failure \/ failed' # {}
  BY <1>5, <1>7, <1>8
<1>11. now'.acquired = now.acquired + p /\ p <= now.allowed - now.acquired /\ p \in Nat
  BY <1>1, <1>4, <1>7, NowType, SearchType
<1>12. Acquires(p, keys)
  BY <1>7, <1>8, <1>9, <1>10, <1>11 DEF Acquires
<1>13. QED
  BY <1>11, <1>12

LEMMA DecksEffect ==
  ASSUME TypeOK, PagesHold, AcquireDecks
  PROVE  \E p \in Nat, keys \in SUBSET Keys :
           p <= now.allowed - now.acquired /\ Acquires(p, keys)
<1>1. now.acquired <= now.allowed /\ now.allowed <= search.pages
      /\ now.acquired \in Nat /\ now.allowed \in Nat
  BY NowType, SearchType DEF PagesHold, InRound, AcquireDecks
<1>2. PICK links \in 0..search.pages, p \in 0..search.pages, accepted \in 0..search.pages,
           unmapped \in BOOLEAN, keys \in SUBSET Keys :
        LET room     == now.allowed - now.acquired
            selected == Least(links, room)
            left     == search.pages - (pages - now.acquired)
            leftover == links > room /\ now.allowed >= left
            fails    == leftover \/ p < selected \/ accepted < p IN
        /\ links > 0 => search.hackathon /\ now.keys # {}
        /\ p \in 0..selected
        /\ Acquired(p, accepted, unmapped, keys)
        /\ failed' = Failing("acquire", fails)
                     \cup IF unmapped THEN {"canonicalize"} ELSE {}
        /\ now' = [now EXCEPT !.acquired = @ + p, !.keys = @ \cup keys,
                              !.failure = @ \/ fails \/ unmapped]
  BY Zenon DEF AcquireDecks
<1>3. PICK missed \in BOOLEAN :
        missed <=> \/ /\ links > now.allowed - now.acquired
                      /\ now.allowed >= search.pages - (pages - now.acquired)
                   \/ p < Least(links, now.allowed - now.acquired)
                   \/ accepted < p
  OBVIOUS
<1>4. p \in 0 .. (now.allowed - now.acquired)
  BY <1>1, <1>2 DEF Least
<1>5. failed' = Failing("acquire", missed) \cup IF unmapped THEN {"canonicalize"} ELSE {}
  BY <1>2, <1>3
<1>6. PICK fails \in BOOLEAN : fails <=> (now.failure \/ missed \/ unmapped)
  OBVIOUS
<1>7. now' = [now EXCEPT !.acquired = now.acquired + p, !.keys = now.keys \cup keys,
                         !.failure = fails]
  BY <1>2, <1>3, <1>6
<1>8. /\ now' \in RoundRecord
      /\ now'.allowed = now.allowed /\ now'.acquired = now.acquired + p
      /\ now'.keys = now.keys \cup keys /\ now'.failure = fails
  <2>1. now \in RoundRecord /\ now.keys \cup keys \in SUBSET Keys
    BY NowType
  <2>2. now.acquired + p \in 0..search.pages
    BY <1>1, <1>4, SearchType
  <2>3. QED
    BY <1>7, <2>1, <2>2 DEF RoundRecord
<1>9. /\ missed \/ unmapped => failed' # {}
      /\ failed \subseteq failed' /\ failed' \subseteq RunStages
  BY <1>5 DEF Failing, RunStages, TypeOK
<1>10. /\ pages' = pages + p /\ outputs' \in BOOLEAN /\ (outputs => outputs')
       /\ ~outputs' => keys = {}
  BY <1>2, AcquiredEffect
<1>11. now'.failure => now.failure \/ failed' # {}
  BY <1>6, <1>8, <1>9
<1>12. Acquires(p, keys)
  BY <1>8, <1>9, <1>10, <1>11 DEF Acquires
<1>13. p \in Nat /\ p <= now.allowed - now.acquired
  BY <1>1, <1>4
<1>14. QED
  BY <1>12, <1>13

(* What a stop reason says of the round and the budgets.                   *)
Means(reason, new, gaps) ==
  /\ reason = None => /\ new > 0 /\ gaps /\ ~now.failure
                      /\ calls < search.calls /\ pages < search.pages
                      /\ round < search.followUps
  /\ reason = "partial_failure"        => now.failure
  /\ reason = "sufficient_evidence"    => ~now.failure /\ new > 0 /\ ~gaps
  /\ reason = "no_new_evidence"        => ~now.failure /\ new = 0
  /\ reason = "call_budget_exhausted"  => calls = search.calls
  /\ reason = "page_budget_exhausted"  => pages = search.pages
  /\ reason = "round_budget_exhausted" => round = search.followUps

(* The conditions of the reasons are exhaustive, and each reason means     *)
(* what it says.                                                           *)
LEMMA StopReasonMeans ==
  ASSUME TypeOK, NEW new \in Nat, NEW gaps \in BOOLEAN
  PROVE  /\ StopReason(new, gaps) \in StopReasons \cup {None}
         /\ Means(StopReason(new, gaps), new, gaps)
<1> USE DEF StopReason, Means, StopReasons
<1>1. /\ calls < search.calls \/ calls = search.calls
      /\ pages < search.pages \/ pages = search.pages
      /\ round < search.followUps \/ round = search.followUps
      /\ ~(calls < search.calls /\ calls >= search.calls)
      /\ ~(pages < search.pages /\ pages >= search.pages)
      /\ ~(round < search.followUps /\ round >= search.followUps)
      /\ calls = search.calls => calls >= search.calls
      /\ pages = search.pages => pages >= search.pages
      /\ round = search.followUps => round >= search.followUps
      /\ new > 0 \/ new = 0
      /\ ~(new > 0 /\ new = 0)
  BY SearchType, CounterType
<1>2. CASE now.failure
  BY <1>2
<1>3. CASE ~now.failure /\ new = 0
  BY <1>1, <1>3
<1>4. CASE ~now.failure /\ new > 0 /\ ~gaps
  BY <1>1, <1>4
<1>5. CASE ~now.failure /\ new > 0 /\ gaps /\ calls = search.calls
  BY <1>1, <1>5
<1>6. CASE ~now.failure /\ new > 0 /\ gaps /\ calls < search.calls /\ pages = search.pages
  BY <1>1, <1>6
<1>7. CASE /\ ~now.failure /\ new > 0 /\ gaps /\ calls < search.calls
           /\ pages < search.pages /\ round = search.followUps
  BY <1>1, <1>7
<1>8. CASE /\ ~now.failure /\ new > 0 /\ gaps /\ calls < search.calls
           /\ pages < search.pages /\ round < search.followUps
  BY <1>1, <1>8
<1>9. QED
  BY <1>1, <1>2, <1>3, <1>4, <1>5, <1>6, <1>7, <1>8

(* The audit of a round.                                                   *)
RoundAudit == [new : Nat, gaps : BOOLEAN, failure : BOOLEAN]

LEMMA AssessEffect ==
  ASSUME TypeOK, AssessGaps
  PROVE  \E new \in Nat, gaps \in BOOLEAN, audit \in RoundAudit :
           /\ audit.new = new /\ (audit.gaps <=> gaps) /\ (audit.failure <=> now.failure)
           /\ rounds' = Append(rounds, audit)
           /\ stop' \in StopReasons \cup {None} /\ Means(stop', new, gaps)
<1> DEFINE n == Cardinality(now.keys \ evidence)
<1>1. PICK gaps \in BOOLEAN :
        /\ rounds' = Append(rounds, [new |-> n, gaps |-> gaps, failure |-> now.failure])
        /\ stop' = StopReason(n, gaps)
  BY Zenon DEF AssessGaps
<1>2. PICK new : new = n
  OBVIOUS
<1>3. new \in Nat
  <2>1. now.keys \ evidence \in SUBSET Keys
    BY NowType
  <2>2. IsFiniteSet(now.keys \ evidence)
    BY <2>1, FS_Subset
  <2>3. QED
    BY <1>2, <2>2, FS_CardinalityType
<1>4. now.failure \in BOOLEAN
  BY NowType
<1> HIDE DEF n
<1>5. PICK audit : audit = [new |-> new, gaps |-> gaps, failure |-> now.failure]
  OBVIOUS
<1>6. audit \in RoundAudit
  BY <1>3, <1>4, <1>5 DEF RoundAudit
<1>7. audit.new = new /\ (audit.gaps <=> gaps) /\ (audit.failure <=> now.failure)
  BY <1>5
<1>8. PICK reason : reason = StopReason(new, gaps)
  OBVIOUS
<1>9. stop' = reason /\ reason \in StopReasons \cup {None} /\ Means(reason, new, gaps)
  BY <1>1, <1>2, <1>3, <1>8, StopReasonMeans
<1>10. QED
  BY <1>1, <1>2, <1>3, <1>5, <1>6, <1>7, <1>9

(* What discovery leaves for the round.                                    *)
LEMMA DiscoverEffect ==
  ASSUME TypeOK, Discover
  PROVE  /\ now' \in RoundRecord
         /\ now'.allowed = RoundPages /\ now'.acquired = 0 /\ now'.keys = {}
         /\ now'.failure => failed' # {}
         /\ failed \subseteq failed' /\ failed' \subseteq RunStages
         /\ calls' \in 0..search.calls
<1>1. PICK n \in 0..search.results, fails \in BOOLEAN :
        /\ now' = [Fresh EXCEPT !.allowed = RoundPages, !.leads = n, !.failure = fails]
        /\ failed' = Failing("discover", fails)
  BY DEF Discover
<1>2. RoundPages \in 0..search.pages
  BY RoundPagesBound, SearchType, CounterType
<1>3. Fresh \in RoundRecord /\ Fresh.acquired = 0 /\ Fresh.keys = {}
  BY SearchType DEF Fresh, RoundRecord
<1>4. /\ now' \in RoundRecord
      /\ now'.allowed = RoundPages /\ now'.acquired = 0 /\ now'.keys = {}
      /\ now'.failure = fails
  BY <1>1, <1>2, <1>3 DEF RoundRecord
<1>5. /\ fails => failed' # {}
      /\ failed \subseteq failed' /\ failed' \subseteq RunStages
  BY <1>1 DEF Failing, RunStages, TypeOK
<1>6. DiscoveryCalls \in 0 .. (search.calls - calls)
  BY SearchType, CounterType DEF DiscoveryCalls, Least
<1>7. calls' \in 0..search.calls
  BY <1>6, SearchType, CounterType DEF Discover
<1>8. QED
  BY <1>4, <1>5, <1>7

-----------------------------------------------------------------------------
(* Type correctness.                                                       *)

LEMMA OutcomeType == \A failures : Outcome(failures) \in Terminal
<1>1. ASSUME NEW failures PROVE Outcome(failures) \in Terminal
  <2>1. CASE failures = {}
    BY <2>1 DEF Outcome, Terminal
  <2>2. CASE failures # {} /\ outputs
    BY <2>2 DEF Outcome, Terminal
  <2>3. CASE failures # {} /\ ~outputs
    BY <2>3 DEF Outcome, Terminal
  <2>4. QED
    BY <2>1, <2>2, <2>3
<1>2. QED
  BY <1>1

LEMMA PublishType ==
  ASSUME TypeOK, NEW status \in {"running"} \cup Terminal,
         NEW next \in {"discover", "done"}, Publish(status, next)
  PROVE  /\ run' \in {"queued", "running"} \cup Terminal
         /\ snapshots' \in Seq({"queued", "running"} \cup Terminal)
         /\ pc' \in {"queued", "discover", "acquire", "decks", "assess", "finish", "done",
                     "broken"}
<1>1. /\ run' = status
      /\ snapshots' = snapshots \/ snapshots' = Append(snapshots, status)
      /\ pc' \in {next, "broken"}
  BY DEF Publish
<1>2. snapshots \in Seq({"queued", "running"} \cup Terminal)
      /\ status \in {"queued", "running"} \cup Terminal
  BY DEF TypeOK
<1>3. Append(snapshots, status) \in Seq({"queued", "running"} \cup Terminal)
  BY <1>2
<1>4. QED
  BY <1>1, <1>2, <1>3

LEMMA AcquireType ==
  ASSUME TypeOK, PagesHold, pc \in InRound, NEW p \in Nat, NEW keys \in SUBSET Keys,
         p <= now.allowed - now.acquired, Acquires(p, keys),
         UNCHANGED <<search, run, snapshots, round, calls, evidence, rounds, stop>>,
         pc' \in InRound
  PROVE  TypeOK'
<1>1. pages' \in 0..search.pages
  BY NowType, SearchType, CounterType DEF PagesHold, Acquires, InRound
<1>2. /\ now' \in RoundRecord /\ outputs' \in BOOLEAN /\ failed' \subseteq RunStages
      /\ search' = search
  BY DEF Acquires
<1>3. QED
  BY <1>1, <1>2 DEF TypeOK, RoundRecord, InRound

LEMMA TypeStep == TypeOK /\ PagesHold /\ [Next]_vars => TypeOK'
<1> SUFFICES ASSUME TypeOK, PagesHold, [Next]_vars PROVE TypeOK'
  OBVIOUS
<1>1. CASE Start
  BY <1>1, PublishType DEF Start, TypeOK
<1>2. CASE Discover
  BY <1>2, DiscoverEffect DEF Discover, TypeOK, RoundRecord
<1>3. CASE AcquirePrimary
  BY <1>3, PrimaryEffect, AcquireType DEF AcquirePrimary, InRound
<1>4. CASE AcquireDecks
  BY <1>4, DecksEffect, AcquireType DEF AcquireDecks, InRound
<1>5. CASE AssessGaps
  <2>1. PICK new \in Nat, gaps \in BOOLEAN, audit \in RoundAudit :
          /\ rounds' = Append(rounds, audit)
          /\ stop' \in StopReasons \cup {None} /\ Means(stop', new, gaps)
    BY <1>5, AssessEffect
  <2>2. rounds' \in Seq(RoundAudit)
    BY <2>1 DEF TypeOK, RoundAudit
  <2>3. stop' = None => round < search.followUps
    BY <2>1 DEF Means
  <2>4. round' \in 0..search.followUps
    BY <1>5, <2>3, SearchType, CounterType DEF AssessGaps
  <2>5. evidence' \subseteq Keys
    BY <1>5, NowType DEF AssessGaps, TypeOK
  <2>6. QED
    BY <1>5, <2>1, <2>2, <2>4, <2>5 DEF AssessGaps, TypeOK, RoundAudit
<1>6. CASE Finish
  <2>1. failed' \subseteq RunStages
    BY <1>6 DEF Finish, Failing, RunStages, TypeOK
  <2>2. PICK status \in Terminal : Publish(status, "done")
    BY <1>6, OutcomeType DEF Finish
  <2>3. QED
    BY <1>6, <2>1, <2>2, PublishType DEF Finish, TypeOK
<1>7. CASE Break
  BY <1>7 DEF Break, TypeOK
<1>8. CASE UNCHANGED vars
  BY <1>8 DEF vars, TypeOK
<1>9. QED
  BY <1>1, <1>2, <1>3, <1>4, <1>5, <1>6, <1>7, <1>8 DEF Next

-----------------------------------------------------------------------------
(* The stop reason.                                                        *)

(* A step that neither assesses a round nor spends after the stop.         *)
LEMMA StopKept ==
  ASSUME StopHolds, Explained,
         UNCHANGED <<search, round, rounds, stop>>,
         stop # None => calls' = calls /\ pages' = pages,
         pc' = "discover" => calls' < search.calls /\ pages' < search.pages,
         pc' # "queued",
         pc' \in {"discover"} \cup InRound => stop = None,
         pc' \in {"finish", "done"} => stop # None
  PROVE  StopHolds' /\ Explained'
<1>1. StopHolds'
  BY DEF StopHolds, InRound
<1>2. Explained'
  BY DEF Explained, LastSays, GoesOn
<1>3. QED
  BY <1>1, <1>2

LEMMA StopStep ==
  TypeOK /\ StopHolds /\ Explained /\ [Next]_vars => StopHolds' /\ Explained'
<1> SUFFICES ASSUME TypeOK, StopHolds, Explained, [Next]_vars
             PROVE  StopHolds' /\ Explained'
  OBVIOUS
<1>1. CASE Start
  <2>1. /\ pc = "queued" /\ pc' \in {"discover", "broken"}
        /\ UNCHANGED <<search, round, calls, pages, rounds, stop>>
    BY <1>1 DEF Start, Publish
  <2>2. stop = None /\ calls = 0 /\ pages = 0
    BY <2>1 DEF StopHolds
  <2>3. 0 < search.calls /\ 0 < search.pages
    BY SearchType
  <2>4. QED
    BY <2>1, <2>2, <2>3, StopKept DEF InRound
<1>2. CASE Discover \/ AcquirePrimary \/ AcquireDecks
  <2>1. /\ pc \in {"discover"} \cup InRound /\ pc' \in InRound
        /\ UNCHANGED <<search, round, rounds, stop>>
    BY <1>2 DEF Discover, AcquirePrimary, AcquireDecks, InRound
  <2>2. stop = None
    BY <2>1 DEF StopHolds
  <2>3. QED
    BY <2>1, <2>2, StopKept DEF InRound
<1>3. CASE AssessGaps
  <2>1. PICK new \in Nat, gaps \in BOOLEAN, audit \in RoundAudit :
          /\ audit.new = new /\ (audit.gaps <=> gaps) /\ (audit.failure <=> now.failure)
          /\ rounds' = Append(rounds, audit)
          /\ stop' \in StopReasons \cup {None} /\ Means(stop', new, gaps)
    BY <1>3, AssessEffect
  <2>2. /\ stop = None /\ pc = "assess"
        /\ round' = IF stop' = None THEN round + 1 ELSE round
        /\ pc' = IF stop' = None THEN "discover" ELSE "finish"
        /\ UNCHANGED <<search, calls, pages>>
    BY <1>3 DEF AssessGaps, StopHolds, InRound
  <2>3. rounds \in Seq(RoundAudit)
    BY DEF TypeOK, RoundAudit
  <2>4. Len(rounds) = round /\ round \in Nat
    BY <2>2, CounterType, SearchType DEF StopHolds
  <2>5. /\ rounds' # <<>> /\ Len(rounds') = round + 1
        /\ DOMAIN rounds = 1 .. round /\ DOMAIN rounds' = 1 .. (round + 1)
        /\ \A i \in 1 .. round : rounds'[i] = rounds[i]
        /\ rounds'[round + 1] = audit
    BY <2>1, <2>3, <2>4
  <2>6. StopHolds'
    BY <2>2, <2>4, <2>5 DEF StopHolds, InRound
  <2>7. stop' = None => GoesOn(audit)
    BY <2>1 DEF Means, GoesOn
  <2>8. \A i \in 1 .. round : GoesOn(rounds'[i])
    BY <2>2, <2>5 DEF Explained, GoesOn
  <2>9. \A i \in 1 .. (round + 1) : i < round + 1 \/ stop' = None => GoesOn(rounds'[i])
    <3>1. \A i \in 1 .. (round + 1) : i \in 1 .. round \/ i = round + 1
      BY <2>4
    <3>2. ~(round + 1 < round + 1)
      BY <2>4
    <3>3. QED
      BY <2>5, <2>7, <2>8, <3>1, <3>2
  <2>10. stop' # None => LastSays(audit)'
    BY <2>1, <2>2, <2>4, <2>5 DEF Means, LastSays
  <2>11. pc' = "discover" => calls' < search'.calls /\ pages' < search'.pages
    BY <2>1, <2>2 DEF Means
  <2>12. Explained'
    BY <2>5, <2>9, <2>10, <2>11 DEF Explained, GoesOn, LastSays
  <2>13. QED
    BY <2>6, <2>12
<1>4. CASE Finish \/ Break
  <2>1. /\ pc' \in {"done", "broken"} /\ (pc' = "done" => pc = "finish")
        /\ UNCHANGED <<search, round, calls, pages, rounds, stop>>
    BY <1>4 DEF Finish, Break, Publish
  <2>2. QED
    BY <2>1, StopKept DEF StopHolds, InRound
<1>5. CASE UNCHANGED vars
  BY <1>5 DEF vars, StopHolds, Explained, GoesOn, LastSays
<1>6. QED
  BY <1>1, <1>2, <1>3, <1>4, <1>5 DEF Next

(* The reasons one by one say what StopIsExplained says of them.           *)
LEMMA ExplainedSays == TypeOK /\ Explained => StopIsExplained
<1> SUFFICES ASSUME TypeOK, Explained PROVE StopIsExplained
  OBVIOUS
<1>1. stop \in StopReasons \cup {None}
  BY DEF TypeOK
<1> USE DEF Explained, GoesOn, LastSays
<1>2. CASE stop = None
  BY <1>2 DEF StopIsExplained
<1>3. CASE stop = "partial_failure"
  BY <1>3 DEF StopIsExplained, StopReasons
<1>4. CASE stop = "sufficient_evidence"
  BY <1>4 DEF StopIsExplained, StopReasons
<1>5. CASE stop = "no_new_evidence"
  BY <1>5 DEF StopIsExplained, StopReasons
<1>6. CASE stop = "call_budget_exhausted"
  BY <1>6 DEF StopIsExplained, StopReasons
<1>7. CASE stop = "page_budget_exhausted"
  BY <1>7 DEF StopIsExplained, StopReasons
<1>8. CASE stop = "round_budget_exhausted"
  BY <1>8 DEF StopIsExplained, StopReasons
<1>9. QED
  BY <1>1, <1>2, <1>3, <1>4, <1>5, <1>6, <1>7, <1>8 DEF StopReasons

-----------------------------------------------------------------------------
(* The pages of the rounds.                                                *)

(* The pages left, and how they stand to the rounds to come.               *)
LastsToTheEnd ==
  Spread => search.pages - pages >=
              search.followUps - round + (IF pc = "discover" THEN 1 ELSE 0)

PagesInv == PagesHold /\ ShareHolds /\ LastsToTheEnd

LEMMA AcquireKeeps ==
  ASSUME TypeOK, PagesInv, pc \in InRound, NEW p \in Nat, NEW keys,
         p <= now.allowed - now.acquired, Acquires(p, keys),
         search' = search, round' = round, pc' \in {"decks", "assess"}
  PROVE  PagesInv'
<1>1. /\ now.allowed \in Nat /\ now.acquired \in Nat /\ pages \in Nat /\ round \in Nat
      /\ search.pages \in Nat /\ search.followUps \in Nat
  BY NowType, SearchType, CounterType
<1>2. pages' = pages + p /\ now'.allowed = now.allowed /\ now'.acquired = now.acquired + p
  BY DEF Acquires
<1>3. pages' - now'.acquired = pages - now.acquired /\ now'.acquired <= now'.allowed
  BY <1>1, <1>2
<1>4. now.acquired <= now.allowed /\ now.allowed <= search.pages - (pages - now.acquired)
  BY DEF PagesInv, PagesHold
<1>5. PagesHold'
  BY <1>2, <1>3, <1>4 DEF PagesHold
<1>6. Spread' <=> Spread
  BY DEF Spread
<1>7. ShareHolds'
  BY <1>2, <1>3, <1>6 DEF PagesInv, ShareHolds
<1>8. Spread => search.pages - (pages - now.acquired) - now.allowed >= search.followUps - round
  BY DEF PagesInv, ShareHolds
<1>9. Spread => search.pages - pages' >= search.followUps - round
  BY <1>1, <1>2, <1>8
<1>10. LastsToTheEnd'
  BY <1>1, <1>2, <1>6, <1>9 DEF LastsToTheEnd
<1>11. QED
  BY <1>5, <1>7, <1>10 DEF PagesInv

LEMMA PagesStep ==
  TypeOK /\ StopHolds /\ PagesInv /\ [Next]_vars => PagesInv'
<1> SUFFICES ASSUME TypeOK, StopHolds, PagesInv, [Next]_vars PROVE PagesInv'
  OBVIOUS
<1>1. /\ now.allowed \in Nat /\ now.acquired \in Nat /\ pages \in Nat /\ round \in Nat
      /\ search.pages \in Nat /\ search.followUps \in Nat
  BY NowType, SearchType, CounterType
<1>2. search' = search
  BY DEF Next, Start, Discover, AcquirePrimary, AcquireDecks, AssessGaps, Finish, Break, vars
<1>3. Spread' <=> Spread
  BY <1>2 DEF Spread
<1>4. ASSUME pages' = pages, round' = round, pc' \notin {"discover"} \cup InRound,
             LastsToTheEnd
      PROVE  PagesInv'
  <2>1. Spread => search.pages - pages >= search.followUps - round
    BY <1>1, <1>4 DEF LastsToTheEnd
  <2>2. QED
    BY <1>1, <1>2, <1>3, <1>4, <2>1 DEF PagesInv, PagesHold, ShareHolds, LastsToTheEnd
<1>5. CASE Start
  <2>1. /\ pc' \in {"discover", "broken"} /\ pages' = 0 /\ round' = round /\ pages = 0
    BY <1>5 DEF Start, Publish, StopHolds
  <2>2. Spread => search.pages - 0 >= search.followUps - round + 1
    BY <1>1 DEF Spread
  <2>3. Spread => search.pages - 0 >= search.followUps - round
    BY <1>1, <2>2
  <2>4. LastsToTheEnd'
    BY <1>1, <1>2, <1>3, <2>1, <2>2, <2>3 DEF LastsToTheEnd
  <2>5. QED
    BY <2>1, <2>4 DEF PagesInv, PagesHold, ShareHolds, InRound
<1>6. CASE Discover
  <2>1. /\ pc = "discover" /\ pc' = "acquire" /\ pages' = pages /\ round' = round
        /\ now'.allowed = RoundPages /\ now'.acquired = 0
    BY <1>6, DiscoverEffect DEF Discover
  <2>2. RoundPages \in 0 .. (search.pages - pages)
    BY RoundPagesBound
  <2>3. Spread => search.pages - pages >= search.followUps - round + 1
    BY <2>1 DEF PagesInv, LastsToTheEnd
  <2>4. Spread => search.pages - pages - RoundPages >= search.followUps - round
    BY <2>3, RoundPagesBound
  <2>5. PagesHold'
    BY <1>1, <1>2, <2>1, <2>2 DEF PagesHold
  <2>6. ShareHolds'
    BY <1>1, <1>2, <1>3, <2>1, <2>2, <2>4 DEF ShareHolds
  <2>7. LastsToTheEnd'
    BY <1>1, <1>2, <1>3, <2>1, <2>3 DEF LastsToTheEnd
  <2>8. QED
    BY <2>5, <2>6, <2>7 DEF PagesInv
<1>7. CASE AcquirePrimary
  <2>1. PICK p \in Nat, keys \in SUBSET Keys :
          p <= now.allowed - now.acquired /\ Acquires(p, keys)
    BY <1>7, PrimaryEffect DEF PagesInv
  <2>2. QED
    BY <1>7, <2>1, AcquireKeeps DEF AcquirePrimary, InRound
<1>8. CASE AcquireDecks
  <2>1. PICK p \in Nat, keys \in SUBSET Keys :
          p <= now.allowed - now.acquired /\ Acquires(p, keys)
    BY <1>8, DecksEffect DEF PagesInv
  <2>2. QED
    BY <1>8, <2>1, AcquireKeeps DEF AcquireDecks, InRound
<1>9. CASE AssessGaps
  <2>1. /\ pc = "assess" /\ pages' = pages /\ pc' \in {"discover", "finish"}
        /\ pc' = "discover" => round' = round + 1
        /\ pc' = "finish" => round' = round
    BY <1>9 DEF AssessGaps
  <2>2. now.acquired <= now.allowed
    BY <2>1 DEF PagesInv, PagesHold, InRound
  <2>3. Spread => search.pages - (pages - now.acquired) - now.allowed >= search.followUps - round
    BY <2>1 DEF PagesInv, ShareHolds, InRound
  <2>4. Spread => search.pages - pages >= search.followUps - round
    BY <1>1, <2>2, <2>3
  <2>5. LastsToTheEnd'
    BY <1>1, <1>2, <1>3, <2>1, <2>4 DEF LastsToTheEnd
  <2>6. QED
    BY <2>1, <2>5 DEF PagesInv, PagesHold, ShareHolds, InRound
<1>10. CASE Finish \/ Break
  <2>1. pages' = pages /\ round' = round /\ pc' \in {"done", "broken"}
    BY <1>10 DEF Finish, Break, Publish
  <2>2. QED
    BY <1>4, <2>1 DEF PagesInv, InRound
<1>11. CASE UNCHANGED vars
  BY <1>3, <1>11 DEF vars, PagesInv, PagesHold, ShareHolds, LastsToTheEnd
<1>12. QED
  BY <1>5, <1>6, <1>7, <1>8, <1>9, <1>10, <1>11 DEF Next

-----------------------------------------------------------------------------
(* The outcome.                                                            *)

LEMMA OutcomeSays ==
  \A failures : /\ Outcome(failures) = "succeeded" <=> failures = {}
                /\ Outcome(failures) = "failed" => ~outputs
<1>1. ASSUME NEW failures
      PROVE  /\ Outcome(failures) = "succeeded" <=> failures = {}
             /\ Outcome(failures) = "failed" => ~outputs
  <2>1. CASE failures = {}
    BY <2>1 DEF Outcome
  <2>2. CASE failures # {} /\ outputs
    BY <2>2 DEF Outcome
  <2>3. CASE failures # {} /\ ~outputs
    BY <2>3 DEF Outcome
  <2>4. QED
    BY <2>1, <2>2, <2>3
<1>2. QED
  BY <1>1

(* While the task runs, what it accepted and what failed are kept.         *)
LEMMA OutcomeStep ==
  TypeOK /\ PagesInv /\ StopHolds /\ OutcomeHolds /\ OutcomeIsHonest /\ PublishHolds
    /\ [Next]_vars => OutcomeHolds' /\ OutcomeIsHonest'
<1> SUFFICES ASSUME TypeOK, PagesInv, StopHolds, OutcomeHolds, OutcomeIsHonest,
                    PublishHolds, [Next]_vars
             PROVE  OutcomeHolds' /\ OutcomeIsHonest'
  OBVIOUS
<1>1. CASE Start
  <2>1. /\ run' = "running" /\ UNCHANGED <<now, failed, stop, outputs, evidence>>
    BY <1>1 DEF Start, Publish
  <2>2. QED
    BY <2>1 DEF OutcomeHolds, OutcomeIsHonest, Terminal
<1>2. CASE Discover
  <2>1. /\ run' = "running" /\ UNCHANGED <<stop, outputs, evidence>>
    BY <1>2 DEF Discover, PublishHolds
  <2>2. /\ now'.keys = {} /\ (now'.failure => failed' # {}) /\ failed \subseteq failed'
    BY <1>2, DiscoverEffect
  <2>3. QED
    BY <2>1, <2>2 DEF OutcomeHolds, OutcomeIsHonest, Terminal
<1>3. CASE AcquirePrimary \/ AcquireDecks
  <2>1. /\ run' = "running" /\ UNCHANGED <<stop, evidence>>
    BY <1>3 DEF AcquirePrimary, AcquireDecks, PublishHolds, InRound
  <2>2. PICK p \in Nat, keys \in SUBSET Keys : Acquires(p, keys)
    BY <1>3, PrimaryEffect, DecksEffect DEF PagesInv
  <2>3. /\ now'.failure => now.failure \/ failed' # {}
        /\ failed \subseteq failed' /\ (outputs => outputs')
        /\ ~outputs' => now'.keys \subseteq now.keys
    BY <2>2 DEF Acquires
  <2>4. OutcomeHolds'
    BY <2>1, <2>3 DEF OutcomeHolds, Terminal
  <2>5. QED
    BY <2>1, <2>4 DEF OutcomeIsHonest, Terminal
<1>4. CASE AssessGaps
  <2>1. /\ run' = "running" /\ UNCHANGED <<now, outputs, failed>>
        /\ evidence' = evidence \cup now.keys
    BY <1>4 DEF AssessGaps, PublishHolds, InRound
  <2>2. stop' = "partial_failure" => now.failure
    <3>1. PICK new \in Nat, gaps \in BOOLEAN : Means(stop', new, gaps)
      BY <1>4, AssessEffect
    <3>2. QED
      BY <3>1 DEF Means
  <2>3. QED
    BY <2>1, <2>2 DEF OutcomeHolds, OutcomeIsHonest, Terminal
<1>5. CASE Finish
  <2>1. /\ pc' \in {"done", "broken"} /\ run' = Outcome(failed')
        /\ UNCHANGED <<now, outputs, evidence, stop>>
    BY <1>5 DEF Finish, Publish
  <2>2. failed \subseteq failed'
    BY <1>5 DEF Finish, Failing
  <2>3. /\ run' = "succeeded" <=> failed' = {}
        /\ run' = "failed" => ~outputs
    BY <2>1, OutcomeSays
  <2>4. OutcomeHolds'
    BY <2>1, <2>2 DEF OutcomeHolds
  <2>5. QED
    BY <2>1, <2>3, <2>4 DEF OutcomeHolds, OutcomeIsHonest
<1>6. CASE Break
  <2>1. /\ run' = "running" /\ UNCHANGED <<now, outputs, evidence, stop, failed>>
    BY <1>6 DEF Break, PublishHolds, InRound
  <2>2. QED
    BY <2>1 DEF OutcomeHolds, OutcomeIsHonest, Terminal
<1>7. CASE UNCHANGED vars
  BY <1>7 DEF vars, OutcomeHolds, OutcomeIsHonest
<1>8. QED
  BY <1>1, <1>2, <1>3, <1>4, <1>5, <1>6, <1>7 DEF Next

-----------------------------------------------------------------------------
(* Publication.                                                            *)

(* A status other than the first, published while none is terminal, is     *)
(* recorded last or the task breaks.                                       *)
LEMMA PublishKeeps ==
  ASSUME TypeOK, TypeOK', SnapshotsFollowRun, PublishHolds, pc # "broken",
         run \notin Terminal, NEW status, status # "queued",
         status \in {"running"} \cup Terminal,
         NEW next, Publish(status, next)
  PROVE  SnapshotsFollowRun' /\ Len(snapshots') >= 1
<1>1. snapshots \in Seq({"queued", "running"} \cup Terminal)
  BY DEF TypeOK
<1>2. PICK n \in Nat : n = Len(snapshots) /\ DOMAIN snapshots = 1 .. n /\ n >= 1
  BY <1>1 DEF PublishHolds
<1>3. \A i \in 1 .. n : /\ i = 1 <=> snapshots[i] = "queued"
                        /\ snapshots[i] \notin Terminal
  BY <1>2 DEF SnapshotsFollowRun
<1>4. run' = status
  BY DEF Publish
<1>5. CASE snapshots' = snapshots /\ pc' = "broken"
  BY <1>2, <1>3, <1>5 DEF SnapshotsFollowRun
<1>6. CASE snapshots' = Append(snapshots, status)
  <2>1. /\ Len(snapshots') = n + 1 /\ DOMAIN snapshots' = 1 .. (n + 1)
        /\ \A i \in 1 .. n : snapshots'[i] = snapshots[i]
        /\ snapshots'[n + 1] = status
    BY <1>1, <1>2, <1>6
  <2>2. \A i \in 1 .. (n + 1) : i \in 1 .. n \/ i = n + 1
    BY <1>2
  <2>3. n + 1 # 1 /\ n + 1 >= 1
    BY <1>2
  <2>4. \A i \in 1 .. (n + 1) :
          /\ i = 1 <=> snapshots'[i] = "queued"
          /\ snapshots'[i] \in Terminal => i = n + 1 /\ run' = snapshots'[i]
    BY <1>3, <1>4, <2>1, <2>2, <2>3
  <2>5. QED
    BY <1>4, <2>1, <2>3, <2>4 DEF SnapshotsFollowRun
<1>7. QED
  BY <1>5, <1>6 DEF Publish

LEMMA PublishStep ==
  TypeOK /\ PagesInv /\ PublishHolds /\ OutcomeHolds /\ SnapshotsFollowRun /\ [Next]_vars
    => PublishHolds' /\ SnapshotsFollowRun'
<1> SUFFICES ASSUME TypeOK, PagesInv, PublishHolds, OutcomeHolds, SnapshotsFollowRun,
                    [Next]_vars
             PROVE  PublishHolds' /\ SnapshotsFollowRun'
  OBVIOUS
<1>1. TypeOK'
  BY TypeStep DEF PagesInv
<1>2. CASE Start
  <2>1. pc = "queued" /\ Publish("running", "discover")
    BY <1>2 DEF Start
  <2>2. run \notin Terminal
    BY <2>1 DEF OutcomeHolds
  <2>3. SnapshotsFollowRun' /\ Len(snapshots') >= 1
    BY <1>1, <2>1, <2>2, PublishKeeps
  <2>4. run' = "running" /\ pc' \in {"discover", "broken"}
    BY <2>1 DEF Publish
  <2>5. QED
    BY <2>3, <2>4 DEF PublishHolds
<1>3. CASE Finish
  <2>1. pc = "finish"
    BY <1>3 DEF Finish
  <2>2. PICK status \in Terminal : Publish(status, "done")
    BY <1>3, OutcomeType DEF Finish
  <2>3. run \notin Terminal
    BY <2>1 DEF OutcomeHolds
  <2>4. status # "queued"
    BY DEF Terminal
  <2>5. SnapshotsFollowRun' /\ Len(snapshots') >= 1
    BY <1>1, <2>1, <2>2, <2>3, <2>4, PublishKeeps
  <2>6. pc' \in {"done", "broken"}
    BY <2>2 DEF Publish
  <2>7. QED
    BY <2>5, <2>6 DEF PublishHolds, InRound
<1>4. ASSUME run' = run, snapshots' = snapshots, pc # "broken" \/ pc' = pc,
             pc' = "queued" => pc = "queued",
             pc' \in {"discover", "finish"} \cup InRound =>
               pc \in {"discover", "finish"} \cup InRound
      PROVE  PublishHolds' /\ SnapshotsFollowRun'
  <2>1. PublishHolds'
    BY <1>4 DEF PublishHolds, InRound
  <2>2. SnapshotsFollowRun'
    BY <1>1, <1>4 DEF SnapshotsFollowRun
  <2>3. QED
    BY <2>1, <2>2
<1>5. CASE Discover \/ AcquirePrimary \/ AcquireDecks \/ AssessGaps \/ Break
  BY <1>4, <1>5 DEF Discover, AcquirePrimary, AcquireDecks, AssessGaps, Break, InRound
<1>6. CASE UNCHANGED vars
  BY <1>4, <1>6 DEF vars
<1>7. QED
  BY <1>2, <1>3, <1>5, <1>6 DEF Next

-----------------------------------------------------------------------------
(* The invariant and what follows from it.                                 *)

Inv ==
  /\ TypeOK
  /\ StopHolds /\ Explained
  /\ PagesInv
  /\ OutcomeHolds /\ OutcomeIsHonest
  /\ PublishHolds /\ SnapshotsFollowRun

LEMMA InvInit == Init => Inv
<1> SUFFICES ASSUME Init PROVE Inv
  OBVIOUS
<1>1. /\ search.adapters \in Nat /\ search.results \in 1..20 /\ search.pages \in 1..20
      /\ search.calls \in 1..32 /\ search.followUps \in 0..3
  BY DEF Init, BoundedSearch
<1>2. Fresh \in RoundRecord
  BY <1>1 DEF Fresh, RoundRecord
<1>3. TypeOK
  <2>1. /\ search \in Searches /\ pc = "queued" /\ run = "queued"
        /\ snapshots = <<"queued">> /\ round = 0 /\ calls = 0 /\ pages = 0
        /\ evidence = {} /\ now = Fresh /\ outputs = FALSE /\ failed = {}
        /\ rounds = <<>> /\ stop = None
    BY DEF Init
  <2>2. snapshots \in Seq({"queued", "running"} \cup Terminal)
    BY <2>1
  <2>3. rounds \in Seq([new : Nat, gaps : BOOLEAN, failure : BOOLEAN])
    BY <2>1
  <2>4. /\ round \in 0..search.followUps
        /\ calls \in 0..search.calls
        /\ pages \in 0..search.pages
    <3>1. \A n \in Nat : 0 \in 0..n
      OBVIOUS
    <3>2. search.followUps \in Nat /\ search.calls \in Nat /\ search.pages \in Nat
      BY <1>1
    <3>3. QED
      BY <2>1, <3>1, <3>2
  <2>5. now \in [allowed : 0..search.pages, acquired : 0..search.pages,
                 leads : 0..search.results, keys : SUBSET Keys, failure : BOOLEAN]
    BY <1>2, <2>1 DEF RoundRecord
  <2>6. QED
    BY <2>1, <2>2, <2>3, <2>4, <2>5 DEF TypeOK
<1>4. StopHolds /\ Explained
  BY DEF Init, StopHolds, Explained, InRound
<1>5. Spread => search.pages - 0 >= search.followUps - 0
  BY <1>1 DEF Spread
<1>6. PagesInv
  BY <1>1, <1>5 DEF Init, PagesInv, PagesHold, ShareHolds, LastsToTheEnd, InRound
<1>7. OutcomeHolds /\ OutcomeIsHonest
  <2>1. /\ now.failure = FALSE /\ now.keys = {} /\ evidence = {} /\ failed = {}
        /\ run = "queued" /\ pc = "queued" /\ stop = None /\ outputs = FALSE
        /\ rounds = <<>> /\ pages = 0 /\ calls = 0
    BY DEF Init, Fresh
  <2>2. stop # "partial_failure"
    BY <2>1, BudgetAssumption DEF StopReasons
  <2>3. QED
    BY <2>1, <2>2 DEF OutcomeHolds, OutcomeIsHonest, Terminal
<1>8. PublishHolds /\ SnapshotsFollowRun
  BY <1>3 DEF Init, PublishHolds, SnapshotsFollowRun, InRound, Terminal
<1>9. QED
  BY <1>3, <1>4, <1>6, <1>7, <1>8 DEF Inv

THEOREM SourcingRuns == Spec => []Inv
<1>1. Inv /\ [Next]_vars => Inv'
  BY TypeStep, StopStep, PagesStep, OutcomeStep, PublishStep DEF Inv, PagesInv
<1>2. QED
  BY InvInit, <1>1, PTL DEF Spec

(* The loop stops for a reason its last round and the budgets bear out,    *)
(* and goes on only where there is something left to try.                  *)
THEOREM StopAlwaysExplained == Spec => []StopIsExplained
<1>1. Inv => StopIsExplained
  BY ExplainedSays DEF Inv
<1>2. QED
  BY SourcingRuns, <1>1, PTL

(* A hackathon search with a page for every round reaches its last round   *)
(* with pages left.                                                        *)
THEOREM PagesAlwaysLast == Spec => []PagesLastToTheEnd
<1>1. Inv => PagesLastToTheEnd
  BY DEF Inv, PagesInv, LastsToTheEnd, Spread, PagesLastToTheEnd
<1>2. QED
  BY SourcingRuns, <1>1, PTL

(* Success covers no failure and no failed run brought anything.           *)
THEOREM OutcomeAlwaysHonest == Spec => []OutcomeIsHonest
<1>1. Inv => OutcomeIsHonest
  BY DEF Inv
<1>2. QED
  BY SourcingRuns, <1>1, PTL

(* Memory records the statuses in the order they were published.           *)
THEOREM SnapshotsAlwaysFollow == Spec => []SnapshotsFollowRun
<1>1. Inv => SnapshotsFollowRun
  BY DEF Inv
<1>2. QED
  BY SourcingRuns, <1>1, PTL
=============================================================================

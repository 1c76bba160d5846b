------------------------- MODULE OutboundCandidates -------------------------
(***************************************************************************)
(* Outbound candidates and the Applications founders submit through their  *)
(* links: the candidate half of FakeVCBrainService (service.py), the       *)
(* sourcing runs that find and assess candidates (sourcing.py) and the     *)
(* submission handler (app.py).                                            *)
(*                                                                         *)
(* Three parties work on one candidate with nothing between them but the   *)
(* service's lock: sourcing runs, which assess at their end what they      *)
(* found rounds earlier; the investor, who assesses, activates and records *)
(* outreach; and founders, whose submission checks the link, awaits the    *)
(* upload and only then registers.                                         *)
(*                                                                         *)
(* All of this state is the process's own: a restart forgets candidates    *)
(* and links, so one life of the process is modelled.  The idempotent      *)
(* intake behind a submission is the module Intake; here an application is *)
(* the deck and the canonical company it was taken in for, which is what   *)
(* its fingerprint covers.                                                 *)
(***************************************************************************)
EXTENDS Naturals

CONSTANTS
  Candidates,  \* outbound candidates, each with a company of its own
  Decks,       \* what a founder submits, all fields but the candidate
  Submitters,  \* concurrent submissions
  Runs,        \* concurrent sourcing runs
  None         \* no candidate, no application

Applications == [deck : Decks, company : Candidates \cup {None}]

ASSUME CandidatesAssumption ==
  /\ None \notin Candidates /\ None \notin Applications
  /\ "inbound" \notin Candidates /\ None # "inbound"

VARIABLES
  status,       \* workflow status of each candidate
  assessed,     \* the candidate has a preliminary assessment
  claims,       \* Memory holds Claims about the candidate
  signals,      \* its screening bundle: none, without or with Claim evidence
  found,        \* candidates a sourcing run found, not yet assessed by it
  changed,      \* those of them it must assess
  linkOf,       \* the application of each candidate
  candidateOf,  \* the candidate of each application
  origin,       \* registered applications: inbound, or their candidate
  intake,       \* applications the durable intake has accepted
  call,         \* progress of each submission
  answered      \* applications some client has a receipt for

vars == <<status, assessed, claims, signals, found, changed, linkOf,
          candidateOf, origin, intake, call, answered>>

sourcing == <<claims, signals, found, changed>>
founders == <<linkOf, candidateOf, origin, intake, call, answered>>

Statuses == {"unseeded", "discovered", "preliminary_assessment",
             "ready_for_activation", "activated", "contacted", "applied"}

TypeOK ==
  /\ status \in [Candidates -> Statuses]
  /\ assessed \in [Candidates -> BOOLEAN]
  /\ claims \in [Candidates -> BOOLEAN]
  /\ signals \in [Candidates -> {"none", "bare", "claims"}]
  /\ found \in [Runs -> SUBSET Candidates]
  /\ changed \in [Runs -> SUBSET Candidates]
  /\ linkOf \in [Candidates -> Applications \cup {None}]
  /\ candidateOf \in [Applications -> Candidates \cup {None}]
  /\ origin \in [Applications -> Candidates \cup {"inbound", None}]
  /\ intake \subseteq Applications
  /\ call \in [Submitters -> Applications \cup {None}]
  /\ answered \subseteq Applications

Init ==
  /\ status = [c \in Candidates |-> "unseeded"]
  /\ assessed = [c \in Candidates |-> FALSE]
  /\ claims = [c \in Candidates |-> FALSE]
  /\ signals = [c \in Candidates |-> "none"]
  /\ found = [x \in Runs |-> {}]
  /\ changed = [x \in Runs |-> {}]
  /\ linkOf = [c \in Candidates |-> None]
  /\ candidateOf = [a \in Applications |-> None]
  /\ origin = [a \in Applications |-> None]
  /\ intake = {}
  /\ call = [s \in Submitters |-> None]
  /\ answered = {}

Seeded(c) == status[c] # "unseeded"

-----------------------------------------------------------------------------
(* Sourcing.                                                               *)

(* Run x acquires a page of candidate c, with or without Claims in it: the *)
(* candidate is seeded, or found again under its source identity key.  It  *)
(* is to be assessed when the page is new or no assessment exists yet.     *)
Find(x, c, new, withClaims) ==
  /\ status' = [status EXCEPT ![c] = IF Seeded(c) THEN @ ELSE "discovered"]
  /\ claims' = [claims EXCEPT ![c] = @ \/ withClaims]
  /\ found' = [found EXCEPT ![x] = @ \cup {c}]
  /\ changed' = [changed EXCEPT ![x] =
                   IF new \/ ~assessed[c] THEN @ \cup {c} ELSE @]
  /\ UNCHANGED <<assessed, signals, founders>>

Bundle(c) == IF claims[c] THEN "claims" ELSE "bare"

(* Without a bundle the candidate's artifacts support activation, with one *)
(* its Claims must.                                                        *)
Supported(bundle) == bundle # "bare"

AssessedStatusWordBug(bundle) ==
  IF Supported(bundle) THEN "ready_for_activation" ELSE "needs_information"

AssessedStatus(bundle) ==
  IF Supported(bundle) THEN "ready_for_activation" ELSE "preliminary_assessment"

(* The end of run x, one turn of the event loop: the candidates it found   *)
(* get their bundles and those that changed a new preliminary assessment;  *)
(* each may fail by itself in either step, as all do without a thesis.     *)
FinishSourcing(x) ==
  /\ found[x] # {}
  /\ \E bundled \in SUBSET found[x] : \E ok \in SUBSET (changed[x] \cap bundled) :
       /\ signals' = [c \in Candidates |->
                        IF c \in bundled THEN Bundle(c) ELSE signals[c]]
       /\ status' = [c \in Candidates |->
                       IF c \in ok THEN AssessedStatus(Bundle(c)) ELSE status[c]]
       /\ assessed' = [c \in Candidates |-> assessed[c] \/ c \in ok]
  /\ found' = [found EXCEPT ![x] = {}]
  /\ changed' = [changed EXCEPT ![x] = {}]
  /\ UNCHANGED <<claims, founders>>

-----------------------------------------------------------------------------
(* The investor.                                                           *)

(* A preliminary assessment on request, whatever the candidate's status.   *)
StartPreliminaryAssessment(c) ==
  /\ Seeded(c)
  /\ status' = [status EXCEPT ![c] = AssessedStatus(signals[c])]
  /\ assessed' = [assessed EXCEPT ![c] = TRUE]
  /\ UNCHANGED <<sourcing, founders>>

Activate(c) ==
  /\ status[c] = "ready_for_activation"
  /\ status' = [status EXCEPT ![c] = "activated"]
  /\ UNCHANGED <<assessed, sourcing, founders>>

RecordOutreachAppliedBug(c) ==
  /\ status[c] \in {"activated", "contacted", "applied"}
  /\ status' = [status EXCEPT ![c] = "contacted"]
  /\ UNCHANGED <<assessed, sourcing, founders>>

RecordOutreachAnyBug(c) ==
  /\ status[c] \in {"ready_for_activation", "activated", "contacted"}
  /\ status' = [status EXCEPT ![c] = "contacted"]
  /\ UNCHANGED <<assessed, sourcing, founders>>

RecordOutreach(c) ==
  /\ status[c] \in {"activated", "contacted"}
  /\ status' = [status EXCEPT ![c] = "contacted"]
  /\ UNCHANGED <<assessed, sourcing, founders>>

-----------------------------------------------------------------------------
(* Founders.                                                               *)

(* The link is an invitation not used yet, or is replayed.                 *)
Available(c) ==
  \/ status[c] \in {"activated", "contacted"} /\ linkOf[c] = None
  \/ status[c] = "applied" /\ linkOf[c] # None

(* The handler resolves the candidate's company, then awaits the upload.   *)
BeginSubmit(s, a) ==
  /\ call[s] = None
  /\ a.company # None => Available(a.company)
  /\ call' = [call EXCEPT ![s] = a]
  /\ UNCHANGED <<status, assessed, sourcing, linkOf, candidateOf, origin,
                 intake, answered>>

Expected(a) == IF a.company = None THEN "inbound" ELSE a.company

RegistrableStaleBug(a) ==
  /\ origin[a] \in {None, Expected(a)}
  /\ candidateOf[a] \in {None, a.company}
  /\ a.company # None => linkOf[a.company] \in {None, a}

RegistrableReusedBug(a) ==
  /\ origin[a] \in {None, Expected(a)}
  /\ candidateOf[a] \in {None, a.company}
  /\ a.company # None => Available(a.company)

RegistrableByDeckBug(a) ==
  /\ origin[a] \in {None, Expected(a)}
  /\ \A b \in Applications : b.deck = a.deck => candidateOf[b] \in {None, a.company}
  /\ a.company # None => Available(a.company) /\ linkOf[a.company] \in {None, a}

(* What register_application() checks again once the upload is there: the  *)
(* link, that neither side of it is taken by another, and that a known     *)
(* application comes in the way it first did.                              *)
Registrable(a) ==
  /\ origin[a] \in {None, Expected(a)}
  /\ candidateOf[a] \in {None, a.company}
  /\ a.company # None => Available(a.company) /\ linkOf[a.company] \in {None, a}

RegisterForgetsBug(a) ==
  /\ origin' = [origin EXCEPT ![a] = Expected(a)]
  /\ IF a.company # None
       THEN /\ linkOf' = [linkOf EXCEPT ![a.company] = a]
            /\ status' = [status EXCEPT ![a.company] = "applied"]
            /\ UNCHANGED candidateOf
       ELSE UNCHANGED <<linkOf, candidateOf, status>>

RegisterUnlinkedBug(a) ==
  /\ origin' = [origin EXCEPT ![a] = Expected(a)]
  /\ IF a.company # None
       THEN /\ candidateOf' = [candidateOf EXCEPT ![a] = a.company]
            /\ status' = [status EXCEPT ![a.company] = "applied"]
            /\ UNCHANGED linkOf
       ELSE UNCHANGED <<linkOf, candidateOf, status>>

(* A new application: its opportunity and, through a link, both directions *)
(* of the link and the candidate's status.                                 *)
Register(a) ==
  /\ origin' = [origin EXCEPT ![a] = Expected(a)]
  /\ IF a.company # None
       THEN /\ linkOf' = [linkOf EXCEPT ![a.company] = a]
            /\ candidateOf' = [candidateOf EXCEPT ![a] = a.company]
            /\ status' = [status EXCEPT ![a.company] = "applied"]
       ELSE UNCHANGED <<linkOf, candidateOf, status>>

Replay(a) == UNCHANGED <<linkOf, candidateOf, origin, status>>

(* The upload is there: intake takes it in durably, then it is registered, *)
(* or refused because its link is no longer available.                     *)
FinishSubmit(s) ==
  LET a == call[s] IN
  /\ a # None
  /\ intake' = intake \cup {a}
  /\ \/ /\ Registrable(a)
        /\ IF origin[a] = None THEN Register(a) ELSE Replay(a)
        /\ answered' = answered \cup {a}
     \/ /\ ~Registrable(a)
        /\ UNCHANGED <<linkOf, candidateOf, origin, status, answered>>
  /\ call' = [call EXCEPT ![s] = None]
  /\ UNCHANGED <<assessed, sourcing>>

Next ==
  \/ \E x \in Runs :
       \/ \E c \in Candidates, new, withClaims \in BOOLEAN :
            Find(x, c, new, withClaims)
       \/ FinishSourcing(x)
  \/ \E c \in Candidates :
       \/ StartPreliminaryAssessment(c)
       \/ Activate(c)
       \/ RecordOutreach(c)
  \/ \E s \in Submitters :
       \/ \E a \in Applications : BeginSubmit(s, a)
       \/ FinishSubmit(s)

Spec == Init /\ [][Next]_vars

-----------------------------------------------------------------------------
(* Properties.                                                             *)

(* The two directions of a link and the opportunity's origin name the same *)
(* pair, and the application was taken in for the candidate's own company, *)
(* whatever submissions raced through the link.                            *)
LinksAgree ==
  /\ \A c \in Candidates, a \in Applications :
       linkOf[c] = a <=> candidateOf[a] = c
  /\ \A a \in Applications : candidateOf[a] # None =>
       candidateOf[a] = a.company /\ origin[a] = a.company
  /\ \A a \in Applications : origin[a] \in Candidates => candidateOf[a] = origin[a]

(* A link takes one application: of all the submissions through it, also   *)
(* those that resolved it while it was free, one deck is ever answered.    *)
OneApplicationPerLink ==
  \A a, b \in answered : a.company # None /\ a.company = b.company => a = b

(* A candidate that counts as applied has its application.  (The converse  *)
(* fails: a later assessment moves an applied candidate back.)             *)
AppliedHasApplication ==
  \A c \in Candidates : status[c] = "applied" => linkOf[c] \in answered

(* What the two maps of links, the opportunities and the statuses of the   *)
(* candidates say of one submission agrees.                                *)
LinksHold == LinksAgree /\ AppliedHasApplication

(* What intake holds without an opportunity was refused at registration,   *)
(* and that happens to linked submissions only: a direct Application that  *)
(* was accepted is always registered and answered.                         *)
UnregisteredCameThroughLink ==
  \A a \in intake : a \notin answered => a.company # None /\ origin[a] = None

(* A link is filled only while its candidate is activated or contacted,    *)
(* however long ago the submission found it so; and no link or origin is   *)
(* ever changed again.                                                     *)
LinkedWhileInvited ==
  [][ /\ \A c \in Candidates : linkOf'[c] # linkOf[c] =>
           linkOf[c] = None /\ status[c] \in {"activated", "contacted"}
      /\ \A a \in Applications : origin'[a] # origin[a] => origin[a] = None
    ]_vars

(* Whatever assessments and submissions write in between, outreach follows *)
(* an explicit activation and activation a supported assessment, and a     *)
(* candidate leaves "applied" only backwards, by an assessment.            *)
StatusFollowsCommands ==
  [][\A c \in Candidates : status'[c] # status[c] =>
       /\ status'[c] = "contacted" => status[c] = "activated"
       /\ status'[c] = "activated" => status[c] = "ready_for_activation"
       /\ status[c] = "applied" =>
            status'[c] \in {"ready_for_activation", "preliminary_assessment"}]_vars

(* A client that has its receipt and lost it may send the same submission  *)
(* again and gets the original identifiers.                                *)
ReplayIsAnswered == \A a \in answered : Registrable(a)
=============================================================================

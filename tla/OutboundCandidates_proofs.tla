---------------------- MODULE OutboundCandidates_proofs ----------------------
(***************************************************************************)
(* Proofs about OutboundCandidates, for any sets of candidates, decks,     *)
(* submissions and sourcing runs.                                          *)
(*                                                                         *)
(* LinksAgree is inductive only together with what ties the answers given  *)
(* to the origins registered: an application has been answered exactly     *)
(* when it has an origin, and its origin is the one its company implies.   *)
(***************************************************************************)
EXTENDS OutboundCandidates, TLAPS

(* An answer was given for what is registered and nothing else.            *)
AnsweredAreRegistered ==
  \A a \in Applications :
    /\ a \in answered <=> origin[a] # None
    /\ origin[a] \in {None, Expected(a)}

LinksInv ==
  /\ TypeOK
  /\ LinksAgree
  /\ AnsweredAreRegistered
  /\ AppliedHasApplication
  /\ UnregisteredCameThroughLink

-----------------------------------------------------------------------------
(* The company of an application is a candidate's or none.                 *)
LEMMA CompanyType == \A a \in Applications : a.company \in Candidates \cup {None}
  BY DEF Applications

(* The origin an application is expected to have is never absent, and is a *)
(* candidate just when it came through a link.                             *)
LEMMA ExpectedType ==
  \A a \in Applications :
    /\ Expected(a) \in Candidates \cup {"inbound"}
    /\ Expected(a) # None
    /\ a.company # None => a.company \in Candidates /\ Expected(a) = a.company
    /\ a.company = None => Expected(a) = "inbound"
  BY CompanyType, CandidatesAssumption DEF Expected

-----------------------------------------------------------------------------
(* Type correctness.                                                       *)

(* Every reachable state has the declared shapes.                          *)
LEMMA TypeStep == TypeOK /\ [Next]_vars => TypeOK'
<1> SUFFICES ASSUME TypeOK, [Next]_vars PROVE TypeOK'
  OBVIOUS
<1> USE DEF TypeOK
<1>1. ASSUME NEW x \in Runs, NEW c \in Candidates, NEW new \in BOOLEAN,
             NEW withClaims \in BOOLEAN, Find(x, c, new, withClaims)
      PROVE  TypeOK'
  <2>1. status' \in [Candidates -> Statuses]
    BY <1>1 DEF Find, Statuses
  <2>2. claims' \in [Candidates -> BOOLEAN]
    <3>1. claims[c] \/ withClaims \in BOOLEAN
      BY <1>1
    <3>2. QED
      BY <1>1, <3>1 DEF Find
  <2>3. found' \in [Runs -> SUBSET Candidates] /\ changed' \in [Runs -> SUBSET Candidates]
    BY <1>1 DEF Find
  <2>4. QED
    BY <1>1, <2>1, <2>2, <2>3 DEF Find, founders
<1>2. ASSUME NEW x \in Runs, FinishSourcing(x) PROVE TypeOK'
  <2> DEFINE Outcome(bundled, ok) ==
        /\ signals' = [c \in Candidates |->
                         IF c \in bundled THEN Bundle(c) ELSE signals[c]]
        /\ status' = [c \in Candidates |->
                        IF c \in ok THEN AssessedStatus(Bundle(c)) ELSE status[c]]
        /\ assessed' = [c \in Candidates |-> assessed[c] \/ c \in ok]
  <2>0. PICK bundled \in SUBSET found[x] :
          \E ok \in SUBSET (changed[x] \cap bundled) : Outcome(bundled, ok)
    BY <1>2 DEF FinishSourcing
  <2>1. PICK ok \in SUBSET (changed[x] \cap bundled) : Outcome(bundled, ok)
    BY <2>0
  <2>2. signals' \in [Candidates -> {"none", "bare", "claims"}]
    BY <2>1 DEF Bundle
  <2>3. status' \in [Candidates -> Statuses]
    BY <2>1 DEF AssessedStatus, Statuses
  <2>4. assessed' \in [Candidates -> BOOLEAN]
    BY <2>1
  <2>5. found' \in [Runs -> SUBSET Candidates] /\ changed' \in [Runs -> SUBSET Candidates]
    BY <1>2 DEF FinishSourcing
  <2>6. QED
    BY <1>2, <2>2, <2>3, <2>4, <2>5 DEF FinishSourcing, founders
<1>3. ASSUME NEW c \in Candidates, StartPreliminaryAssessment(c) PROVE TypeOK'
  BY <1>3 DEF StartPreliminaryAssessment, AssessedStatus, Statuses, sourcing, founders
<1>4. ASSUME NEW c \in Candidates, Activate(c) PROVE TypeOK'
  BY <1>4 DEF Activate, Statuses, sourcing, founders
<1>5. ASSUME NEW c \in Candidates, RecordOutreach(c) PROVE TypeOK'
  BY <1>5 DEF RecordOutreach, Statuses, sourcing, founders
<1>6. ASSUME NEW s \in Submitters, NEW a \in Applications, BeginSubmit(s, a)
      PROVE  TypeOK'
  BY <1>6 DEF BeginSubmit, sourcing
<1>7. ASSUME NEW s \in Submitters, FinishSubmit(s) PROVE TypeOK'
  <2> DEFINE a == call[s]
  <2>1. a \in Applications
    BY <1>7 DEF FinishSubmit
  <2>2. /\ intake' \subseteq Applications
        /\ answered' \subseteq Applications
        /\ call' \in [Submitters -> Applications \cup {None}]
    BY <1>7, <2>1 DEF FinishSubmit
  <2>3. CASE Registrable(a) /\ origin[a] = None
    <3>1. Register(a)
      BY <1>7, <2>3 DEF FinishSubmit
    <3>2. origin' \in [Applications -> Candidates \cup {"inbound", None}]
      BY <3>1, <2>1, ExpectedType DEF Register
    <3>3. CASE a.company # None
      <4>1. a.company \in Candidates
        BY <3>3, <2>1, ExpectedType
      <4>2. /\ linkOf' \in [Candidates -> Applications \cup {None}]
            /\ candidateOf' \in [Applications -> Candidates \cup {None}]
            /\ status' \in [Candidates -> Statuses]
        BY <3>1, <3>3, <4>1, <2>1 DEF Register, Statuses
      <4>3. QED
        BY <1>7, <2>2, <3>2, <4>2 DEF FinishSubmit, sourcing
    <3>4. CASE a.company = None
      BY <1>7, <2>2, <3>1, <3>2, <3>4 DEF FinishSubmit, Register, sourcing
    <3>5. QED
      BY <3>3, <3>4
  <2>4. CASE ~(Registrable(a) /\ origin[a] = None)
    BY <1>7, <2>2, <2>4 DEF FinishSubmit, Replay, sourcing
  <2>5. QED
    BY <2>3, <2>4
<1>8. CASE UNCHANGED vars
  BY <1>8 DEF vars
<1>9. QED
  BY <1>1, <1>2, <1>3, <1>4, <1>5, <1>6, <1>7, <1>8 DEF Next

THEOREM Typing == Spec => []TypeOK
<1>1. Init => TypeOK
  BY DEF Init, TypeOK, Statuses
<1>2. QED
  BY <1>1, TypeStep, PTL DEF Spec

-----------------------------------------------------------------------------
(* Links.                                                                  *)

Links == <<linkOf, candidateOf, origin, intake, answered>>

(* Whatever is not the end of a submission leaves the links alone and      *)
(* never makes a candidate count as applied.                               *)
LEMMA OtherSteps ==
  ASSUME TypeOK, Next, ~ \E s \in Submitters : FinishSubmit(s)
  PROVE  /\ UNCHANGED Links
         /\ \A c \in Candidates : status'[c] = "applied" => status[c] = "applied"
<1> DEFINE Kept == /\ UNCHANGED Links
                   /\ \A c \in Candidates :
                        status'[c] = "applied" => status[c] = "applied"
<1>1. ASSUME NEW x \in Runs, NEW c \in Candidates, NEW new \in BOOLEAN,
             NEW withClaims \in BOOLEAN, Find(x, c, new, withClaims)
      PROVE  Kept
  BY <1>1 DEF Find, founders, Links, TypeOK
<1>2. ASSUME NEW x \in Runs, FinishSourcing(x) PROVE Kept
  <2>1. \E ok : status' = [c \in Candidates |->
                  IF c \in ok THEN AssessedStatus(Bundle(c)) ELSE status[c]]
    BY <1>2 DEF FinishSourcing
  <2>2. \A c \in Candidates : status'[c] = "applied" => status[c] = "applied"
    BY <2>1 DEF AssessedStatus
  <2>3. QED
    BY <1>2, <2>2 DEF FinishSourcing, founders, Links
<1>3. ASSUME NEW c \in Candidates, StartPreliminaryAssessment(c) PROVE Kept
  BY <1>3 DEF StartPreliminaryAssessment, AssessedStatus, founders, Links, TypeOK
<1>4. ASSUME NEW c \in Candidates, Activate(c) PROVE Kept
  BY <1>4 DEF Activate, founders, Links, TypeOK
<1>5. ASSUME NEW c \in Candidates, RecordOutreach(c) PROVE Kept
  BY <1>5 DEF RecordOutreach, founders, Links, TypeOK
<1>6. ASSUME NEW s \in Submitters, NEW a \in Applications, BeginSubmit(s, a)
      PROVE  Kept
  BY <1>6 DEF BeginSubmit, Links
<1>7. QED
  BY <1>1, <1>2, <1>3, <1>4, <1>5, <1>6 DEF Next

(* An application that has no origin yet is on no link.                    *)
LEMMA FreshIsUnlinked ==
  ASSUME LinksInv, NEW a \in Applications, origin[a] = None
  PROVE  /\ a \notin answered
         /\ candidateOf[a] = None
         /\ \A c \in Candidates : linkOf[c] # a
<1>1. a \notin answered
  BY DEF LinksInv, AnsweredAreRegistered
<1>2. candidateOf[a] = None
  BY DEF LinksInv, LinksAgree
<1>3. ASSUME NEW c \in Candidates PROVE linkOf[c] # a
  <2>1. linkOf[c] = a <=> candidateOf[a] = c
    BY DEF LinksInv, LinksAgree
  <2>2. QED
    BY <1>2, <2>1, CandidatesAssumption
<1>4. QED
  BY <1>1, <1>2, <1>3

(* A submission that registers a new application.                          *)
LEMMA RegisterStep ==
  ASSUME LinksInv, TypeOK', NEW s \in Submitters, NEW a \in Applications,
         a = call[s], FinishSubmit(s), Registrable(a), origin[a] = None
  PROVE  LinksInv'
<1>1. /\ Register(a) /\ answered' = answered \cup {a}
      /\ intake' = intake \cup {a}
  BY DEF FinishSubmit
<1>2. TypeOK /\ a \notin answered /\ candidateOf[a] = None
  BY FreshIsUnlinked DEF LinksInv
<1>3. \A c \in Candidates : linkOf[c] # a
  BY FreshIsUnlinked
<1>4. /\ origin'[a] = Expected(a)
      /\ \A b \in Applications \ {a} : origin'[b] = origin[b]
  BY <1>1, <1>2 DEF Register, TypeOK
<1>5. AnsweredAreRegistered'
  BY <1>1, <1>4, ExpectedType DEF AnsweredAreRegistered, LinksInv, Expected
<1>6. UnregisteredCameThroughLink'
  BY <1>1, <1>4 DEF UnregisteredCameThroughLink, LinksInv, TypeOK
<1>7. CASE a.company = None
  <2>1. UNCHANGED <<linkOf, candidateOf, status>> /\ Expected(a) = "inbound"
    BY <1>1, <1>7 DEF Register, Expected
  <2>2. LinksAgree'
    BY <1>2, <1>4, <2>1, CandidatesAssumption DEF LinksInv, LinksAgree
  <2>3. AppliedHasApplication'
    BY <1>1, <2>1 DEF LinksInv, AppliedHasApplication
  <2>4. QED
    BY <1>5, <1>6, <2>2, <2>3 DEF LinksInv
<1>8. CASE a.company # None
  <2> DEFINE c == a.company
  <2>1. c \in Candidates /\ Expected(a) = c
    BY <1>8, ExpectedType
  <2>2. linkOf[c] = None
    BY <1>3, <1>8, <2>1 DEF Registrable
  <2>3. /\ linkOf' = [linkOf EXCEPT ![c] = a]
        /\ candidateOf' = [candidateOf EXCEPT ![a] = c]
        /\ status' = [status EXCEPT ![c] = "applied"]
    BY <1>1, <1>8 DEF Register
  <2>4. /\ linkOf'[c] = a /\ candidateOf'[a] = c
        /\ \A d \in Candidates \ {c} : linkOf'[d] = linkOf[d] /\ status'[d] = status[d]
        /\ \A b \in Applications \ {a} : candidateOf'[b] = candidateOf[b]
    BY <1>2, <2>1, <2>3 DEF TypeOK
  <2>5. \A d \in Candidates, b \in Applications : linkOf'[d] = b <=> candidateOf'[b] = d
    <3>1. \A b \in Applications \ {a} : candidateOf[b] # c
      BY <2>1, <2>2, CandidatesAssumption DEF LinksInv, LinksAgree
    <3>2. \A d \in Candidates, b \in Applications : linkOf[d] = b <=> candidateOf[b] = d
      BY DEF LinksInv, LinksAgree
    <3>3. QED
      BY <1>3, <2>1, <2>4, <3>1, <3>2
  <2>6. LinksAgree'
    BY <1>4, <2>1, <2>4, <2>5 DEF LinksInv, LinksAgree
  <2>7. AppliedHasApplication'
    BY <1>1, <2>4 DEF LinksInv, AppliedHasApplication
  <2>8. QED
    BY <1>5, <1>6, <2>6, <2>7 DEF LinksInv
<1>9. QED
  BY <1>7, <1>8

(* A submission that is refused: it came through a link, for what was not  *)
(* refused the first time is never refused unless its link is.             *)
LEMMA RefuseStep ==
  ASSUME LinksInv, TypeOK', NEW s \in Submitters, NEW a \in Applications,
         a = call[s], FinishSubmit(s), ~Registrable(a)
  PROVE  LinksInv'
<1>1. /\ UNCHANGED <<linkOf, candidateOf, origin, status, answered>>
      /\ intake' = intake \cup {a}
  BY DEF FinishSubmit
<1>2. a.company = None => candidateOf[a] = None
  BY DEF LinksInv, LinksAgree
<1>3. a.company # None
  BY <1>2 DEF LinksInv, AnsweredAreRegistered, Registrable
<1>4. a \notin answered => origin[a] = None
  BY DEF LinksInv, AnsweredAreRegistered
<1>5. UnregisteredCameThroughLink'
  BY <1>1, <1>3, <1>4 DEF LinksInv, UnregisteredCameThroughLink
<1>6. QED
  BY <1>1, <1>5 DEF LinksInv, LinksAgree, AnsweredAreRegistered, AppliedHasApplication

(* Every step keeps the links consistent.                                  *)
LEMMA LinksStep == LinksInv /\ [Next]_vars => LinksInv'
<1> SUFFICES ASSUME LinksInv, [Next]_vars PROVE LinksInv'
  OBVIOUS
<1>1. TypeOK'
  BY TypeStep DEF LinksInv
<1>2. ASSUME NEW s \in Submitters, FinishSubmit(s) PROVE LinksInv'
  <2> DEFINE a == call[s]
  <2>1. a \in Applications
    BY <1>2 DEF FinishSubmit, LinksInv, TypeOK
  <2>2. CASE Registrable(a) /\ origin[a] = None
    BY <1>1, <1>2, <2>1, <2>2, RegisterStep
  <2>3. CASE ~Registrable(a)
    BY <1>1, <1>2, <2>1, <2>3, RefuseStep
  <2>4. CASE Registrable(a) /\ origin[a] # None
    <3>1. a \in answered
      BY <2>1, <2>4 DEF LinksInv, AnsweredAreRegistered
    <3>2. /\ UNCHANGED <<linkOf, candidateOf, origin, status, answered>>
          /\ intake' = intake \cup {a}
      BY <1>2, <2>4, <3>1 DEF FinishSubmit, Replay
    <3>3. QED
      BY <1>1, <3>1, <3>2 DEF LinksInv, LinksAgree, AnsweredAreRegistered,
         AppliedHasApplication, UnregisteredCameThroughLink
  <2>5. QED
    BY <2>2, <2>3, <2>4
<1>3. CASE Next /\ ~ \E s \in Submitters : FinishSubmit(s)
  <2>1. /\ UNCHANGED Links
        /\ \A c \in Candidates : status'[c] = "applied" => status[c] = "applied"
    BY <1>3, OtherSteps DEF LinksInv
  <2>2. QED
    BY <1>1, <2>1 DEF Links, LinksInv, LinksAgree, AnsweredAreRegistered,
       AppliedHasApplication, UnregisteredCameThroughLink
<1>4. CASE UNCHANGED vars
  BY <1>1, <1>4 DEF vars, LinksInv, LinksAgree, AnsweredAreRegistered,
     AppliedHasApplication, UnregisteredCameThroughLink
<1>5. QED
  BY <1>2, <1>3, <1>4

(* The links are consistent in every reachable state.                      *)
LEMMA LinksAlways == Spec => []LinksInv
<1>1. Init => LinksInv
  <2> SUFFICES ASSUME Init PROVE LinksInv
    OBVIOUS
  <2>1. TypeOK
    BY DEF Init, TypeOK, Statuses
  <2>2. LinksAgree
    BY CandidatesAssumption DEF Init, LinksAgree
  <2>3. AnsweredAreRegistered /\ AppliedHasApplication /\ UnregisteredCameThroughLink
    BY DEF Init, AnsweredAreRegistered, AppliedHasApplication, UnregisteredCameThroughLink
  <2>4. QED
    BY <2>1, <2>2, <2>3 DEF LinksInv
<1>2. QED
  BY <1>1, LinksStep, PTL DEF Spec

-----------------------------------------------------------------------------
(* Results.                                                                *)

(* register_application() keeps both directions of every link, the origin  *)
(* of its opportunity and the candidate's status in agreement, whatever    *)
(* races for the link.                                                     *)
THEOREM LinksConsistent == Spec => []LinksHold
<1>1. LinksInv => LinksHold
  BY DEF LinksInv, LinksHold
<1>2. QED
  BY <1>1, LinksAlways, PTL

(* One deck is ever answered for through one candidate's link.             *)
THEOREM OnePerLink == Spec => []OneApplicationPerLink
<1>1. LinksInv => OneApplicationPerLink
  <2> SUFFICES ASSUME LinksInv, NEW a \in answered, NEW b \in answered,
                      a.company # None, a.company = b.company
               PROVE  a = b
    BY DEF OneApplicationPerLink
  <2>1. a \in Applications /\ b \in Applications
    BY DEF LinksInv, TypeOK
  <2>2. a.company \in Candidates
    BY <2>1, ExpectedType
  <2>3. origin[a] = a.company /\ origin[b] = a.company
    BY <2>1, <2>2, ExpectedType DEF LinksInv, AnsweredAreRegistered
  <2>4. candidateOf[a] = a.company /\ candidateOf[b] = a.company
    BY <2>1, <2>2, <2>3 DEF LinksInv, LinksAgree
  <2>5. linkOf[a.company] = a /\ linkOf[a.company] = b
    BY <2>1, <2>2, <2>4 DEF LinksInv, LinksAgree
  <2>6. QED
    BY <2>5
<1>2. QED
  BY <1>1, LinksAlways, PTL

(* Only submissions through a link can be in the intake without an         *)
(* opportunity: the handler never loses a direct Application it accepted.  *)
THEOREM OnlyLinkedRefused == Spec => []UnregisteredCameThroughLink
<1>1. LinksInv => UnregisteredCameThroughLink
  BY DEF LinksInv
<1>2. QED
  BY <1>1, LinksAlways, PTL

(* A link is filled once, while its candidate is invited, whenever the     *)
(* submission that fills it had resolved it.                               *)
THEOREM FilledWhileInvited == Spec => LinkedWhileInvited
<1> DEFINE Step == /\ \A c \in Candidates : linkOf'[c] # linkOf[c] =>
                        /\ linkOf[c] = None
                        /\ status[c] \in {"activated", "contacted"}
                   /\ \A a \in Applications : origin'[a] # origin[a] => origin[a] = None
<1>1. LinksInv /\ [Next]_vars =>
        [ /\ \A c \in Candidates : linkOf'[c] # linkOf[c] =>
               linkOf[c] = None /\ status[c] \in {"activated", "contacted"}
          /\ \A a \in Applications : origin'[a] # origin[a] => origin[a] = None
        ]_vars
  <2> SUFFICES ASSUME LinksInv, Next PROVE Step
    OBVIOUS
  <2>1. ASSUME NEW s \in Submitters, FinishSubmit(s) PROVE Step
    <3> DEFINE a == call[s]
    <3>1. a \in Applications /\ TypeOK
      BY <2>1 DEF FinishSubmit, LinksInv, TypeOK
    <3>2. CASE Registrable(a) /\ origin[a] = None
      <4>1. Register(a) /\ \A c \in Candidates : linkOf[c] # a
        BY <2>1, <3>1, <3>2, FreshIsUnlinked DEF FinishSubmit
      <4>2. \A b \in Applications : origin'[b] # origin[b] => b = a
        BY <3>1, <4>1 DEF Register, TypeOK
      <4>3. \A c \in Candidates : linkOf'[c] # linkOf[c] => c = a.company /\ a.company # None
        BY <3>1, <4>1 DEF Register, TypeOK
      <4>4. QED
        BY <3>2, <4>1, <4>2, <4>3 DEF Registrable, Available
    <3>3. CASE ~(Registrable(a) /\ origin[a] = None)
      BY <2>1, <3>3 DEF FinishSubmit, Replay
    <3>4. QED
      BY <3>2, <3>3
  <2>2. CASE ~ \E s \in Submitters : FinishSubmit(s)
    BY <2>2, OtherSteps DEF LinksInv, Links
  <2>3. QED
    BY <2>1, <2>2
<1>2. QED
  BY <1>1, LinksAlways, PTL DEF Spec, LinkedWhileInvited

(* What a step may do to the workflow status of a candidate.               *)
LEMMA StatusStep ==
  ASSUME TypeOK, Next, NEW c \in Candidates, status'[c] # status[c]
  PROVE  \/ status'[c] = "contacted" /\ status[c] \in {"activated", "contacted"}
         \/ status'[c] = "activated" /\ status[c] = "ready_for_activation"
         \/ status'[c] = "discovered" /\ status[c] = "unseeded"
         \/ status'[c] \in {"applied", "ready_for_activation", "preliminary_assessment"}
<1> DEFINE Move ==
      \/ status'[c] = "contacted" /\ status[c] \in {"activated", "contacted"}
      \/ status'[c] = "activated" /\ status[c] = "ready_for_activation"
      \/ status'[c] = "discovered" /\ status[c] = "unseeded"
      \/ status'[c] \in {"applied", "ready_for_activation", "preliminary_assessment"}
<1>1. ASSUME NEW x \in Runs, NEW d \in Candidates, NEW new \in BOOLEAN,
             NEW withClaims \in BOOLEAN, Find(x, d, new, withClaims)
      PROVE  Move
  BY <1>1 DEF Find, Seeded, TypeOK
<1>2. ASSUME NEW x \in Runs, FinishSourcing(x) PROVE Move
  <2>1. \E ok : status' = [d \in Candidates |->
                  IF d \in ok THEN AssessedStatus(Bundle(d)) ELSE status[d]]
    BY <1>2 DEF FinishSourcing
  <2>2. QED
    BY <2>1 DEF AssessedStatus
<1>3. ASSUME NEW d \in Candidates,
             StartPreliminaryAssessment(d) \/ Activate(d) \/ RecordOutreach(d)
      PROVE  Move
  BY <1>3 DEF StartPreliminaryAssessment, AssessedStatus, Activate, RecordOutreach, TypeOK
<1>4. ASSUME NEW s \in Submitters, FinishSubmit(s) PROVE Move
  <2>1. \/ UNCHANGED status
        \/ status' = [status EXCEPT ![call[s].company] = "applied"]
    BY <1>4 DEF FinishSubmit, Register, Replay
  <2>2. QED
    BY <2>1 DEF TypeOK
<1>5. ASSUME NEW s \in Submitters, NEW a \in Applications, BeginSubmit(s, a)
      PROVE  Move
  BY <1>5 DEF BeginSubmit
<1>6. QED
  BY <1>1, <1>2, <1>3, <1>4, <1>5 DEF Next

(* No outreach without an activation, no activation without a supported    *)
(* assessment, and once applied a candidate is moved by assessments only.  *)
THEOREM StatusCommanded == Spec => StatusFollowsCommands
<1>1. TypeOK /\ [Next]_vars =>
        [\A c \in Candidates : status'[c] # status[c] =>
           /\ status'[c] = "contacted" => status[c] = "activated"
           /\ status'[c] = "activated" => status[c] = "ready_for_activation"
           /\ status[c] = "applied" =>
                status'[c] \in {"ready_for_activation", "preliminary_assessment"}]_vars
  BY StatusStep
<1>2. QED
  BY <1>1, Typing, PTL DEF Spec, StatusFollowsCommands
=============================================================================

------------------------------- MODULE Intake -------------------------------
(***************************************************************************)
(* Durable intake of one company's Application deck or of one focused      *)
(* artifact: the SQLite intake repository (intake_repository.py), the      *)
(* private artifact store as intake uses it (artifacts.py) and the service *)
(* that drives both (intake.py).                                           *)
(*                                                                         *)
(* A submission is three durable writes with nothing around them: reserve  *)
(* the request in one transaction, put the bytes, mark the bytes stored in *)
(* a second transaction.  The process may die between any two, and the     *)
(* client then replays the request, with the same idempotency key or with  *)
(* a new one.                                                              *)
(*                                                                         *)
(* A request is a member of Requests: two submissions are the same request *)
(* when their fingerprints agree (same normalized company, media type,     *)
(* content hash and metadata), and requests that fail validation never     *)
(* reach the repository and are not in the set.                            *)
(***************************************************************************)
EXTENDS Naturals, Sequences

CONSTANTS
  Keys,          \* idempotency keys, one name space per kind
  Requests,      \* request fingerprints
  KindOf,        \* the kind of a key and of a request
  Applications,  \* identifiers the id factory hands out (import ids included)
  Submitters,    \* concurrent submit or import_focused_artifact calls
  Extractors,    \* concurrent extract_deck calls
  Results,       \* deck extractions an extractor may return
  Pending,       \* "no extraction attempted yet"
  Unknown,       \* "the last extraction attempt failed"
  None,          \* no row, no file
  Parallel,      \* TRUE: callers are threads; FALSE: one event loop
  MaxFailures    \* bound: failed attempts recorded per Application

Kinds    == {"application", "focused_artifact"}
Outcomes == {"succeeded", "failed", "blocked"}

ASSUME IntakeAssumption ==
  /\ KindOf \in [Keys \cup Requests -> Kinds]
  /\ None \notin Applications \cup Requests \cup Results
  /\ None \notin [request : Requests, app : Applications]
  /\ Pending \notin Results /\ Unknown \notin Results /\ Pending # Unknown
  /\ Parallel \in BOOLEAN
  /\ MaxFailures \in Nat

VARIABLES
  entity,     \* intake_entities: the application holding each fingerprint
  keyRow,     \* intake_idempotency_keys: request and application of each key
  history,    \* intake_revisions: every revision of each application
  blob,       \* the artifact store: the request whose bytes each file holds
  submit,     \* progress of each submission
  extract,    \* progress of each extraction: idle, or awaiting for application
  accepted,   \* answers given to clients
  extracted   \* extractions returned to callers of extract_deck

vars == <<entity, keyRow, history, blob, submit, extract, accepted, extracted>>

durable == <<entity, keyRow, history, blob>>


(* One revision of an ApplicationIntakeRecord or FocusedArtifactRecord.    *)
Record == [request : Requests, stored : BOOLEAN,
           extraction : Results \cup {Pending, Unknown},
           attempts : Seq(Outcomes)]

KeyRow == [request : Requests, app : Applications]
Answer == [key : Keys, request : Requests, app : Applications,
           replayed : BOOLEAN]
Idle   == [pc |-> "idle"]
Call   == {Idle} \cup
          [pc : {"put", "linked", "mark", "answer"}, ask : Answer, created : BOOLEAN]

TypeOK ==
  /\ entity \in [Requests -> Applications \cup {None}]
  /\ keyRow \in [Keys -> KeyRow \cup {None}]
  /\ history \in [Applications -> Seq(Record)]
  /\ blob \in [Applications -> Requests \cup {None}]
  /\ submit \in [Submitters -> Call]
  /\ extract \in [Extractors -> Applications \cup {None}]
  /\ accepted \subseteq Answer
  /\ extracted \subseteq Applications \X Results

Init ==
  /\ entity = [f \in Requests |-> None]
  /\ keyRow = [k \in Keys |-> None]
  /\ history = [a \in Applications |-> <<>>]
  /\ blob = [a \in Applications |-> None]
  /\ submit = [s \in Submitters |-> Idle]
  /\ extract = [x \in Extractors |-> None]
  /\ accepted = {}
  /\ extracted = {}

-----------------------------------------------------------------------------
Latest(a)   == history[a][Len(history[a])]
Recorded(a) == history[a] # <<>>
Settled(a)  == Latest(a).extraction \in Results

NewRecord(f) == [request |-> f, stored |-> FALSE, extraction |-> Pending,
                 attempts |-> <<>>]

(* Every write of a revision: the latest record with some fields replaced. *)
AppendRevision(a, rec) == history' = [history EXCEPT ![a] = Append(@, rec)]

(* On one event loop a submission has no await, so nothing else runs       *)
(* between its steps; threads interleave them freely.                      *)
MayRun(s) == Parallel \/ \A t \in Submitters \ {s} : submit[t] = Idle
LoopFree  == Parallel \/ \A t \in Submitters : submit[t] = Idle

-----------------------------------------------------------------------------
(* Submissions.                                                            *)

(* Definitions whose names end in "Bug" are not part of the specification: *)
(* each is a plausible slip in the code it stands before, kept to show     *)
(* that some property notices it.                                          *)
ProceedAnswersBug(s, ask, stored) ==
  submit' = [submit EXCEPT ![s] =
    [pc |-> IF stored \/ ask.replayed THEN "answer" ELSE "put",
     ask |-> ask, created |-> FALSE]]

ProceedMarksBug(s, ask, stored) ==
  submit' = [submit EXCEPT ![s] =
    [pc |-> IF stored THEN "answer" ELSE IF ask.replayed THEN "mark" ELSE "put",
     ask |-> ask, created |-> FALSE]]

(* What submit() does with a reservation: answer at once when the bytes    *)
(* are already marked stored, otherwise go on to put them.                 *)
Proceed(s, ask, stored) ==
  submit' = [submit EXCEPT ![s] = [pc |-> IF stored THEN "answer" ELSE "put",
                                   ask |-> ask, created |-> FALSE]]

ReserveByKeyCreatesBug(s, k, f) ==
  /\ keyRow[k] # None /\ keyRow[k].request = f
  /\ Proceed(s, [key |-> k, request |-> f, app |-> keyRow[k].app,
                 replayed |-> Latest(keyRow[k].app).stored],
                Latest(keyRow[k].app).stored)
  /\ UNCHANGED <<entity, keyRow, history>>

ReserveByKeyRefusesBug(s, k, f) ==
  /\ keyRow[k] # None /\ keyRow[k].request = f
  /\ Latest(keyRow[k].app).stored
  /\ Proceed(s, [key |-> k, request |-> f, app |-> keyRow[k].app,
                 replayed |-> TRUE], TRUE)
  /\ UNCHANGED <<entity, keyRow, history>>

(* The key is known with the same fingerprint: the latest record is        *)
(* returned.  (With another fingerprint the submission is refused and      *)
(* changes nothing.)                                                       *)
ReserveByKey(s, k, f) ==
  /\ keyRow[k] # None /\ keyRow[k].request = f
  /\ Proceed(s, [key |-> k, request |-> f, app |-> keyRow[k].app,
                 replayed |-> TRUE], Latest(keyRow[k].app).stored)
  /\ UNCHANGED <<entity, keyRow, history>>

ReserveByFingerprintNoKeyBug(s, k, f) ==
  /\ keyRow[k] = None /\ entity[f] # None
  /\ Proceed(s, [key |-> k, request |-> f, app |-> entity[f],
                 replayed |-> TRUE], Latest(entity[f]).stored)
  /\ UNCHANGED <<entity, keyRow, history>>

(* A new key for a fingerprint that already has its application.           *)
ReserveByFingerprint(s, k, f) ==
  /\ keyRow[k] = None /\ entity[f] # None
  /\ keyRow' = [keyRow EXCEPT ![k] = [request |-> f, app |-> entity[f]]]
  /\ Proceed(s, [key |-> k, request |-> f, app |-> entity[f],
                 replayed |-> TRUE], Latest(entity[f]).stored)
  /\ UNCHANGED <<entity, history>>

ReserveNewUncheckedBug(s, k, f) ==
  /\ keyRow[k] = None
  /\ \E a \in Applications :
       /\ ~Recorded(a)
       /\ entity' = [entity EXCEPT ![f] = a]
       /\ keyRow' = [keyRow EXCEPT ![k] = [request |-> f, app |-> a]]
       /\ AppendRevision(a, NewRecord(f))
       /\ Proceed(s, [key |-> k, request |-> f, app |-> a,
                      replayed |-> FALSE], FALSE)

(* A new key and a new fingerprint: entity, key and first revision in one  *)
(* transaction, under a fresh identifier.                                  *)
ReserveNew(s, k, f) ==
  /\ keyRow[k] = None /\ entity[f] = None
  /\ \E a \in Applications :
       /\ ~Recorded(a)
       /\ entity' = [entity EXCEPT ![f] = a]
       /\ keyRow' = [keyRow EXCEPT ![k] = [request |-> f, app |-> a]]
       /\ AppendRevision(a, NewRecord(f))
       /\ Proceed(s, [key |-> k, request |-> f, app |-> a,
                      replayed |-> FALSE], FALSE)

Reserve(s, k, f) ==
  /\ submit[s] = Idle /\ MayRun(s) /\ KindOf[k] = KindOf[f]
  /\ \/ ReserveByKey(s, k, f)
     \/ ReserveByFingerprint(s, k, f)
     \/ ReserveNew(s, k, f)
  /\ UNCHANGED <<blob, extract, accepted, extracted>>

(* put(), first half: hard-link the pending file, or find the same bytes   *)
(* there already.  Only the caller whose link succeeded has created it.    *)
LinkBlob(s) ==
  LET a == submit[s].ask.app  f == submit[s].ask.request IN
  /\ submit[s].pc = "put" /\ MayRun(s)
  /\ blob[a] \in {None, f}
  /\ blob' = [blob EXCEPT ![a] = f]
  /\ submit' = [submit EXCEPT ![s].pc = "linked",
                              ![s].created = (blob[a] = None)]
  /\ UNCHANGED <<entity, keyRow, history, extract, accepted, extracted>>

(* put(), second half: the bucket and the root are still the ones opened.  *)
ConfirmBlob(s) ==
  /\ submit[s].pc = "linked" /\ MayRun(s)
  /\ submit' = [submit EXCEPT ![s].pc = "mark"]
  /\ UNCHANGED <<durable, extract, accepted, extracted>>

(* The submission fails with a storage or persistence error: before the    *)
(* link, after it (the caller that created the file unlinks it, and an     *)
(* error of that clean-up is suppressed) or in the second transaction,     *)
(* which then rolls back.                                                  *)
SubmitError(s) ==
  /\ submit[s].pc \in {"put", "linked", "mark"} /\ MayRun(s)
  /\ \/ UNCHANGED blob
     \/ /\ submit[s].pc = "linked" /\ submit[s].created
        /\ blob' = [blob EXCEPT ![submit[s].ask.app] = None]
  /\ submit' = [submit EXCEPT ![s] = Idle]
  /\ UNCHANGED <<entity, keyRow, history, extract, accepted, extracted>>

MarkStoredStaleBug(s) ==
  LET a == submit[s].ask.app IN
  /\ submit[s].pc = "mark" /\ MayRun(s)
  /\ AppendRevision(a, [NewRecord(submit[s].ask.request) EXCEPT !.stored = TRUE])
  /\ submit' = [submit EXCEPT ![s].pc = "answer"]
  /\ UNCHANGED <<entity, keyRow, blob, extract, accepted, extracted>>

(* Second transaction, idempotent.                                         *)
MarkStored(s) ==
  LET a == submit[s].ask.app IN
  /\ submit[s].pc = "mark" /\ MayRun(s)
  /\ IF Latest(a).stored
       THEN UNCHANGED history
       ELSE AppendRevision(a, [Latest(a) EXCEPT !.stored = TRUE])
  /\ submit' = [submit EXCEPT ![s].pc = "answer"]
  /\ UNCHANGED <<entity, keyRow, blob, extract, accepted, extracted>>

(* The client gets its AcceptedApplication (or FocusedArtifactRecord).     *)
AnswerClient(s) ==
  /\ submit[s].pc = "answer" /\ MayRun(s)
  /\ accepted' = accepted \cup {submit[s].ask}
  /\ submit' = [submit EXCEPT ![s] = Idle]
  /\ UNCHANGED <<durable, extract, extracted>>

-----------------------------------------------------------------------------
(* Extraction of an application's deck.                                    *)

(* extract_deck() answers from the record when an extraction was accepted. *)
ReturnAccepted(a) ==
  /\ LoopFree /\ Recorded(a) /\ Settled(a)
  /\ extracted' = extracted \cup {<<a, Latest(a).extraction>>}
  /\ UNCHANGED <<durable, submit, extract, accepted>>

StartExtractionEarlyBug(x, a) ==
  /\ extract[x] = None /\ LoopFree
  /\ Recorded(a) /\ KindOf[Latest(a).request] = "application"
  /\ ~Settled(a) /\ blob[a] = Latest(a).request
  /\ extract' = [extract EXCEPT ![x] = a]
  /\ UNCHANGED <<durable, submit, accepted, extracted>>

(* Otherwise it needs the stored bytes, verified, and awaits the extractor.*)
StartExtraction(x, a) ==
  /\ extract[x] = None /\ LoopFree
  /\ Recorded(a) /\ KindOf[Latest(a).request] = "application"
  /\ ~Settled(a) /\ Latest(a).stored /\ blob[a] = Latest(a).request
  /\ extract' = [extract EXCEPT ![x] = a]
  /\ UNCHANGED <<durable, submit, accepted, extracted>>

FinishExtractionReplacesBug(x, r) ==
  LET a == extract[x] IN
  /\ a # None /\ LoopFree
  /\ AppendRevision(a, [Latest(a) EXCEPT
       !.extraction = r, !.attempts = Append(@, "succeeded")])
  /\ extracted' = extracted \cup {<<a, r>>}
  /\ extract' = [extract EXCEPT ![x] = None]
  /\ UNCHANGED <<entity, keyRow, blob, submit, accepted>>

(* The extractor answers r; it is recorded unless another extraction was   *)
(* accepted meanwhile, which is never replaced: then the caller gets an    *)
(* error, or r itself when it is the very same extraction.                 *)
FinishExtraction(x, r) ==
  LET a == extract[x] IN
  /\ a # None /\ LoopFree
  /\ IF Settled(a)
       THEN UNCHANGED history
       ELSE AppendRevision(a, [Latest(a) EXCEPT
              !.extraction = r, !.attempts = Append(@, "succeeded")])
  /\ extracted' = IF Settled(a) /\ Latest(a).extraction # r
                    THEN extracted ELSE extracted \cup {<<a, r>>}
  /\ extract' = [extract EXCEPT ![x] = None]
  /\ UNCHANGED <<entity, keyRow, blob, submit, accepted>>

FailExtractionOverwritesBug(x, status) ==
  LET a == extract[x] IN
  /\ a # None /\ LoopFree
  /\ Len(Latest(a).attempts) < MaxFailures + 1
  /\ AppendRevision(a, [Latest(a) EXCEPT
       !.extraction = Unknown, !.attempts = Append(@, status)])
  /\ extract' = [extract EXCEPT ![x] = None]
  /\ UNCHANGED <<entity, keyRow, blob, submit, accepted, extracted>>

FailExtractionStatusBug(x, status) ==
  LET a == extract[x] IN
  /\ a # None /\ LoopFree /\ ~Settled(a)
  /\ Len(Latest(a).attempts) < MaxFailures
  /\ AppendRevision(a, [Latest(a) EXCEPT
       !.extraction = status, !.attempts = Append(@, status)])
  /\ extract' = [extract EXCEPT ![x] = None]
  /\ UNCHANGED <<entity, keyRow, blob, submit, accepted, extracted>>

(* The extractor fails or is blocked: an attempt is recorded, again only   *)
(* while no extraction has been accepted.                                  *)
FailExtraction(x, status) ==
  LET a == extract[x] IN
  /\ a # None /\ LoopFree
  /\ IF Settled(a)
       THEN UNCHANGED history
       ELSE /\ Len(Latest(a).attempts) < MaxFailures
            /\ AppendRevision(a, [Latest(a) EXCEPT
                 !.extraction = Unknown, !.attempts = Append(@, status)])
  /\ extract' = [extract EXCEPT ![x] = None]
  /\ UNCHANGED <<entity, keyRow, blob, submit, accepted, extracted>>

(* Whatever the extractor said, recording it fails with a storage error:   *)
(* the transaction rolls back and the caller gets no extraction.           *)
ExtractionError(x) ==
  /\ extract[x] # None /\ LoopFree
  /\ extract' = [extract EXCEPT ![x] = None]
  /\ UNCHANGED <<durable, submit, accepted, extracted>>

-----------------------------------------------------------------------------
(* The process dies: every call in progress is lost, every write stays.    *)
Crash ==
  /\ submit' = [s \in Submitters |-> Idle]
  /\ extract' = [x \in Extractors |-> None]
  /\ UNCHANGED <<durable, accepted, extracted>>

Next ==
  \/ \E s \in Submitters :
       \/ \E k \in Keys, f \in Requests : Reserve(s, k, f)
       \/ LinkBlob(s)
       \/ ConfirmBlob(s)
       \/ SubmitError(s)
       \/ MarkStored(s)
       \/ AnswerClient(s)
  \/ \E a \in Applications :
       \/ ReturnAccepted(a)
       \/ \E x \in Extractors : StartExtraction(x, a)
  \/ \E x \in Extractors :
       \/ \E r \in Results : FinishExtraction(x, r)
       \/ \E status \in {"failed", "blocked"} : FailExtraction(x, status)
       \/ ExtractionError(x)
  \/ Crash

Spec == Init /\ [][Next]_vars

-----------------------------------------------------------------------------
(* Properties.                                                             *)

(* A fingerprint has one application for ever, a key one request, and each *)
(* key leads to the application of its request: _reserve() keeps the three *)
(* tables consistent whatever keys and requests are mixed, by any callers. *)
TablesAgree ==
  /\ \A f \in Requests : entity[f] # None =>
       /\ Recorded(entity[f])
       /\ \A i \in DOMAIN history[entity[f]] :
            history[entity[f]][i].request = f
  /\ \A k \in Keys : keyRow[k] # None => entity[keyRow[k].request] = keyRow[k].app
  /\ \A a \in Applications : Recorded(a) => entity[Latest(a).request] = a

BoundTo(p) == keyRow[p.key] = [request |-> p.request, app |-> p.app]

(* Every answer, first or replayed, before or after a crash, names the one *)
(* application of its request, whose deck is durably marked stored.        *)
AcceptedIsDurable ==
  \A p \in accepted : BoundTo(p) /\ Latest(p.app).stored

(* Of all the calls that race for one request at most one is told that it  *)
(* created the application (replayed = FALSE), even across crashes.        *)
CreatedOnce ==
  /\ \A p, q \in accepted :
       p.app = q.app /\ ~p.replayed /\ ~q.replayed => p = q
  /\ \A s \in Submitters : submit[s] # Idle /\ ~submit[s].ask.replayed =>
       /\ \A p \in accepted : p.app = submit[s].ask.app => p.replayed
       /\ \A t \in Submitters \ {s} :
            submit[t] # Idle /\ submit[t].ask.app = submit[s].ask.app
              => submit[t].ask.replayed

(* On one event loop a record marked stored has its bytes in the artifact  *)
(* store, and they are the bytes its fingerprint covers: no failed put     *)
(* removes a file that another submission relies on.                       *)
StoredHasBytes ==
  ~Parallel => \A a \in Applications :
    Recorded(a) /\ Latest(a).stored => blob[a] = Latest(a).request

(* The same without the event loop: once a client has its answer the bytes *)
(* of its deck stay.  The artifact store calls itself append-only, but a   *)
(* put that fails after its link unlinks the file, also under a submission *)
(* that found the same bytes there and was answered meanwhile.             *)
AnsweredBytesStay == \A p \in accepted : blob[p.app] = p.request

(* The revisions of an application only move forward: stored stays stored, *)
(* an accepted extraction is repeated unchanged by every later revision,   *)
(* and no recorded attempt disappears.  The attempts explain the latest    *)
(* extraction: none while pending, failures only while unknown, and one    *)
(* success, the last, once it is accepted.                                 *)
HistoryMovesForward ==
  \A a \in Applications :
    /\ \A j \in DOMAIN history[a] : \A i \in 1..j :
         LET old == history[a][i]  new == history[a][j] IN
         /\ old.stored => new.stored
         /\ old.extraction \in Results => new.extraction = old.extraction
         /\ old.attempts = SubSeq(new.attempts, 1, Len(old.attempts))
    /\ Recorded(a) =>
         LET rec == Latest(a)  n == Len(rec.attempts) IN
         /\ rec.extraction = Pending <=> n = 0
         /\ Settled(a) <=> n > 0 /\ rec.attempts[n] = "succeeded"
         /\ \A i \in 1..(n - 1) : rec.attempts[i] # "succeeded"

(* All callers of extract_deck that get an answer get the same one, and it *)
(* is the one on record, although their extractors raced.                  *)
ExtractionsAgree ==
  \A p \in extracted : Recorded(p[1]) /\ Latest(p[1]).extraction = p[2]

(* What intake promises, whatever its three writes: IdempotentIntake, with *)
(* an application's deck held once it is marked stored and its bytes are   *)
(* there.  On one event loop every step of intake is a step of the promise.*)
Promise == INSTANCE IdempotentIntake WITH
  owner    <- entity,
  held     <- {a \in Applications : Recorded(a) /\ Latest(a).stored
                                    /\ blob[a] = Latest(a).request},
  answered <- {<<p.key, p.request, p.app>> : p \in accepted},
  deck     <- [a \in Applications |->
                 IF Recorded(a) /\ Settled(a) THEN Latest(a).extraction
                                              ELSE None]

ImplementsPromise == Promise!Spec

-----------------------------------------------------------------------------
(* Liveness.  The client replays a request until it is answered, the       *)
(* server runs the calls it has begun, and crashes and storage errors do   *)
(* not go on for ever.                                                     *)
Answered(f) == \E p \in accepted : p.request = f

Fails == Crash \/ \E s \in Submitters : SubmitError(s)

Fairness ==
  /\ \A f \in Requests : SF_vars(~Answered(f) /\
       \E s \in Submitters, k \in Keys : keyRow[k] # None /\ Reserve(s, k, f))
  /\ \A s \in Submitters :
       WF_vars(LinkBlob(s) \/ ConfirmBlob(s) \/ MarkStored(s) \/ AnswerClient(s))
  /\ <>[][~Fails]_vars

FairSpec == Spec /\ Fairness

(* A request that was once reserved is eventually answered, wherever the   *)
(* first submissions of it broke off.                                      *)
ReservedIsAnswered ==
  \A f \in Requests : entity[f] # None ~> Answered(f)
=============================================================================

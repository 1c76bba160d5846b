---------------------------- MODULE Intake_proofs ----------------------------
(***************************************************************************)
(* Theorems about Intake for every set of keys, requests, applications and *)
(* callers, proved with TLAPS.                                             *)
(***************************************************************************)
EXTENDS Intake, TLAPS

USE IntakeAssumption

(* The latest revision of a recorded application is a record.              *)
LEMMA LatestIsRecord ==
  ASSUME TypeOK, NEW a \in Applications, Recorded(a)
  PROVE  /\ Latest(a) \in Record
         /\ Len(history[a]) \in Nat \ {0}
<1>1. history[a] \in Seq(Record) /\ history[a] # <<>>
  BY DEF TypeOK, Recorded
<1>2. Len(history[a]) \in Nat \ {0}
  BY <1>1
<1>3. QED
  BY <1>1, <1>2 DEF Latest

(* Appending a revision makes it the latest one of its application and     *)
(* leaves every other application alone.                                   *)
LEMMA AppendIsLatest ==
  ASSUME TypeOK, NEW a \in Applications, NEW rec \in Record,
         AppendRevision(a, rec)
  PROVE  /\ history' \in [Applications -> Seq(Record)]
         /\ history'[a] = Append(history[a], rec)
         /\ Latest(a)' = rec /\ Recorded(a)'
         /\ \A b \in Applications \ {a} : history'[b] = history[b]
<1>1. history \in [Applications -> Seq(Record)]
  BY DEF TypeOK
<1>2. history' = [history EXCEPT ![a] = Append(history[a], rec)]
  BY DEF AppendRevision
<1>3. history[a] \in Seq(Record)
  BY <1>1
<1>4. Append(history[a], rec) \in Seq(Record)
  BY <1>3
<1>5. history'[a] = Append(history[a], rec)
  BY <1>1, <1>2
<1>6. /\ Len(Append(history[a], rec)) = Len(history[a]) + 1
      /\ Append(history[a], rec)[Len(history[a]) + 1] = rec
      /\ Append(history[a], rec) # <<>>
  BY <1>3
<1>7. QED
  BY <1>1, <1>2, <1>4, <1>5, <1>6 DEF Latest, Recorded

Busy == [pc : {"put", "linked", "mark", "answer"}, ask : Answer,
         created : BOOLEAN]

(* A call past its reservation carries a well-typed question.              *)
LEMMA BusyCall ==
  ASSUME TypeOK, NEW s \in Submitters, submit[s] # Idle
  PROVE  submit[s] \in Busy
  BY DEF TypeOK, Call, Busy

(* A call in progress holds the identifiers its key is bound to, not those *)
(* it drew itself, and reaches its answer only over a stored deck,         *)
(* whatever other calls did since its reservation.                         *)
CallsBound ==
  \A s \in Submitters : submit[s] # Idle =>
    /\ BoundTo(submit[s].ask)
    /\ submit[s].pc = "answer" => Latest(submit[s].ask.app).stored

(* Extraction only ever concerns a deck that is stored and is an           *)
(* application's, and no later step takes the deck away from it.           *)
ExtractsStoredDecks ==
  \A x \in Extractors : extract[x] # None =>
    /\ Recorded(extract[x]) /\ Latest(extract[x]).stored
    /\ KindOf[Latest(extract[x]).request] = "application"

(* What the intake tables, the calls and the answers keep between them:    *)
(* the inductive invariant behind the theorems below.  TypeOK is not       *)
(* inductive alone, since a step that rewrites the latest revision of an   *)
(* application needs that application to have one.                         *)
TablesInv == TypeOK /\ TablesAgree /\ CallsBound /\ ExtractsStoredDecks
             /\ AcceptedIsDurable

(* A revised record keeps its request and its stored mark.                 *)
Grows(b) == /\ Recorded(b)'
            /\ Latest(b)'.request = Latest(b).request
            /\ Latest(b).stored => Latest(b)'.stored

(* Calls and answers name recorded applications of their own request.      *)
LEMMA BoundIsRecorded ==
  ASSUME TypeOK, TablesAgree, NEW p \in Answer, BoundTo(p)
  PROVE  /\ Recorded(p.app)
         /\ entity[p.request] = p.app
         /\ Latest(p.app).request = p.request
<1>1. /\ p.key \in Keys /\ p.request \in Requests /\ p.app \in Applications
      /\ keyRow[p.key] = [request |-> p.request, app |-> p.app]
  BY DEF Answer, BoundTo
<1>2. keyRow[p.key] # None
  BY <1>1
<1>3. entity[p.request] = p.app
  BY <1>1, <1>2 DEF TablesAgree
<1>4. Recorded(p.app)
  BY <1>1, <1>3 DEF TablesAgree
<1>5. Len(history[p.app]) \in DOMAIN history[p.app]
  BY <1>1, <1>4, LatestIsRecord DEF TypeOK
<1>6. Latest(p.app).request = p.request
  BY <1>1, <1>3, <1>5 DEF TablesAgree, Latest
<1>7. QED
  BY <1>3, <1>4, <1>6

(* A transition that leaves the three tables and every call's place alone. *)
LEMMA TablesKept ==
  ASSUME TablesInv, UNCHANGED <<entity, keyRow, history>>
  PROVE  /\ TablesAgree'
         /\ \A b \in Applications : /\ Latest(b)' = Latest(b)
                                    /\ Recorded(b)' <=> Recorded(b)
         /\ \A p \in Answer : BoundTo(p) => BoundTo(p)'
  BY DEF TablesInv, TablesAgree, Latest, Recorded, BoundTo

(* A revision that keeps the request and the stored mark.                  *)
LEMMA Revise ==
  ASSUME TablesInv, NEW a \in Applications, Recorded(a), NEW rec \in Record,
         rec.request = Latest(a).request, Latest(a).stored => rec.stored,
         AppendRevision(a, rec), UNCHANGED <<entity, keyRow>>
  PROVE  /\ history' \in [Applications -> Seq(Record)]
         /\ TablesAgree'
         /\ \A b \in Applications : Recorded(b) => Grows(b)
         /\ \A p \in Answer : BoundTo(p) => BoundTo(p)'
<1> USE DEF TablesInv
<1>1. /\ history' \in [Applications -> Seq(Record)]
      /\ history'[a] = Append(history[a], rec)
      /\ Latest(a)' = rec /\ Recorded(a)'
      /\ \A b \in Applications \ {a} : history'[b] = history[b]
  BY AppendIsLatest
<1>2. \A b \in Applications \ {a} : /\ Latest(b)' = Latest(b)
                                    /\ Recorded(b)' <=> Recorded(b)
  BY <1>1 DEF Latest, Recorded
<1>3. \A b \in Applications : Recorded(b) => Grows(b)
  BY <1>1, <1>2 DEF Grows
<1>4. entity[rec.request] = a
  BY DEF TablesAgree
<1>5. ASSUME NEW f \in Requests, entity[f] # None
      PROVE  /\ Recorded(entity[f])'
             /\ \A i \in DOMAIN history'[entity[f]] :
                  history'[entity[f]][i].request = f
  <2>1. entity[f] \in Applications
    BY <1>5 DEF TypeOK
  <2>2. CASE entity[f] # a
    <3>1. history'[entity[f]] = history[entity[f]]
      BY <1>1, <2>1, <2>2
    <3>2. /\ Recorded(entity[f])
          /\ \A i \in DOMAIN history[entity[f]] :
               history[entity[f]][i].request = f
      BY <1>5 DEF TablesAgree
    <3>3. QED
      BY <3>1, <3>2 DEF Recorded
  <2>3. CASE entity[f] = a
    <3>1. rec.request = f
      BY <1>5, <2>3, LatestIsRecord DEF TablesAgree, Latest, TypeOK
    <3>2. ASSUME NEW i \in DOMAIN history'[a] PROVE history'[a][i].request = f
      <4>1. history[a] \in Seq(Record)
        BY DEF TypeOK
      <4>2. i \in 1..Len(history[a]) + 1
        BY <1>1, <3>2, <4>1
      <4>3. CASE i = Len(history[a]) + 1
        BY <1>1, <3>1, <4>1, <4>3
      <4>4. CASE i \in 1..Len(history[a])
        <5>1. history'[a][i] = history[a][i]
          BY <1>1, <4>1, <4>4
        <5>2. i \in DOMAIN history[a]
          BY <4>1, <4>4
        <5>3. QED
          BY <1>5, <2>3, <5>1, <5>2 DEF TablesAgree
      <4>5. QED
        BY <4>1, <4>2, <4>3, <4>4
    <3>3. QED
      BY <1>1, <2>3, <3>2
  <2>4. QED
    BY <2>2, <2>3
<1>6. \A k \in Keys : keyRow[k] # None => entity[keyRow[k].request] = keyRow[k].app
  BY DEF TablesAgree
<1>7. \A b \in Applications : Recorded(b)' => entity[Latest(b)'.request] = b
  BY <1>1, <1>2, <1>4 DEF TablesAgree
<1>8. TablesAgree'
  BY <1>5, <1>6, <1>7 DEF TablesAgree
<1>9. \A p \in Answer : BoundTo(p) => BoundTo(p)'
  BY DEF BoundTo
<1>10. QED
  BY <1>1, <1>3, <1>8, <1>9

-----------------------------------------------------------------------------
(* What a step must show to preserve the invariant: bindings and records   *)
(* only grow, and whatever it puts into a call, into the answers or into   *)
(* an extraction meets the invariant already.                              *)

CallOK(t) == submit[t] # Idle => /\ BoundTo(submit[t].ask)
                                 /\ submit[t].pc = "answer" =>
                                      Latest(submit[t].ask.app).stored
AnswerOK(p)  == BoundTo(p) /\ Latest(p.app).stored
ExtractOK(x) == extract[x] # None =>
                  /\ Recorded(extract[x]) /\ Latest(extract[x]).stored
                  /\ KindOf[Latest(extract[x]).request] = "application"

LEMMA Frame ==
  ASSUME TablesInv, TypeOK', TablesAgree',
         \A p \in Answer : BoundTo(p) => BoundTo(p)',
         \A b \in Applications : Recorded(b) => Grows(b),
         \A t \in Submitters : submit'[t] = submit[t] \/ CallOK(t)',
         \A p \in Answer : p \in accepted' => p \in accepted \/ AnswerOK(p)',
         \A x \in Extractors : extract'[x] = extract[x] \/ ExtractOK(x)'
  PROVE  TablesInv'
<1> USE DEF TablesInv
<1>1. ASSUME NEW t \in Submitters PROVE CallOK(t)'
  <2>1. CASE submit'[t] = submit[t] /\ submit[t] # Idle
    <3>1. submit[t] \in Busy
      BY <2>1, BusyCall
    <3> DEFINE p == submit[t].ask
    <3>2. p \in Answer /\ p.app \in Applications
      BY <3>1 DEF Busy, Answer
    <3>3. CallOK(t)
      BY DEF CallsBound, CallOK
    <3>4. BoundTo(p) /\ BoundTo(p)'
      BY <2>1, <3>2, <3>3 DEF CallOK, BoundTo
    <3>5. Recorded(p.app)
      BY <3>2, <3>4, BoundIsRecorded
    <3>6. submit[t].pc = "answer" => Latest(p.app).stored
      BY <2>1, <3>3 DEF CallOK
    <3>7. \A b \in Applications : Recorded(b) /\ Latest(b).stored => Latest(b)'.stored
      BY DEF Grows
    <3>8. submit[t].pc = "answer" =>
            history'[submit[t].ask.app][Len(history'[submit[t].ask.app])].stored
      BY <3>2, <3>5, <3>6, <3>7 DEF Latest
    <3>9. QED
      BY <2>1, <3>4, <3>8 DEF CallOK, Latest, BoundTo
  <2>2. CASE submit'[t] = submit[t] /\ submit[t] = Idle
    BY <2>2 DEF CallOK
  <2>3. QED
    BY <2>1, <2>2
<1>2. CallsBound'
  BY <1>1 DEF CallsBound, CallOK
<1>3. ASSUME NEW p \in Answer, p \in accepted' PROVE AnswerOK(p)'
  <2>1. CASE p \in accepted
    <3>1. BoundTo(p) /\ Latest(p.app).stored
      BY <2>1 DEF AcceptedIsDurable
    <3>2. Recorded(p.app) /\ p.app \in Applications
      BY <3>1, BoundIsRecorded DEF Answer
    <3>3. QED
      BY <3>1, <3>2 DEF AnswerOK, Grows
  <2>2. QED
    BY <1>3, <2>1
<1>4. AcceptedIsDurable'
  BY <1>3 DEF AcceptedIsDurable, AnswerOK, TypeOK
<1>5. ASSUME NEW x \in Extractors PROVE ExtractOK(x)'
  <2>1. CASE extract'[x] = extract[x] /\ extract[x] # None
    <3> DEFINE a == extract[x]
    <3>1. /\ a \in Applications /\ Recorded(a) /\ Latest(a).stored
          /\ KindOf[Latest(a).request] = "application"
      BY <2>1 DEF TypeOK, ExtractsStoredDecks
    <3>2. /\ Recorded(a)' /\ Latest(a)'.stored
          /\ KindOf[Latest(a)'.request] = "application"
      BY <2>1, <3>1 DEF Grows, Latest, Recorded
    <3>3. QED
      BY <2>1, <3>2 DEF ExtractOK, Latest, Recorded
  <2>2. CASE extract'[x] = extract[x] /\ extract[x] = None
    BY <2>2 DEF ExtractOK
  <2>3. QED
    BY <2>1, <2>2
<1>6. ExtractsStoredDecks'
  BY <1>5 DEF ExtractsStoredDecks, ExtractOK
<1>7. QED
  BY <1>2, <1>4, <1>6

(* The same for a step that does not touch the three tables.               *)
LEMMA QuietFrame ==
  ASSUME TablesInv, TypeOK', UNCHANGED <<entity, keyRow, history>>,
         \A t \in Submitters : submit'[t] = submit[t] \/ CallOK(t)',
         \A p \in Answer : p \in accepted' => p \in accepted \/ AnswerOK(p)',
         \A x \in Extractors : extract'[x] = extract[x] \/ ExtractOK(x)'
  PROVE  TablesInv'
<1>1. \A b \in Applications : Recorded(b) => Grows(b)
  BY DEF Grows, Recorded, Latest
<1>2. QED
  BY <1>1, TablesKept, Frame

-----------------------------------------------------------------------------
(* Submissions preserve the invariant.                                     *)

LEMMA ReserveTables ==
  ASSUME TablesInv, NEW s \in Submitters, NEW k \in Keys, NEW f \in Requests,
         Reserve(s, k, f)
  PROVE  TablesInv'
<1> USE DEF TablesInv
<1>1. UNCHANGED <<blob, extract, accepted, extracted>>
  BY DEF Reserve
<1>2. ASSUME NEW a \in Applications, NEW r \in BOOLEAN, NEW b \in BOOLEAN,
             Proceed(s, [key |-> k, request |-> f, app |-> a, replayed |-> r], b)
      PROVE  /\ submit' \in [Submitters -> Call]
             /\ submit'[s].ask = [key |-> k, request |-> f, app |-> a,
                                  replayed |-> r]
             /\ submit'[s].pc = "answer" => b
             /\ \A t \in Submitters \ {s} : submit'[t] = submit[t]
  <2>1. [key |-> k, request |-> f, app |-> a, replayed |-> r] \in Answer
    BY DEF Answer
  <2>2. QED
    BY <1>2, <2>1 DEF Proceed, TypeOK, Call
<1>3. CASE ReserveByKey(s, k, f)
  <2> DEFINE a == keyRow[k].app
  <2>1. a \in Applications /\ keyRow[k] = [request |-> f, app |-> a]
    BY <1>3 DEF ReserveByKey, TypeOK, KeyRow
  <2>2. Recorded(a)
    BY <1>3, <2>1 DEF ReserveByKey, TablesAgree
  <2>3. Latest(a).stored \in BOOLEAN
    BY <2>1, <2>2, LatestIsRecord DEF Record
  <2>4. /\ submit' \in [Submitters -> Call]
        /\ submit'[s].ask = [key |-> k, request |-> f, app |-> a,
                             replayed |-> TRUE]
        /\ submit'[s].pc = "answer" => Latest(a).stored
        /\ \A t \in Submitters \ {s} : submit'[t] = submit[t]
    BY <1>2, <1>3, <2>1, <2>3 DEF ReserveByKey
  <2>5. TypeOK' /\ UNCHANGED <<entity, keyRow, history>>
    BY <1>1, <1>3, <2>4 DEF ReserveByKey, TypeOK
  <2>6. CallOK(s)'
    BY <2>1, <2>4, <2>5 DEF CallOK, BoundTo, Latest
  <2>7. QED
    BY <1>1, <2>4, <2>5, <2>6, QuietFrame
<1>4. CASE ReserveByFingerprint(s, k, f)
  <2> DEFINE a == entity[f]
  <2>1. a \in Applications /\ Recorded(a)
    BY <1>4 DEF ReserveByFingerprint, TypeOK, TablesAgree
  <2>2. Latest(a).stored \in BOOLEAN
    BY <2>1, LatestIsRecord DEF Record
  <2>3. /\ submit' \in [Submitters -> Call]
        /\ submit'[s].ask = [key |-> k, request |-> f, app |-> a,
                             replayed |-> TRUE]
        /\ submit'[s].pc = "answer" => Latest(a).stored
        /\ \A t \in Submitters \ {s} : submit'[t] = submit[t]
    BY <1>2, <1>4, <2>1, <2>2 DEF ReserveByFingerprint
  <2>4. /\ keyRow' = [keyRow EXCEPT ![k] = [request |-> f, app |-> a]]
        /\ keyRow[k] = None /\ UNCHANGED <<entity, history>>
    BY <1>4 DEF ReserveByFingerprint
  <2>5. TypeOK'
    BY <1>1, <2>1, <2>3, <2>4 DEF TypeOK, KeyRow
  <2>6. TablesAgree'
    BY <2>1, <2>4 DEF TablesAgree, TypeOK, Recorded, Latest
  <2>7. \A p \in Answer : BoundTo(p) => BoundTo(p)'
    BY <2>4 DEF BoundTo, Answer, TypeOK
  <2>8. \A b \in Applications : Recorded(b) => Grows(b)
    BY <2>4 DEF Grows, Recorded, Latest
  <2>9. CallOK(s)'
    BY <2>1, <2>3, <2>4 DEF CallOK, BoundTo, Latest, TypeOK
  <2>10. QED
    BY <1>1, <2>3, <2>5, <2>6, <2>7, <2>8, <2>9, Frame
<1>5. CASE ReserveNew(s, k, f)
  <2>1. PICK a \in Applications :
          /\ ~Recorded(a)
          /\ entity' = [entity EXCEPT ![f] = a]
          /\ keyRow' = [keyRow EXCEPT ![k] = [request |-> f, app |-> a]]
          /\ AppendRevision(a, NewRecord(f))
          /\ Proceed(s, [key |-> k, request |-> f, app |-> a,
                         replayed |-> FALSE], FALSE)
    BY <1>5 DEF ReserveNew
  <2>2. keyRow[k] = None /\ entity[f] = None
    BY <1>5 DEF ReserveNew
  <2>3. /\ submit' \in [Submitters -> Call]
        /\ submit'[s].ask = [key |-> k, request |-> f, app |-> a,
                             replayed |-> FALSE]
        /\ submit'[s].pc # "answer"
        /\ \A t \in Submitters \ {s} : submit'[t] = submit[t]
    BY <1>2, <2>1
  <2>4. NewRecord(f) \in Record /\ NewRecord(f).request = f
    BY DEF NewRecord, Record
  <2>5. /\ history' \in [Applications -> Seq(Record)]
        /\ Latest(a)' = NewRecord(f) /\ Recorded(a)'
        /\ history'[a] = Append(history[a], NewRecord(f))
        /\ \A b \in Applications \ {a} : history'[b] = history[b]
    BY <2>1, <2>4, AppendIsLatest
  <2>6. history'[a] = <<NewRecord(f)>>
    BY <2>1, <2>5 DEF Recorded, TypeOK
  <2>7. TypeOK'
    BY <1>1, <2>1, <2>3, <2>5 DEF TypeOK, KeyRow
  <2>8. \A b \in Applications \ {a} : /\ Latest(b)' = Latest(b)
                                      /\ Recorded(b)' <=> Recorded(b)
    BY <2>5 DEF Latest, Recorded
  <2>9. \A b \in Applications : Recorded(b) => Grows(b)
    BY <2>1, <2>8 DEF Grows
  <2>10. \A g \in Requests : entity[g] # a
    BY <2>1 DEF TablesAgree
  <2>11. TablesAgree'
    <3>1. ASSUME NEW g \in Requests, entity'[g] # None
          PROVE  /\ Recorded(entity[g])'
                 /\ \A i \in DOMAIN history'[entity'[g]] :
                      history'[entity'[g]][i].request = g
      <4>1. CASE g = f
        <5>1. entity'[g] = a
          BY <2>1, <4>1 DEF TypeOK
        <5>2. \A i \in DOMAIN history'[a] : history'[a][i].request = f
          BY <2>4, <2>6
        <5>3. QED
          BY <2>5, <4>1, <5>1, <5>2 DEF Recorded
      <4>2. CASE g # f
        <5>1. entity'[g] = entity[g] /\ entity[g] \in Applications \ {a}
          BY <2>1, <2>10, <3>1, <4>2 DEF TypeOK
        <5>2. history'[entity[g]] = history[entity[g]]
          BY <2>5, <5>1
        <5>3. /\ Recorded(entity[g])
              /\ \A i \in DOMAIN history[entity[g]] :
                   history[entity[g]][i].request = g
          BY <3>1, <5>1 DEF TablesAgree
        <5>4. QED
          BY <5>1, <5>2, <5>3 DEF Recorded
      <4>3. QED
        BY <4>1, <4>2
    <3>2. ASSUME NEW j \in Keys, keyRow'[j] # None
          PROVE  entity'[keyRow'[j].request] = keyRow'[j].app
      <4>1. CASE j = k
        BY <2>1, <4>1 DEF TypeOK
      <4>2. CASE j # k
        BY <2>1, <2>2, <3>2, <4>2 DEF TypeOK, KeyRow, TablesAgree
      <4>3. QED
        BY <4>1, <4>2
    <3>3. ASSUME NEW b \in Applications, Recorded(b)'
          PROVE  entity'[Latest(b)'.request] = b
      <4>1. CASE b = a
        BY <2>1, <2>4, <2>5, <4>1 DEF TypeOK
      <4>2. CASE b # a
        <5>1. Recorded(b) /\ entity[Latest(b).request] = b
          BY <2>8, <3>3, <4>2 DEF TablesAgree
        <5>2. Latest(b).request # f
          BY <2>2, <5>1
        <5>3. QED
          BY <2>1, <2>8, <4>2, <5>1, <5>2 DEF TypeOK
      <4>3. QED
        BY <4>1, <4>2
    <3>4. QED
      BY <3>1, <3>2, <3>3 DEF TablesAgree
  <2>12. \A p \in Answer : BoundTo(p) => BoundTo(p)'
    BY <2>1, <2>2 DEF BoundTo, Answer, TypeOK
  <2>13. CallOK(s)'
    BY <2>1, <2>3 DEF CallOK, BoundTo, TypeOK
  <2>14. QED
    BY <1>1, <2>3, <2>7, <2>9, <2>11, <2>12, <2>13, Frame
<1>6. QED
  BY <1>3, <1>4, <1>5 DEF Reserve

(* The call a step advances, with its question unchanged.                  *)
LEMMA Advance ==
  ASSUME TablesInv, NEW s \in Submitters, submit[s] # Idle
  PROVE  /\ submit[s] \in Busy /\ submit[s].ask \in Answer
         /\ submit[s].ask.app \in Applications
         /\ submit[s].ask.request \in Requests
         /\ BoundTo(submit[s].ask)
         /\ Recorded(submit[s].ask.app)
         /\ Latest(submit[s].ask.app) \in Record
         /\ submit[s].pc = "answer" => Latest(submit[s].ask.app).stored
<1> USE DEF TablesInv
<1>1. submit[s] \in Busy
  BY BusyCall
<1>2. /\ submit[s].ask \in Answer /\ submit[s].ask.app \in Applications
      /\ submit[s].ask.request \in Requests
  BY <1>1 DEF Busy, Answer
<1>3. /\ BoundTo(submit[s].ask)
      /\ submit[s].pc = "answer" => Latest(submit[s].ask.app).stored
  BY DEF CallsBound
<1>4. Recorded(submit[s].ask.app)
  BY <1>2, <1>3, BoundIsRecorded
<1>5. QED
  BY <1>1, <1>2, <1>3, <1>4, LatestIsRecord

LEMMA PutTables ==
  ASSUME TablesInv, NEW s \in Submitters,
         LinkBlob(s) \/ ConfirmBlob(s) \/ SubmitError(s)
  PROVE  TablesInv'
<1> USE DEF TablesInv
<1>1. /\ UNCHANGED <<entity, keyRow, history, extract, accepted, extracted>>
      /\ submit[s] # Idle
  BY DEF LinkBlob, ConfirmBlob, SubmitError, durable, Idle
<1>2. /\ submit[s] \in Busy /\ BoundTo(submit[s].ask)
      /\ submit[s].ask.app \in Applications
      /\ submit[s].ask.request \in Requests
  BY <1>1, Advance
<1>3. /\ submit' \in [Submitters -> Call]
      /\ \A t \in Submitters \ {s} : submit'[t] = submit[t]
      /\ \/ submit'[s] = Idle
         \/ submit'[s].ask = submit[s].ask /\ submit'[s].pc # "answer"
  <2>1. CASE LinkBlob(s)
    <3>1. [submit[s] EXCEPT !.pc = "linked",
             !.created = (blob[submit[s].ask.app] = None)] \in Busy
      BY <1>2 DEF Busy
    <3>2. QED
      BY <1>2, <2>1, <3>1 DEF LinkBlob, TypeOK, Call, Busy
  <2>2. CASE ConfirmBlob(s)
    <3>1. [submit[s] EXCEPT !.pc = "mark"] \in Busy
      BY <1>2 DEF Busy
    <3>2. QED
      BY <1>2, <2>2, <3>1 DEF ConfirmBlob, TypeOK, Call, Busy
  <2>3. CASE SubmitError(s)
    BY <2>3 DEF SubmitError, TypeOK, Call
  <2>4. QED
    BY <2>1, <2>2, <2>3
<1>4. blob' \in [Applications -> Requests \cup {None}]
  BY <1>2 DEF LinkBlob, ConfirmBlob, SubmitError, TypeOK, durable
<1>5. TypeOK'
  BY <1>1, <1>3, <1>4 DEF TypeOK
<1>6. CallOK(s)'
  BY <1>1, <1>2, <1>3 DEF CallOK, BoundTo
<1>7. QED
  BY <1>1, <1>3, <1>5, <1>6, QuietFrame

LEMMA MarkTables ==
  ASSUME TablesInv, NEW s \in Submitters, MarkStored(s)
  PROVE  TablesInv'
<1> USE DEF TablesInv
<1> DEFINE a == submit[s].ask.app
           rec == [Latest(a) EXCEPT !.stored = TRUE]
<1>1. /\ UNCHANGED <<entity, keyRow, blob, extract, accepted, extracted>>
      /\ submit[s] # Idle
  BY DEF MarkStored, Idle
<1>2. /\ submit[s] \in Busy /\ a \in Applications /\ submit[s].ask \in Answer
      /\ BoundTo(submit[s].ask) /\ Recorded(a) /\ Latest(a) \in Record
  BY <1>1, Advance
<1>3. /\ submit' \in [Submitters -> Call]
      /\ submit'[s].ask = submit[s].ask
      /\ \A t \in Submitters \ {s} : submit'[t] = submit[t]
  <2>1. [submit[s] EXCEPT !.pc = "answer"] \in Busy
    BY <1>2 DEF Busy
  <2>2. QED
    BY <1>2, <2>1 DEF MarkStored, TypeOK, Call, Busy
<1>4. CASE Latest(a).stored
  <2>1. UNCHANGED history
    BY <1>4 DEF MarkStored
  <2>2. TypeOK'
    BY <1>1, <1>3, <2>1 DEF TypeOK
  <2>3. CallOK(s)'
    BY <1>1, <1>2, <1>3, <1>4, <2>1 DEF CallOK, BoundTo, Latest
  <2>4. QED
    BY <1>1, <1>3, <2>1, <2>2, <2>3, QuietFrame
<1>5. CASE ~Latest(a).stored
  <2>1. /\ rec \in Record /\ rec.request = Latest(a).request /\ rec.stored
        /\ AppendRevision(a, rec)
    BY <1>2, <1>5 DEF MarkStored, Record
  <2> HIDE DEF rec
  <2>2. /\ history' \in [Applications -> Seq(Record)] /\ TablesAgree'
        /\ \A b \in Applications : Recorded(b) => Grows(b)
        /\ \A p \in Answer : BoundTo(p) => BoundTo(p)'
    BY <1>1, <1>2, <2>1, Revise
  <2>3. TypeOK'
    BY <1>1, <1>3, <2>2 DEF TypeOK
  <2>4. history'[a][Len(history'[a])].stored
    BY <1>2, <2>1, AppendIsLatest DEF Latest
  <2>5. CallOK(s)'
    BY <1>1, <1>2, <1>3, <2>4 DEF CallOK, BoundTo, Latest
  <2>6. QED
    BY <1>1, <1>3, <2>2, <2>3, <2>5, Frame
<1>6. QED
  BY <1>4, <1>5

LEMMA AnswerTables ==
  ASSUME TablesInv, NEW s \in Submitters, AnswerClient(s)
  PROVE  TablesInv'
<1> USE DEF TablesInv
<1>1. /\ UNCHANGED <<entity, keyRow, history, blob, extract, extracted>>
      /\ submit[s] # Idle /\ submit[s].pc = "answer"
      /\ accepted' = accepted \cup {submit[s].ask}
      /\ submit' = [submit EXCEPT ![s] = Idle]
  BY DEF AnswerClient, durable, Idle
<1>2. /\ submit[s].ask \in Answer /\ BoundTo(submit[s].ask)
      /\ Latest(submit[s].ask.app).stored
  BY <1>1, Advance
<1>3. TypeOK'
  BY <1>1, <1>2 DEF TypeOK, Call
<1>4. CallOK(s)' /\ \A t \in Submitters \ {s} : submit'[t] = submit[t]
  BY <1>1 DEF CallOK, TypeOK
<1>5. \A p \in Answer : p \in accepted' => p \in accepted \/ AnswerOK(p)'
  BY <1>1, <1>2 DEF AnswerOK, BoundTo, Latest
<1>6. QED
  BY <1>1, <1>3, <1>4, <1>5, QuietFrame

-----------------------------------------------------------------------------
(* Extractions and crashes preserve the invariant.                         *)

LEMMA ReturnTables ==
  ASSUME TablesInv, NEW a \in Applications, ReturnAccepted(a)
  PROVE  TablesInv'
<1> USE DEF TablesInv
<1>1. /\ UNCHANGED <<entity, keyRow, history, blob, submit, extract, accepted>>
      /\ extracted' = extracted \cup {<<a, Latest(a).extraction>>}
      /\ Latest(a).extraction \in Results
  BY DEF ReturnAccepted, durable, Settled
<1>2. TypeOK'
  BY <1>1 DEF TypeOK
<1>3. QED
  BY <1>1, <1>2, QuietFrame

LEMMA StartTables ==
  ASSUME TablesInv, NEW x \in Extractors, NEW a \in Applications,
         StartExtraction(x, a)
  PROVE  TablesInv'
<1> USE DEF TablesInv
<1>1. /\ UNCHANGED <<entity, keyRow, history, blob, submit, accepted, extracted>>
      /\ extract' = [extract EXCEPT ![x] = a]
      /\ Recorded(a) /\ KindOf[Latest(a).request] = "application"
      /\ Latest(a).stored
  BY DEF StartExtraction, durable
<1>2. TypeOK'
  BY <1>1 DEF TypeOK
<1>3. \A y \in Extractors : extract'[y] = extract[y] \/ ExtractOK(y)'
  BY <1>1 DEF ExtractOK, Recorded, Latest, TypeOK
<1>4. QED
  BY <1>1, <1>2, <1>3, QuietFrame

(* An extraction in progress concerns a recorded application.              *)
LEMMA Extracting ==
  ASSUME TablesInv, NEW x \in Extractors, extract[x] # None
  PROVE  /\ extract[x] \in Applications /\ Recorded(extract[x])
         /\ Latest(extract[x]) \in Record
<1>1. extract[x] \in Applications /\ Recorded(extract[x])
  BY DEF TablesInv, TypeOK, ExtractsStoredDecks
<1>2. QED
  BY <1>1, LatestIsRecord DEF TablesInv

(* Recording the outcome of an attempt, whatever it is.                    *)
LEMMA AttemptTables ==
  ASSUME TablesInv, NEW x \in Extractors, extract[x] # None,
         NEW e \in Results \cup {Unknown}, NEW o \in Outcomes,
         AppendRevision(extract[x],
           [Latest(extract[x]) EXCEPT !.extraction = e,
                                      !.attempts = Append(@, o)]),
         UNCHANGED <<entity, keyRow, blob, submit, accepted>>,
         extract' = [extract EXCEPT ![x] = None],
         extracted' \subseteq Applications \X Results
  PROVE  TablesInv'
<1> USE DEF TablesInv
<1> DEFINE a == extract[x]
           rec == [Latest(a) EXCEPT !.extraction = e, !.attempts = Append(@, o)]
<1>1. a \in Applications /\ Recorded(a) /\ Latest(a) \in Record
  BY Extracting
<1>2. Latest(a).attempts \in Seq(Outcomes)
  BY <1>1 DEF Record
<1>3. Append(Latest(a).attempts, o) \in Seq(Outcomes)
  BY <1>2
<1>4. /\ rec \in Record /\ rec.request = Latest(a).request
      /\ rec.stored = Latest(a).stored
  BY <1>1, <1>3 DEF Record
<1>5. AppendRevision(a, rec)
  OBVIOUS
<1> HIDE DEF rec
<1>6. /\ history' \in [Applications -> Seq(Record)] /\ TablesAgree'
      /\ \A b \in Applications : Recorded(b) => Grows(b)
      /\ \A p \in Answer : BoundTo(p) => BoundTo(p)'
  BY <1>1, <1>4, <1>5, Revise
<1>7. TypeOK'
  BY <1>6 DEF TypeOK
<1>8. \A y \in Extractors : extract'[y] = extract[y] \/ ExtractOK(y)'
  BY DEF ExtractOK, TypeOK
<1>9. QED
  BY <1>6, <1>7, <1>8, Frame

LEMMA FinishTables ==
  ASSUME TablesInv, NEW x \in Extractors, NEW r \in Results,
         FinishExtraction(x, r)
  PROVE  TablesInv'
<1> USE DEF TablesInv
<1> DEFINE a == extract[x]
<1>1. /\ UNCHANGED <<entity, keyRow, blob, submit, accepted>>
      /\ extract' = [extract EXCEPT ![x] = None]
      /\ a # None /\ a \in Applications
  BY DEF FinishExtraction, TypeOK
<1>2. extracted' \subseteq Applications \X Results
  BY <1>1 DEF FinishExtraction, TypeOK
<1>3. CASE Settled(a)
  <2>1. UNCHANGED history
    BY <1>3 DEF FinishExtraction
  <2>2. TypeOK'
    BY <1>1, <1>2, <2>1 DEF TypeOK
  <2>3. \A y \in Extractors : extract'[y] = extract[y] \/ ExtractOK(y)'
    BY <1>1 DEF ExtractOK, TypeOK
  <2>4. QED
    BY <1>1, <2>1, <2>2, <2>3, QuietFrame
<1>4. CASE ~Settled(a)
  BY <1>1, <1>2, <1>4, AttemptTables DEF FinishExtraction, Outcomes
<1>5. QED
  BY <1>3, <1>4

LEMMA FailTables ==
  ASSUME TablesInv, NEW x \in Extractors, NEW status \in {"failed", "blocked"},
         FailExtraction(x, status)
  PROVE  TablesInv'
<1> USE DEF TablesInv
<1> DEFINE a == extract[x]
<1>1. /\ UNCHANGED <<entity, keyRow, blob, submit, accepted, extracted>>
      /\ extract' = [extract EXCEPT ![x] = None]
      /\ a # None
      /\ extracted' \subseteq Applications \X Results
  BY DEF FailExtraction, TypeOK
<1>2. CASE Settled(a)
  <2>1. UNCHANGED history
    BY <1>2 DEF FailExtraction
  <2>2. TypeOK'
    BY <1>1, <2>1 DEF TypeOK
  <2>3. \A y \in Extractors : extract'[y] = extract[y] \/ ExtractOK(y)'
    BY <1>1 DEF ExtractOK, TypeOK
  <2>4. QED
    BY <1>1, <2>1, <2>2, <2>3, QuietFrame
<1>3. CASE ~Settled(a)
  BY <1>1, <1>3, AttemptTables DEF FailExtraction, Outcomes
<1>4. QED
  BY <1>2, <1>3

LEMMA ErrorTables ==
  ASSUME TablesInv, NEW x \in Extractors, ExtractionError(x)
  PROVE  TablesInv'
<1> USE DEF TablesInv
<1>1. /\ UNCHANGED <<entity, keyRow, history, blob, accepted, extracted, submit>>
      /\ extract' = [extract EXCEPT ![x] = None]
  BY DEF ExtractionError, durable
<1>2. TypeOK'
  BY <1>1 DEF TypeOK
<1>3. /\ \A y \in Extractors \ {x} : extract'[y] = extract[y]
      /\ extract'[x] = None
  BY <1>1 DEF TypeOK
<1>4. \A y \in Extractors : ExtractOK(y)'
  BY <1>1, <1>3 DEF ExtractOK, ExtractsStoredDecks, Recorded, Latest
<1>5. QED
  BY <1>1, <1>2, <1>4, QuietFrame

LEMMA CrashTables ==
  ASSUME TablesInv, Crash
  PROVE  TablesInv'
<1> USE DEF TablesInv
<1>1. /\ UNCHANGED <<entity, keyRow, history, blob, accepted, extracted>>
      /\ submit' = [s \in Submitters |-> Idle]
      /\ extract' = [x \in Extractors |-> None]
  BY DEF Crash, durable
<1>2. TypeOK'
  BY <1>1 DEF TypeOK, Call
<1>3. /\ \A t \in Submitters : CallOK(t)'
      /\ \A x \in Extractors : ExtractOK(x)'
  BY <1>1 DEF CallOK, ExtractOK
<1>4. QED
  BY <1>1, <1>2, <1>3, QuietFrame

-----------------------------------------------------------------------------
(* The theorems.                                                           *)

LEMMA InitTables == Init => TablesInv
<1> SUFFICES ASSUME Init PROVE TablesInv
  OBVIOUS
<1>1. TypeOK
  BY DEF Init, TypeOK, Call
<1>2. TablesAgree /\ CallsBound /\ ExtractsStoredDecks /\ AcceptedIsDurable
  BY DEF Init, TablesAgree, CallsBound, ExtractsStoredDecks,
         AcceptedIsDurable, Recorded
<1>3. QED
  BY <1>1, <1>2 DEF TablesInv

LEMMA NextTables == TablesInv /\ [Next]_vars => TablesInv'
<1> SUFFICES ASSUME TablesInv, [Next]_vars PROVE TablesInv'
  OBVIOUS
<1>1. ASSUME NEW s \in Submitters, NEW k \in Keys, NEW f \in Requests,
             Reserve(s, k, f)
      PROVE  TablesInv'
  BY <1>1, ReserveTables
<1>2. ASSUME NEW s \in Submitters,
             \/ LinkBlob(s) \/ ConfirmBlob(s) \/ SubmitError(s)
             \/ MarkStored(s) \/ AnswerClient(s)
      PROVE  TablesInv'
  BY <1>2, PutTables, MarkTables, AnswerTables
<1>3. ASSUME NEW a \in Applications, ReturnAccepted(a) PROVE TablesInv'
  BY <1>3, ReturnTables
<1>4. ASSUME NEW x \in Extractors, NEW a \in Applications, StartExtraction(x, a)
      PROVE  TablesInv'
  BY <1>4, StartTables
<1>5. ASSUME NEW x \in Extractors, NEW r \in Results, FinishExtraction(x, r)
      PROVE  TablesInv'
  BY <1>5, FinishTables
<1>6. ASSUME NEW x \in Extractors, NEW status \in {"failed", "blocked"},
             FailExtraction(x, status)
      PROVE  TablesInv'
  BY <1>6, FailTables
<1>7. ASSUME NEW x \in Extractors, ExtractionError(x) PROVE TablesInv'
  BY <1>7, ErrorTables
<1>8. CASE Crash
  BY <1>8, CrashTables
<1>9. CASE UNCHANGED vars
  <2>1. TypeOK' /\ UNCHANGED <<entity, keyRow, history>>
    BY <1>9 DEF vars, TablesInv, TypeOK
  <2>2. UNCHANGED <<submit, accepted, extract>>
    BY <1>9 DEF vars
  <2>3. QED
    BY <2>1, <2>2, QuietFrame
<1>10. QED
  BY <1>1, <1>2, <1>3, <1>4, <1>5, <1>6, <1>7, <1>8, <1>9 DEF Next

LEMMA Tables == Spec => []TablesInv
  BY InitTables, NextTables, PTL DEF Spec

(* Every state of intake has the shapes its tables and records declare.    *)
THEOREM Typing == Spec => []TypeOK
<1>1. TablesInv => TypeOK
  BY DEF TablesInv
<1>2. QED
  BY <1>1, Tables, PTL

(* A fingerprint has one application for ever, a key one request, and each *)
(* key leads to the application of its request (_reserve).                 *)
THEOREM Idempotent == Spec => []TablesAgree
<1>1. TablesInv => TablesAgree
  BY DEF TablesInv
<1>2. QED
  BY <1>1, Tables, PTL

(* Every answer submit() gives names the one application of its request,   *)
(* whose deck is durably marked stored, across crashes and replays.        *)
THEOREM Durable == Spec => []AcceptedIsDurable
<1>1. TablesInv => AcceptedIsDurable
  BY DEF TablesInv
<1>2. QED
  BY <1>1, Tables, PTL

-----------------------------------------------------------------------------
(* On one event loop a stored record has its bytes.                        *)

(* One submission at a time; its file is there from the link on, and while *)
(* it may still unlink a file it created, no record relies on that file.   *)
LoopInv ==
  ~Parallel =>
    /\ \A s, t \in Submitters : submit[s] # Idle /\ submit[t] # Idle => s = t
    /\ \A s \in Submitters :
         /\ submit[s].pc \in {"linked", "mark"} =>
              blob[submit[s].ask.app] = submit[s].ask.request
         /\ submit[s].pc = "linked" /\ submit[s].created =>
              ~Latest(submit[s].ask.app).stored
    /\ StoredHasBytes

(* A step that leaves calls and files alone and never marks a deck stored. *)
LEMMA LoopQuiet ==
  ASSUME TablesInv, LoopInv, UNCHANGED blob,
         UNCHANGED submit \/ submit' = [s \in Submitters |-> Idle],
         \A b \in Applications :
           /\ Recorded(b)' => Recorded(b)
           /\ Recorded(b) => /\ Latest(b)'.stored = Latest(b).stored
                             /\ Latest(b)'.request = Latest(b).request
  PROVE  LoopInv'
<1> SUFFICES ASSUME ~Parallel PROVE LoopInv'
  BY DEF LoopInv
<1>1. StoredHasBytes'
  BY DEF LoopInv, StoredHasBytes
<1>2. ASSUME NEW s \in Submitters, submit'[s] # Idle
      PROVE  /\ submit'[s] = submit[s]
             /\ Latest(submit[s].ask.app).stored
                  = history'[submit[s].ask.app][Len(history'[submit[s].ask.app])].stored
  <2>1. submit'[s] = submit[s]
    BY <1>2
  <2>2. submit[s].ask.app \in Applications /\ Recorded(submit[s].ask.app)
    BY <1>2, <2>1, Advance
  <2>3. QED
    BY <2>1, <2>2 DEF Latest
<1>3. \A s \in Submitters :
         /\ submit'[s].pc \in {"linked", "mark"} =>
              blob'[submit'[s].ask.app] = submit'[s].ask.request
         /\ submit'[s].pc = "linked" /\ submit'[s].created =>
              ~history'[submit'[s].ask.app][Len(history'[submit'[s].ask.app])].stored
  BY <1>2 DEF LoopInv, Idle
<1>4. \A s, t \in Submitters : submit'[s] # Idle /\ submit'[t] # Idle => s = t
  BY <1>2 DEF LoopInv
<1>5. QED
  BY <1>1, <1>3, <1>4 DEF LoopInv, Latest

(* An extraction recorded or refused is such a step.                       *)
LEMMA LoopAttempt ==
  ASSUME TablesInv, LoopInv, NEW a \in Applications, Recorded(a),
         NEW e \in Results \cup {Unknown}, NEW o \in Outcomes,
         \/ UNCHANGED history
         \/ AppendRevision(a, [Latest(a) EXCEPT !.extraction = e,
                                                !.attempts = Append(@, o)]),
         UNCHANGED <<blob, submit>>
  PROVE  LoopInv'
<1> DEFINE rec == [Latest(a) EXCEPT !.extraction = e, !.attempts = Append(@, o)]
<1>1. CASE UNCHANGED history
  BY <1>1, LoopQuiet DEF Recorded, Latest
<1>2. CASE AppendRevision(a, rec)
  <2>1. Latest(a) \in Record
    BY LatestIsRecord DEF TablesInv
  <2>2. Append(Latest(a).attempts, o) \in Seq(Outcomes)
    BY <2>1 DEF Record
  <2>3. /\ rec \in Record /\ rec.request = Latest(a).request
        /\ rec.stored = Latest(a).stored
    BY <2>1, <2>2 DEF Record
  <2>4. PICK new \in Record : new = rec
    BY <2>3
  <2>5. /\ AppendRevision(a, new)
        /\ new.request = Latest(a).request /\ new.stored = Latest(a).stored
    BY <1>2, <2>3, <2>4
  <2>6. /\ Latest(a)' = new /\ Recorded(a)'
        /\ \A b \in Applications \ {a} : history'[b] = history[b]
    BY <2>5, AppendIsLatest DEF TablesInv
  <2>7. \A b \in Applications \ {a} : /\ Latest(b)' = Latest(b)
                                      /\ Recorded(b)' <=> Recorded(b)
    BY <2>6 DEF Latest, Recorded
  <2>8. QED
    BY <2>5, <2>6, <2>7, LoopQuiet
<1>3. QED
  BY <1>1, <1>2

(* A reservation: the caller runs alone, holds no file yet, and a new      *)
(* record is not stored.                                                   *)
LEMMA LoopReserve ==
  ASSUME TablesInv, LoopInv, NEW s \in Submitters, NEW k \in Keys,
         NEW f \in Requests, Reserve(s, k, f)
  PROVE  LoopInv'
<1> SUFFICES ASSUME ~Parallel PROVE LoopInv'
  BY DEF LoopInv
<1>1. /\ submit[s] = Idle /\ \A t \in Submitters \ {s} : submit[t] = Idle
      /\ UNCHANGED blob
  BY DEF Reserve, MayRun
<1>2. /\ submit'[s].pc \in {"answer", "put"}
      /\ \A t \in Submitters \ {s} : submit'[t] = submit[t]
  BY DEF Reserve, ReserveByKey, ReserveByFingerprint, ReserveNew, Proceed,
         TablesInv, TypeOK
<1>3. \A b \in Applications : Recorded(b)' /\ Latest(b)'.stored =>
         /\ Recorded(b) /\ Latest(b).stored
         /\ Latest(b)'.request = Latest(b).request
  <2>1. CASE UNCHANGED history
    BY <2>1 DEF Recorded, Latest
  <2>2. CASE ReserveNew(s, k, f)
    <3>1. PICK a \in Applications : AppendRevision(a, NewRecord(f))
      BY <2>2 DEF ReserveNew
    <3>2. NewRecord(f) \in Record /\ NewRecord(f).stored = FALSE
      BY DEF NewRecord, Record
    <3>3. /\ Latest(a)' = NewRecord(f)
          /\ \A b \in Applications \ {a} : history'[b] = history[b]
      BY <3>1, <3>2, AppendIsLatest DEF TablesInv
    <3>4. QED
      BY <3>2, <3>3 DEF Recorded, Latest
  <2>3. QED
    BY <2>1, <2>2 DEF Reserve, ReserveByKey, ReserveByFingerprint
<1>4. StoredHasBytes'
  BY <1>1, <1>3 DEF LoopInv, StoredHasBytes
<1>5. QED
  BY <1>1, <1>2, <1>4 DEF LoopInv, Idle

(* The steps of a submission after its reservation.                        *)
LEMMA LoopSubmit ==
  ASSUME TablesInv, LoopInv, NEW s \in Submitters,
         \/ LinkBlob(s) \/ ConfirmBlob(s) \/ SubmitError(s)
         \/ MarkStored(s) \/ AnswerClient(s)
  PROVE  LoopInv'
<1> SUFFICES ASSUME ~Parallel PROVE LoopInv'
  BY DEF LoopInv
<1> DEFINE ask == submit[s].ask
<1>1. /\ submit[s] # Idle /\ UNCHANGED <<entity, keyRow>>
      /\ \A t \in Submitters \ {s} : submit[t] = Idle
  BY DEF LinkBlob, ConfirmBlob, SubmitError, MarkStored, AnswerClient, MayRun,
         Idle, durable
<1>2. /\ submit[s] \in Busy /\ ask \in Answer
      /\ ask.app \in Applications /\ ask.request \in Requests
      /\ BoundTo(ask) /\ Recorded(ask.app) /\ Latest(ask.app) \in Record
  BY <1>1, Advance
<1>3. PICK a \in Applications, f \in Requests : a = ask.app /\ f = ask.request
  BY <1>2
<1>4. Recorded(a) /\ Latest(a) \in Record /\ Latest(a).request = f
  BY <1>2, <1>3, BoundIsRecorded DEF TablesInv
<1>5. \A t \in Submitters \ {s} : submit'[t] = Idle
  BY <1>1 DEF LinkBlob, ConfirmBlob, SubmitError, MarkStored, AnswerClient,
              TablesInv, TypeOK
<1>6. StoredHasBytes
  BY DEF LoopInv
<1>7. CASE LinkBlob(s)
  <2>1. /\ UNCHANGED history /\ blob[a] \in {None, f}
        /\ blob' = [blob EXCEPT ![a] = f]
        /\ submit' = [submit EXCEPT ![s].pc = "linked",
                                    ![s].created = (blob[a] = None)]
    BY <1>3, <1>7 DEF LinkBlob
  <2>2. blob'[a] = f /\ \A b \in Applications \ {a} : blob'[b] = blob[b]
    BY <2>1 DEF TablesInv, TypeOK
  <2>3. StoredHasBytes'
    BY <1>4, <1>6, <2>1, <2>2 DEF StoredHasBytes, Recorded, Latest
  <2>4. /\ submit'[s].ask = ask /\ submit'[s].pc = "linked"
        /\ submit'[s].created = (blob[a] = None)
    BY <1>2, <2>1 DEF TablesInv, TypeOK, Busy
  <2>5. blob[a] = None => ~Latest(a).stored
    BY <1>4, <1>6 DEF StoredHasBytes
  <2>6. /\ submit'[s].pc = "linked" /\ blob'[submit'[s].ask.app] = submit'[s].ask.request
        /\ submit'[s].created =>
             ~history'[submit'[s].ask.app][Len(history'[submit'[s].ask.app])].stored
    BY <1>3, <2>1, <2>2, <2>4, <2>5 DEF Latest
  <2>7. QED
    BY <1>5, <2>3, <2>6 DEF LoopInv, Latest, Idle
<1>8. CASE ConfirmBlob(s)
  <2>1. /\ UNCHANGED <<history, blob>> /\ submit[s].pc = "linked"
        /\ submit' = [submit EXCEPT ![s].pc = "mark"]
    BY <1>8 DEF ConfirmBlob, durable
  <2>2. submit'[s].ask = ask /\ submit'[s].pc = "mark"
    BY <1>2, <2>1 DEF TablesInv, TypeOK, Busy
  <2>3. StoredHasBytes'
    BY <1>6, <2>1 DEF StoredHasBytes, Recorded, Latest
  <2>4. blob'[submit'[s].ask.app] = submit'[s].ask.request
    BY <2>1, <2>2 DEF LoopInv
  <2>5. QED
    BY <1>5, <2>2, <2>3, <2>4 DEF LoopInv, Idle
<1>9. CASE SubmitError(s)
  <2>1. /\ UNCHANGED history /\ submit' = [submit EXCEPT ![s] = Idle]
        /\ \/ UNCHANGED blob
           \/ /\ submit[s].pc = "linked" /\ submit[s].created
              /\ blob' = [blob EXCEPT ![a] = None]
    BY <1>3, <1>9 DEF SubmitError
  <2>2. submit'[s] = Idle
    BY <2>1 DEF TablesInv, TypeOK
  <2>3. submit[s].pc = "linked" /\ submit[s].created => ~Latest(a).stored
    BY <1>3 DEF LoopInv, Latest
  <2>4. StoredHasBytes'
    BY <1>6, <2>1, <2>3 DEF StoredHasBytes, Recorded, Latest, TablesInv, TypeOK
  <2>5. QED
    BY <1>5, <2>2, <2>4 DEF LoopInv, Idle
<1>10. CASE MarkStored(s)
  <2>1. /\ UNCHANGED blob /\ submit[s].pc = "mark"
        /\ submit' = [submit EXCEPT ![s].pc = "answer"]
    BY <1>10 DEF MarkStored
  <2>2. submit'[s].pc = "answer"
    BY <1>2, <2>1 DEF TablesInv, TypeOK, Busy
  <2>3. blob[a] = f
    BY <1>3, <2>1 DEF LoopInv
  <2>4. \A b \in Applications \ {a} : history'[b] = history[b]
    BY <1>3, <1>10 DEF MarkStored, AppendRevision, TablesInv, TypeOK
  <2>5. Latest(a)'.request = f
    <3>1. CASE UNCHANGED history
      BY <1>4, <3>1 DEF Latest
    <3>2. CASE AppendRevision(a, [Latest(a) EXCEPT !.stored = TRUE])
      <4>1. PICK new \in Record : new = [Latest(a) EXCEPT !.stored = TRUE]
        BY <1>4 DEF Record
      <4>2. Latest(a)' = new /\ new.request = f
        BY <1>4, <3>2, <4>1, AppendIsLatest DEF TablesInv, Record
      <4>3. QED
        BY <4>2
    <3>3. QED
      BY <1>3, <1>10, <3>1, <3>2 DEF MarkStored
  <2>6. StoredHasBytes'
    BY <1>6, <2>1, <2>3, <2>4, <2>5 DEF StoredHasBytes, Recorded, Latest
  <2>7. QED
    BY <1>5, <2>2, <2>6 DEF LoopInv, Idle
<1>11. CASE AnswerClient(s)
  <2>1. UNCHANGED <<history, blob>> /\ submit' = [submit EXCEPT ![s] = Idle]
    BY <1>11 DEF AnswerClient, durable
  <2>2. submit'[s] = Idle
    BY <2>1 DEF TablesInv, TypeOK
  <2>3. StoredHasBytes'
    BY <1>6, <2>1 DEF StoredHasBytes, Recorded, Latest
  <2>4. QED
    BY <1>5, <2>2, <2>3 DEF LoopInv, Idle
<1>12. QED
  BY <1>7, <1>8, <1>9, <1>10, <1>11

LEMMA LoopNext == TablesInv /\ LoopInv /\ [Next]_vars => LoopInv'
<1> SUFFICES ASSUME TablesInv, LoopInv, [Next]_vars PROVE LoopInv'
  OBVIOUS
<1>1. ASSUME NEW s \in Submitters, NEW k \in Keys, NEW f \in Requests,
             Reserve(s, k, f)
      PROVE  LoopInv'
  BY <1>1, LoopReserve
<1>2. ASSUME NEW s \in Submitters,
             \/ LinkBlob(s) \/ ConfirmBlob(s) \/ SubmitError(s)
             \/ MarkStored(s) \/ AnswerClient(s)
      PROVE  LoopInv'
  BY <1>2, LoopSubmit
<1>3. ASSUME UNCHANGED <<history, blob>>,
             UNCHANGED submit \/ submit' = [s \in Submitters |-> Idle]
      PROVE  LoopInv'
  BY <1>3, LoopQuiet DEF Recorded, Latest
<1>4. ASSUME \/ \E a \in Applications :
                  ReturnAccepted(a) \/ \E x \in Extractors : StartExtraction(x, a)
             \/ \E x \in Extractors : ExtractionError(x)
      PROVE  LoopInv'
  <2>1. UNCHANGED <<history, blob, submit>>
    BY <1>4 DEF ReturnAccepted, StartExtraction, ExtractionError, durable
  <2>2. QED
    BY <1>3, <2>1
<1>5. ASSUME NEW x \in Extractors, NEW r \in Results, FinishExtraction(x, r)
      PROVE  LoopInv'
  <2>1. /\ UNCHANGED <<blob, submit>> /\ extract[x] # None
        /\ \/ UNCHANGED history
           \/ AppendRevision(extract[x], [Latest(extract[x]) EXCEPT
                !.extraction = r, !.attempts = Append(@, "succeeded")])
    BY <1>5 DEF FinishExtraction
  <2>2. PICK a \in Applications : a = extract[x] /\ Recorded(a)
    BY <2>1, Extracting
  <2>3. QED
    BY <2>1, <2>2, LoopAttempt DEF Outcomes
<1>6. ASSUME NEW x \in Extractors, NEW status \in {"failed", "blocked"},
             FailExtraction(x, status)
      PROVE  LoopInv'
  <2>1. /\ UNCHANGED <<blob, submit>> /\ extract[x] # None
        /\ \/ UNCHANGED history
           \/ AppendRevision(extract[x], [Latest(extract[x]) EXCEPT
                !.extraction = Unknown, !.attempts = Append(@, status)])
    BY <1>6 DEF FailExtraction
  <2>2. PICK a \in Applications : a = extract[x] /\ Recorded(a)
    BY <2>1, Extracting
  <2>3. QED
    BY <2>1, <2>2, LoopAttempt DEF Outcomes
<1>7. CASE Crash
  <2>1. UNCHANGED <<history, blob>> /\ submit' = [s \in Submitters |-> Idle]
    BY <1>7 DEF Crash, durable
  <2>2. QED
    BY <1>3, <2>1
<1>8. CASE UNCHANGED vars
  BY <1>3, <1>8 DEF vars
<1>9. QED
  BY <1>1, <1>2, <1>4, <1>5, <1>6, <1>7, <1>8 DEF Next

(* On one event loop a record marked stored has its bytes: no failed put   *)
(* removes a file another submission relies on, for any number of callers. *)
THEOREM BytesHeld == Spec => []StoredHasBytes
<1>1. Init => LoopInv
  BY DEF Init, LoopInv, StoredHasBytes, Recorded, Idle
<1>2. LoopInv /\ TablesInv => StoredHasBytes
  BY DEF LoopInv, StoredHasBytes
<1>3. QED
  BY <1>1, <1>2, LoopNext, Tables, PTL DEF Spec

-----------------------------------------------------------------------------
(* One creator per application.                                            *)

(* Only a reservation under a fresh identifier is not a replay, and a      *)
(* fresh identifier is in no call and in no answer.                        *)
LEMMA FreshIsUnknown ==
  ASSUME TablesInv, NEW a \in Applications, ~Recorded(a)
  PROVE  /\ \A p \in accepted : p.app # a
         /\ \A t \in Submitters : submit[t] # Idle => submit[t].ask.app # a
<1>1. \A p \in accepted : p.app # a
  BY BoundIsRecorded DEF TablesInv, TypeOK, AcceptedIsDurable
<1>2. \A t \in Submitters : submit[t] # Idle => submit[t].ask.app # a
  BY Advance
<1>3. QED
  BY <1>1, <1>2

(* Answers stay and calls only advance, fail or are lost.                  *)
LEMMA CreatedQuiet ==
  ASSUME CreatedOnce, UNCHANGED accepted,
         \A t \in Submitters : submit'[t] # Idle =>
           submit[t] # Idle /\ submit'[t].ask = submit[t].ask
  PROVE  CreatedOnce'
BY DEF CreatedOnce

LEMMA CreatedReserve ==
  ASSUME TablesInv, CreatedOnce, NEW s \in Submitters, NEW k \in Keys,
         NEW f \in Requests, Reserve(s, k, f)
  PROVE  CreatedOnce'
<1>1. /\ submit[s] = Idle /\ UNCHANGED accepted
      /\ submit \in [Submitters -> Call]
  BY DEF Reserve, TablesInv, TypeOK
<1>2. PICK a \in Applications, r \in BOOLEAN, b \in BOOLEAN :
        /\ Proceed(s, [key |-> k, request |-> f, app |-> a, replayed |-> r], b)
        /\ ~r => ~Recorded(a)
  <2>1. CASE ReserveByKey(s, k, f)
    <3>1. keyRow[k].app \in Applications
      BY <2>1 DEF ReserveByKey, TablesInv, TypeOK, KeyRow
    <3>2. Recorded(keyRow[k].app)
      BY <2>1, <3>1 DEF ReserveByKey, TablesInv, TablesAgree
    <3>3. Latest(keyRow[k].app).stored \in BOOLEAN
      BY <3>1, <3>2, LatestIsRecord DEF TablesInv, Record
    <3>4. QED
      BY <2>1, <3>1, <3>3 DEF ReserveByKey
  <2>2. CASE ReserveByFingerprint(s, k, f)
    <3>1. entity[f] \in Applications /\ Recorded(entity[f])
      BY <2>2 DEF ReserveByFingerprint, TablesInv, TypeOK, TablesAgree
    <3>2. Latest(entity[f]).stored \in BOOLEAN
      BY <3>1, LatestIsRecord DEF TablesInv, Record
    <3>3. QED
      BY <2>2, <3>1, <3>2 DEF ReserveByFingerprint
  <2>3. CASE ReserveNew(s, k, f)
    BY <2>3 DEF ReserveNew
  <2>4. QED
    BY <2>1, <2>2, <2>3 DEF Reserve
<1>3. /\ submit'[s].ask.app = a /\ submit'[s].ask.replayed = r
      /\ \A t \in Submitters \ {s} : submit'[t] = submit[t]
  BY <1>1, <1>2 DEF Proceed
<1>4. ~r => /\ \A p \in accepted : p.app # a
            /\ \A t \in Submitters : submit[t] # Idle => submit[t].ask.app # a
  BY <1>2, FreshIsUnknown
<1>5. \A p, q \in accepted' :
        p.app = q.app /\ ~p.replayed /\ ~q.replayed => p = q
  BY <1>1 DEF CreatedOnce
<1>6. ASSUME NEW t \in Submitters, submit'[t] # Idle, ~submit'[t].ask.replayed
      PROVE  /\ \A p \in accepted' : p.app = submit'[t].ask.app => p.replayed
             /\ \A u \in Submitters \ {t} :
                  submit'[u] # Idle /\ submit'[u].ask.app = submit'[t].ask.app
                    => submit'[u].ask.replayed
  <2>1. CASE t = s
    BY <1>1, <1>3, <1>4, <1>6, <2>1
  <2>2. CASE t # s
    <3>1. submit'[t] = submit[t]
      BY <1>3, <2>2
    <3>2. /\ \A p \in accepted : p.app = submit[t].ask.app => p.replayed
          /\ \A u \in Submitters \ {t} :
               submit[u] # Idle /\ submit[u].ask.app = submit[t].ask.app
                 => submit[u].ask.replayed
      BY <1>6, <3>1 DEF CreatedOnce
    <3>3. submit'[s].ask.app = submit[t].ask.app => submit'[s].ask.replayed
      BY <1>3, <1>4, <1>6, <3>1
    <3>4. QED
      BY <1>1, <1>3, <2>2, <3>1, <3>2, <3>3
  <2>3. QED
    BY <2>1, <2>2
<1>7. QED
  BY <1>5, <1>6 DEF CreatedOnce

LEMMA CreatedSubmit ==
  ASSUME TablesInv, CreatedOnce, NEW s \in Submitters,
         \/ LinkBlob(s) \/ ConfirmBlob(s) \/ SubmitError(s)
         \/ MarkStored(s) \/ AnswerClient(s)
  PROVE  CreatedOnce'
<1>1. /\ submit \in [Submitters -> Call] /\ submit[s] # Idle
      /\ submit[s] \in Busy
  <2>1. submit[s] # Idle
    BY DEF LinkBlob, ConfirmBlob, SubmitError, MarkStored, AnswerClient, Idle
  <2>2. QED
    BY <2>1, Advance DEF TablesInv, TypeOK
<1>2. CASE AnswerClient(s)
  <2>1. /\ accepted' = accepted \cup {submit[s].ask}
        /\ submit' = [submit EXCEPT ![s] = Idle]
    BY <1>2 DEF AnswerClient
  <2>2. submit'[s] = Idle /\ \A t \in Submitters \ {s} : submit'[t] = submit[t]
    BY <1>1, <2>1
  <2>3. ~submit[s].ask.replayed =>
          /\ \A p \in accepted : p.app = submit[s].ask.app => p.replayed
          /\ \A t \in Submitters \ {s} :
               submit[t] # Idle /\ submit[t].ask.app = submit[s].ask.app
                 => submit[t].ask.replayed
    BY <1>1 DEF CreatedOnce
  <2>4. \A p, q \in accepted' :
          p.app = q.app /\ ~p.replayed /\ ~q.replayed => p = q
    BY <2>1, <2>3 DEF CreatedOnce
  <2>5. ASSUME NEW t \in Submitters, submit'[t] # Idle, ~submit'[t].ask.replayed
        PROVE  /\ \A p \in accepted' : p.app = submit'[t].ask.app => p.replayed
               /\ \A u \in Submitters \ {t} :
                    submit'[u] # Idle /\ submit'[u].ask.app = submit'[t].ask.app
                      => submit'[u].ask.replayed
    <3>1. t # s /\ submit'[t] = submit[t]
      BY <2>2, <2>5
    <3>2. /\ \A p \in accepted : p.app = submit[t].ask.app => p.replayed
          /\ \A u \in Submitters \ {t} :
               submit[u] # Idle /\ submit[u].ask.app = submit[t].ask.app
                 => submit[u].ask.replayed
      BY <2>5, <3>1 DEF CreatedOnce
    <3>3. submit[s].ask.app = submit[t].ask.app => submit[s].ask.replayed
      BY <1>1, <3>1, <3>2
    <3>4. QED
      BY <2>1, <2>2, <3>1, <3>2, <3>3
  <2>6. QED
    BY <2>4, <2>5 DEF CreatedOnce
<1>3. CASE ~AnswerClient(s)
  <2>1. UNCHANGED accepted
    BY <1>3 DEF LinkBlob, ConfirmBlob, SubmitError, MarkStored
  <2>2. /\ \A t \in Submitters \ {s} : submit'[t] = submit[t]
        /\ submit'[s] # Idle => submit'[s].ask = submit[s].ask
    <3>1. CASE LinkBlob(s)
      BY <1>1, <3>1 DEF LinkBlob, Busy
    <3>2. CASE ConfirmBlob(s)
      BY <1>1, <3>2 DEF ConfirmBlob, Busy
    <3>3. CASE MarkStored(s)
      BY <1>1, <3>3 DEF MarkStored, Busy
    <3>4. CASE SubmitError(s)
      BY <1>1, <3>4 DEF SubmitError
    <3>5. QED
      BY <1>3, <3>1, <3>2, <3>3, <3>4
  <2>3. QED
    BY <1>1, <2>1, <2>2, CreatedQuiet
<1>4. QED
  BY <1>2, <1>3

LEMMA CreatedNext == TablesInv /\ CreatedOnce /\ [Next]_vars => CreatedOnce'
<1> SUFFICES ASSUME TablesInv, CreatedOnce, [Next]_vars PROVE CreatedOnce'
  OBVIOUS
<1>1. ASSUME NEW s \in Submitters, NEW k \in Keys, NEW f \in Requests,
             Reserve(s, k, f)
      PROVE  CreatedOnce'
  BY <1>1, CreatedReserve
<1>2. ASSUME NEW s \in Submitters,
             \/ LinkBlob(s) \/ ConfirmBlob(s) \/ SubmitError(s)
             \/ MarkStored(s) \/ AnswerClient(s)
      PROVE  CreatedOnce'
  BY <1>2, CreatedSubmit
<1>3. ASSUME NEW a \in Applications,
             \/ ReturnAccepted(a)
             \/ \E x \in Extractors : StartExtraction(x, a)
      PROVE  CreatedOnce'
  BY <1>3, CreatedQuiet DEF ReturnAccepted, StartExtraction
<1>4. ASSUME NEW x \in Extractors,
             \/ \E r \in Results : FinishExtraction(x, r)
             \/ \E status \in {"failed", "blocked"} : FailExtraction(x, status)
             \/ ExtractionError(x)
      PROVE  CreatedOnce'
  BY <1>4, CreatedQuiet DEF FinishExtraction, FailExtraction, ExtractionError
<1>5. CASE Crash
  BY <1>5, CreatedQuiet DEF Crash
<1>6. CASE UNCHANGED vars
  BY <1>6, CreatedQuiet DEF vars
<1>7. QED
  BY <1>1, <1>2, <1>3, <1>4, <1>5, <1>6 DEF Next

(* However many callers race for one request, at most one is ever told     *)
(* that it created the application, even across crashes.                   *)
THEOREM OneCreator == Spec => []CreatedOnce
<1>1. Init => CreatedOnce
  BY DEF Init, CreatedOnce
<1>2. QED
  BY <1>1, CreatedNext, Tables, PTL DEF Spec

-----------------------------------------------------------------------------
(* The revisions of an application only move forward.                      *)

(* What a later record keeps of an earlier one.                            *)
Follows(old, new) ==
  /\ old.stored => new.stored
  /\ old.extraction \in Results => new.extraction = old.extraction
  /\ Len(old.attempts) <= Len(new.attempts)
  /\ \A i \in 1..Len(old.attempts) : new.attempts[i] = old.attempts[i]

(* The attempts of a record account for its extraction.                    *)
Accounts(rec) ==
  /\ (rec.extraction = Pending) <=> (Len(rec.attempts) = 0)
  /\ (rec.extraction \in Results) <=>
       /\ Len(rec.attempts) > 0
       /\ rec.attempts[Len(rec.attempts)] = "succeeded"
  /\ \A i \in 1..(Len(rec.attempts) - 1) : rec.attempts[i] # "succeeded"

(* Length and entries rather than SubSeq: a sequence that begins with an   *)
(* earlier one need not be longer for SubSeq to agree.                     *)
HistoryHolds ==
  \A a \in Applications : Recorded(a) =>
    /\ \A i \in 1..Len(history[a]) :
         \A j \in 1..Len(history[a]) :
           i <= j => Follows(history[a][i], history[a][j])
    /\ Accounts(Latest(a))

LEMMA FollowsItself ==
  ASSUME NEW rec \in Record
  PROVE  Follows(rec, rec)
<1>1. Len(rec.attempts) \in Nat
  BY DEF Record
<1>2. QED
  BY <1>1 DEF Follows

LEMMA FollowsOn ==
  ASSUME NEW r1 \in Record, NEW r2 \in Record, NEW r3 \in Record,
         Follows(r1, r2), Follows(r2, r3)
  PROVE  Follows(r1, r3)
<1>1. /\ Len(r1.attempts) \in Nat /\ Len(r2.attempts) \in Nat
      /\ Len(r3.attempts) \in Nat
  BY DEF Record
<1>2. Len(r1.attempts) <= Len(r2.attempts) /\ Len(r2.attempts) <= Len(r3.attempts)
  BY DEF Follows
<1>3. ASSUME NEW i \in 1..Len(r1.attempts)
      PROVE  r3.attempts[i] = r1.attempts[i]
  <2>1. i \in 1..Len(r2.attempts)
    BY <1>1, <1>2
  <2>2. QED
    BY <2>1 DEF Follows
<1>4. QED
  BY <1>1, <1>2, <1>3 DEF Follows

(* A revision that follows the latest one keeps the whole history moving   *)
(* forward.                                                                *)
LEMMA HistoryAppend ==
  ASSUME TablesInv, HistoryHolds, NEW a \in Applications, NEW rec \in Record,
         AppendRevision(a, rec), Recorded(a) => Follows(Latest(a), rec),
         Accounts(rec)
  PROVE  /\ HistoryHolds'
         /\ \A b \in Applications : Recorded(b) =>
              Recorded(b)' /\ Follows(Latest(b), Latest(b)')
<1> DEFINE n == Len(history[a])
<1>1. /\ history'[a] = Append(history[a], rec)
      /\ Latest(a)' = rec /\ Recorded(a)'
      /\ \A b \in Applications \ {a} : history'[b] = history[b]
  BY AppendIsLatest DEF TablesInv
<1>2. history[a] \in Seq(Record) /\ n \in Nat
  BY DEF TablesInv, TypeOK
<1>3. /\ Len(history'[a]) = n + 1 /\ history'[a][n + 1] = rec
      /\ \A i \in 1..n : history'[a][i] = history[a][i] /\ history[a][i] \in Record
  BY <1>1, <1>2
<1>4. ASSUME NEW i \in 1..n PROVE Follows(history[a][i], rec)
  <2>1. Recorded(a) /\ n \in 1..n /\ i <= n
    BY <1>2, <1>4 DEF Recorded
  <2>2. Follows(history[a][i], history[a][n])
    BY <2>1 DEF HistoryHolds
  <2>3. Follows(history[a][n], rec) /\ history[a][n] \in Record
    BY <1>3, <2>1 DEF Latest
  <2>4. QED
    BY <1>3, <2>2, <2>3, FollowsOn
<1>5. ASSUME NEW i \in 1..(n + 1), NEW j \in 1..(n + 1), i <= j
      PROVE  Follows(history'[a][i], history'[a][j])
  <2>1. CASE j = n + 1 /\ i = n + 1
    BY <1>3, <2>1, FollowsItself
  <2>2. CASE j = n + 1 /\ i \in 1..n
    BY <1>3, <1>4, <2>2
  <2>3. CASE j \in 1..n
    <3>1. i \in 1..n /\ Recorded(a)
      BY <1>2, <1>5, <2>3 DEF Recorded
    <3>2. Follows(history[a][i], history[a][j])
      BY <1>5, <2>3, <3>1 DEF HistoryHolds
    <3>3. QED
      BY <1>3, <2>3, <3>1, <3>2
  <2>4. QED
    BY <1>2, <1>5, <2>1, <2>2, <2>3
<1>6. ASSUME NEW b \in Applications, Recorded(b)'
      PROVE  /\ \A i \in 1..Len(history'[b]) :
                  \A j \in 1..Len(history'[b]) :
                    i <= j => Follows(history'[b][i], history'[b][j])
             /\ Accounts(history'[b][Len(history'[b])])
  <2>1. CASE b = a
    BY <1>1, <1>3, <1>5, <2>1
  <2>2. CASE b # a
    BY <1>1, <1>6, <2>2 DEF HistoryHolds, Recorded, Latest
  <2>3. QED
    BY <2>1, <2>2
<1>7. HistoryHolds'
  BY <1>6 DEF HistoryHolds, Latest
<1>8. ASSUME NEW b \in Applications, Recorded(b)
      PROVE  Recorded(b)' /\ Follows(Latest(b), history'[b][Len(history'[b])])
  <2>1. CASE b = a
    BY <1>1, <1>3, <1>8, <2>1 
  <2>2. CASE b # a
    <3>1. history'[b] = history[b]
      BY <1>1, <2>2
    <3>2. Latest(b) \in Record
      BY <1>8, LatestIsRecord DEF TablesInv
    <3>3. QED
      BY <1>8, <3>1, <3>2, FollowsItself DEF Recorded, Latest
  <2>3. QED
    BY <2>1, <2>2
<1>9. QED
  BY <1>7, <1>8 DEF Latest

LEMMA HistoryQuiet ==
  ASSUME TablesInv, HistoryHolds, UNCHANGED history
  PROVE  /\ HistoryHolds'
         /\ \A b \in Applications : Recorded(b) =>
              Recorded(b)' /\ Follows(Latest(b), Latest(b)')
<1>1. HistoryHolds'
  BY DEF HistoryHolds, Recorded, Latest
<1>2. ASSUME NEW b \in Applications, Recorded(b)
      PROVE  Recorded(b)' /\ Follows(Latest(b), history'[b][Len(history'[b])])
  BY <1>2, LatestIsRecord, FollowsItself DEF TablesInv, Recorded, Latest
<1>3. QED
  BY <1>1, <1>2 DEF Latest

(* A first revision has no extraction and no attempts.                     *)
LEMMA HistoryReserve ==
  ASSUME TablesInv, HistoryHolds, NEW s \in Submitters, NEW k \in Keys,
         NEW f \in Requests, Reserve(s, k, f)
  PROVE  /\ HistoryHolds'
         /\ \A b \in Applications : Recorded(b) =>
              Recorded(b)' /\ Follows(Latest(b), Latest(b)')
<1>1. CASE UNCHANGED history
  BY <1>1, HistoryQuiet
<1>2. CASE ReserveNew(s, k, f)
  <2>1. PICK a \in Applications : ~Recorded(a) /\ AppendRevision(a, NewRecord(f))
    BY <1>2 DEF ReserveNew
  <2>2. PICK rec \in Record : rec = NewRecord(f)
    <3>1. NewRecord(f) \in Record
      BY DEF NewRecord, Record
    <3>2. QED
      BY <3>1
  <2>3. rec.extraction = Pending /\ rec.attempts = <<>>
    BY <2>2 DEF NewRecord
  <2>4. Accounts(rec)
    BY <2>3 DEF Accounts
  <2>5. QED
    BY <2>1, <2>2, <2>4, HistoryAppend
<1>3. QED
  BY <1>1, <1>2 DEF Reserve, ReserveByKey, ReserveByFingerprint

LEMMA HistoryMark ==
  ASSUME TablesInv, HistoryHolds, NEW s \in Submitters, MarkStored(s)
  PROVE  /\ HistoryHolds'
         /\ \A b \in Applications : Recorded(b) =>
              Recorded(b)' /\ Follows(Latest(b), Latest(b)')
<1>1. PICK a \in Applications : a = submit[s].ask.app /\ Recorded(a)
                                /\ Latest(a) \in Record
  BY Advance DEF MarkStored, Idle
<1>2. CASE UNCHANGED history
  BY <1>2, HistoryQuiet
<1>3. CASE AppendRevision(a, [Latest(a) EXCEPT !.stored = TRUE])
  <2>1. PICK rec \in Record : rec = [Latest(a) EXCEPT !.stored = TRUE]
    BY <1>1 DEF Record
  <2>2. /\ rec.stored /\ rec.extraction = Latest(a).extraction
        /\ rec.attempts = Latest(a).attempts
    BY <1>1, <2>1 DEF Record
  <2>3. Len(rec.attempts) \in Nat
    BY DEF Record
  <2>4. Follows(Latest(a), rec)
    BY <2>2, <2>3 DEF Follows
  <2>5. Accounts(rec)
    BY <1>1, <2>2 DEF HistoryHolds, Accounts
  <2>6. QED
    BY <1>3, <2>1, <2>4, <2>5, HistoryAppend
<1>4. QED
  BY <1>1, <1>2, <1>3 DEF MarkStored

(* An attempt is recorded only while no extraction is accepted: then no    *)
(* attempt before it succeeded.                                            *)
LEMMA HistoryAttempt ==
  ASSUME TablesInv, HistoryHolds, NEW a \in Applications, Recorded(a),
         ~Settled(a), NEW e, NEW o,
         \/ e \in Results /\ o = "succeeded"
         \/ e = Unknown /\ o \in {"failed", "blocked"},
         AppendRevision(a, [Latest(a) EXCEPT !.extraction = e,
                                             !.attempts = Append(@, o)])
  PROVE  /\ HistoryHolds'
         /\ \A b \in Applications : Recorded(b) =>
              Recorded(b)' /\ Follows(Latest(b), Latest(b)')
<1>1. PICK old \in Record : old = Latest(a)
  BY LatestIsRecord DEF TablesInv
<1>2. PICK n \in Nat : n = Len(old.attempts) /\ old.attempts \in Seq(Outcomes)
  BY DEF Record
<1>3. o \in Outcomes /\ e \in Results \cup {Unknown}
  BY DEF Outcomes
<1>4. /\ Append(old.attempts, o) \in Seq(Outcomes)
      /\ Len(Append(old.attempts, o)) = n + 1
      /\ Append(old.attempts, o)[n + 1] = o
      /\ \A i \in 1..n : Append(old.attempts, o)[i] = old.attempts[i]
  BY <1>2, <1>3
<1>5. PICK rec \in Record : rec = [old EXCEPT !.extraction = e,
                                              !.attempts = Append(@, o)]
  BY <1>3, <1>4 DEF Record
<1>6. /\ rec.stored = old.stored /\ rec.extraction = e
      /\ rec.attempts = Append(old.attempts, o)
  BY <1>5 DEF Record
<1>7. old.extraction \notin Results /\ Accounts(old)
  BY <1>1 DEF Settled, HistoryHolds
<1>8. Follows(old, rec)
  BY <1>2, <1>4, <1>6, <1>7 DEF Follows
<1>9. \A i \in 1..n : old.attempts[i] # "succeeded"
  BY <1>2, <1>7 DEF Accounts
<1>10. /\ e # Pending /\ n + 1 # 0 /\ n + 1 > 0
       /\ e \in Results <=> o = "succeeded"
  BY <1>2
<1>11. /\ Len(rec.attempts) = n + 1 /\ rec.attempts[n + 1] = o
       /\ \A i \in 1..n : rec.attempts[i] # "succeeded"
  BY <1>4, <1>6, <1>9
<1>12. Accounts(rec)
  BY <1>2, <1>6, <1>10, <1>11 DEF Accounts
<1>13. QED
  BY <1>1, <1>5, <1>8, <1>12, HistoryAppend

LEMMA HistoryNext ==
  ASSUME TablesInv, HistoryHolds, [Next]_vars
  PROVE  /\ HistoryHolds'
         /\ \A b \in Applications : Recorded(b) =>
              Recorded(b)' /\ Follows(Latest(b), Latest(b)')
<1>1. CASE \E s \in Submitters, k \in Keys, f \in Requests : Reserve(s, k, f)
  BY <1>1, HistoryReserve
<1>2. CASE \E s \in Submitters : MarkStored(s)
  BY <1>2, HistoryMark
<1>3. ASSUME NEW x \in Extractors, NEW r \in Results, FinishExtraction(x, r)
      PROVE  /\ HistoryHolds'
             /\ \A b \in Applications : Recorded(b) =>
                  Recorded(b)' /\ Follows(Latest(b), Latest(b)')
  <2>1. PICK a \in Applications : a = extract[x] /\ Recorded(a)
    BY <1>3, Extracting DEF FinishExtraction
  <2>2. CASE Settled(a)
    BY <1>3, <2>1, <2>2, HistoryQuiet DEF FinishExtraction
  <2>3. CASE ~Settled(a)
    <3>1. AppendRevision(a, [Latest(a) EXCEPT !.extraction = r,
                                              !.attempts = Append(@, "succeeded")])
      BY <1>3, <2>1, <2>3 DEF FinishExtraction
    <3>2. QED
      BY <2>1, <2>3, <3>1, HistoryAttempt
  <2>4. QED
    BY <2>2, <2>3
<1>4. ASSUME NEW x \in Extractors, NEW status \in {"failed", "blocked"},
             FailExtraction(x, status)
      PROVE  /\ HistoryHolds'
             /\ \A b \in Applications : Recorded(b) =>
                  Recorded(b)' /\ Follows(Latest(b), Latest(b)')
  <2>1. PICK a \in Applications : a = extract[x] /\ Recorded(a)
    BY <1>4, Extracting DEF FailExtraction
  <2>2. CASE Settled(a)
    BY <1>4, <2>1, <2>2, HistoryQuiet DEF FailExtraction
  <2>3. CASE ~Settled(a)
    <3>1. AppendRevision(a, [Latest(a) EXCEPT !.extraction = Unknown,
                                              !.attempts = Append(@, status)])
      BY <1>4, <2>1, <2>3 DEF FailExtraction
    <3>2. QED
      BY <2>1, <2>3, <3>1, HistoryAttempt
  <2>4. QED
    BY <2>2, <2>3
<1>5. CASE UNCHANGED history
  BY <1>5, HistoryQuiet
<1>6. QED
  BY <1>1, <1>2, <1>3, <1>4, <1>5
     DEF Next, vars, LinkBlob, ConfirmBlob, SubmitError, AnswerClient,
         ReturnAccepted, StartExtraction, ExtractionError, Crash, durable

(* Length and entries say what the property says with SubSeq.              *)
LEMMA HistorySays == TypeOK /\ HistoryHolds => HistoryMovesForward
<1> SUFFICES ASSUME TypeOK, HistoryHolds, NEW a \in Applications
    PROVE  /\ \A j \in DOMAIN history[a] : \A i \in 1..j :
                LET old == history[a][i]  new == history[a][j] IN
                /\ old.stored => new.stored
                /\ old.extraction \in Results => new.extraction = old.extraction
                /\ old.attempts = SubSeq(new.attempts, 1, Len(old.attempts))
           /\ Recorded(a) =>
                LET rec == Latest(a)  n == Len(rec.attempts) IN
                /\ rec.extraction = Pending <=> n = 0
                /\ Settled(a) <=> n > 0 /\ rec.attempts[n] = "succeeded"
                /\ \A i \in 1..(n - 1) : rec.attempts[i] # "succeeded"
  BY DEF HistoryMovesForward
<1>1. history[a] \in Seq(Record)
  BY DEF TypeOK
<1>2. ASSUME NEW j \in DOMAIN history[a], NEW i \in 1..j
      PROVE  LET old == history[a][i]  new == history[a][j] IN
             /\ old.stored => new.stored
             /\ old.extraction \in Results => new.extraction = old.extraction
             /\ old.attempts = SubSeq(new.attempts, 1, Len(old.attempts))
  <2>1. /\ Recorded(a) /\ i \in 1..Len(history[a]) /\ j \in 1..Len(history[a])
        /\ i <= j
    BY <1>1, <1>2 DEF Recorded
  <2>2. PICK old \in Record, new \in Record :
          old = history[a][i] /\ new = history[a][j]
    BY <1>1, <2>1
  <2>3. Follows(old, new)
    BY <2>1, <2>2 DEF HistoryHolds
  <2>4. old.attempts \in Seq(Outcomes) /\ new.attempts \in Seq(Outcomes)
    BY DEF Record
  <2>5. PICK s1 \in Seq(Outcomes), s2 \in Seq(Outcomes) :
          s1 = old.attempts /\ s2 = new.attempts
    BY <2>4
  <2>6. Len(s1) <= Len(s2) /\ \A m \in 1..Len(s1) : s2[m] = s1[m]
    BY <2>3, <2>5 DEF Follows
  <2>7. s1 = SubSeq(s2, 1, Len(s1))
    BY <2>6
  <2>8. QED
    BY <2>2, <2>3, <2>5, <2>7 DEF Follows
<1>3. ASSUME Recorded(a)
      PROVE  LET rec == Latest(a)  n == Len(rec.attempts) IN
             /\ rec.extraction = Pending <=> n = 0
             /\ Settled(a) <=> n > 0 /\ rec.attempts[n] = "succeeded"
             /\ \A i \in 1..(n - 1) : rec.attempts[i] # "succeeded"
  BY <1>3 DEF HistoryHolds, Accounts, Settled
<1>4. QED
  BY <1>2, <1>3

LEMMA Histories == Spec => [](TablesInv /\ HistoryHolds)
<1>1. Init => HistoryHolds
  BY DEF Init, HistoryHolds, Recorded
<1>2. QED
  BY <1>1, HistoryNext, Tables, PTL DEF Spec

(* Stored stays stored, an accepted extraction and every attempt stay on   *)
(* record, and the attempts account for the extraction.                    *)
THEOREM OnlyForward == Spec => []HistoryMovesForward
<1>1. TablesInv => TypeOK
  BY DEF TablesInv
<1>2. QED
  BY <1>1, Histories, HistorySays, PTL

(* A step that changes the answers of extract_deck adds at most the one    *)
(* on record.                                                              *)
LEMMA AgreeNext ==
  ASSUME TablesInv, HistoryHolds, ExtractionsAgree, [Next]_vars
  PROVE  ExtractionsAgree'
<1>1. /\ \A b \in Applications : Recorded(b) =>
           Recorded(b)' /\ Follows(Latest(b), Latest(b)')
      /\ extracted \subseteq Applications \X Results
  BY HistoryNext DEF TablesInv, TypeOK
<1>2. ASSUME NEW p \in extracted
      PROVE  Recorded(p[1])' /\ history'[p[1]][Len(history'[p[1]])].extraction = p[2]
  <2>1. p[1] \in Applications /\ p[2] \in Results
    BY <1>1
  <2>2. Recorded(p[1]) /\ Latest(p[1]).extraction = p[2]
    BY DEF ExtractionsAgree
  <2>3. QED
    BY <1>1, <2>1, <2>2 DEF Follows, Latest
<1>3. ASSUME NEW a \in Applications, ReturnAccepted(a)
      PROVE  ExtractionsAgree'
  BY <1>2, <1>3 DEF ReturnAccepted, durable, ExtractionsAgree, Latest, Recorded
<1>4. ASSUME NEW x \in Extractors, NEW r \in Results, FinishExtraction(x, r)
      PROVE  ExtractionsAgree'
  <2>1. PICK a \in Applications :
          a = extract[x] /\ Recorded(a) /\ Latest(a) \in Record
    BY <1>4, Extracting DEF FinishExtraction
  <2>2. CASE Settled(a)
    <3>1. /\ UNCHANGED history
          /\ \A p \in extracted' : p \in extracted \/ (p = <<a, r>> /\ Latest(a).extraction = r)
      BY <1>4, <2>1, <2>2 DEF FinishExtraction
    <3>2. ASSUME NEW p \in extracted'
          PROVE  Recorded(p[1])' /\ history'[p[1]][Len(history'[p[1]])].extraction = p[2]
      <4>1. CASE p \in extracted
        BY <1>2, <4>1
      <4>2. CASE p = <<a, r>> /\ Latest(a).extraction = r
        BY <2>1, <3>1, <4>2 DEF Latest, Recorded
      <4>3. QED
        BY <3>1, <4>1, <4>2
    <3>3. QED
      BY <3>2 DEF ExtractionsAgree, Latest
  <2>3. CASE ~Settled(a)
    <3>1. /\ AppendRevision(a, [Latest(a) EXCEPT !.extraction = r,
                                                 !.attempts = Append(@, "succeeded")])
          /\ \A p \in extracted' : p \in extracted \/ p = <<a, r>>
      BY <1>4, <2>1, <2>3 DEF FinishExtraction
    <3>2. Append(Latest(a).attempts, "succeeded") \in Seq(Outcomes)
      BY <2>1 DEF Record, Outcomes
    <3>3. PICK rec \in Record :
            /\ rec = [Latest(a) EXCEPT !.extraction = r,
                                       !.attempts = Append(@, "succeeded")]
            /\ rec.extraction = r
      <4>1. [Latest(a) EXCEPT !.extraction = r,
                              !.attempts = Append(@, "succeeded")] \in Record
        BY <2>1, <3>2 DEF Record
      <4>2. [Latest(a) EXCEPT !.extraction = r,
                              !.attempts = Append(@, "succeeded")].extraction = r
        BY <2>1 DEF Record
      <4>3. QED
        BY <4>1, <4>2
    <3>4. Latest(a)' = rec /\ Recorded(a)'
      BY <3>1, <3>3, AppendIsLatest DEF TablesInv
    <3>5. ASSUME NEW p \in extracted'
          PROVE  Recorded(p[1])' /\ history'[p[1]][Len(history'[p[1]])].extraction = p[2]
      <4>1. CASE p \in extracted
        BY <1>2, <4>1
      <4>2. CASE p = <<a, r>>
        <5>1. p[1] = a /\ p[2] = r
          BY <4>2
        <5>2. history'[a][Len(history'[a])].extraction = r
          BY <3>3, <3>4 DEF Latest
        <5>3. QED
          BY <3>4, <5>1, <5>2 DEF Recorded
      <4>3. QED
        BY <3>1, <3>5, <4>1, <4>2
    <3>6. QED
      BY <3>5 DEF ExtractionsAgree, Latest
  <2>4. QED
    BY <2>2, <2>3
<1>5. CASE UNCHANGED extracted
  BY <1>2, <1>5 DEF ExtractionsAgree, Latest
<1>6. QED
  BY <1>3, <1>4, <1>5
     DEF Next, vars, Reserve, LinkBlob, ConfirmBlob, SubmitError, MarkStored,
         AnswerClient, StartExtraction, FailExtraction, ExtractionError, Crash

(* Every caller of extract_deck that gets an answer gets the extraction on *)
(* record, although their extractors raced.                                *)
THEOREM OneExtraction == Spec => []ExtractionsAgree
<1>1. Init => ExtractionsAgree
  BY DEF Init, ExtractionsAgree
<1>2. QED
  BY <1>1, AgreeNext, Histories, PTL DEF Spec

-----------------------------------------------------------------------------
(* On one event loop intake implements IdempotentIntake: its three writes, *)
(* crashes, retries and replays show as single steps of the promise, or    *)
(* not at all.                                                             *)

IsHeld(b) == Recorded(b) /\ Latest(b).stored /\ blob[b] = Latest(b).request
DeckOf(b) == IF Recorded(b) /\ Settled(b) THEN Latest(b).extraction ELSE None
Given(p)  == <<p.key, p.request, p.app>>

LEMMA PromiseSees ==
  /\ Promise!vars = <<entity, {a \in Applications : IsHeld(a)},
                      {Given(p) : p \in accepted},
                      [a \in Applications |-> DeckOf(a)]>>
  /\ Promise!vars' = <<entity, {a \in Applications : IsHeld(a)},
                       {Given(p) : p \in accepted},
                       [a \in Applications |-> DeckOf(a)]>>'
BY DEF Promise!vars, IsHeld, DeckOf, Given

LEMMA PromiseInit == Init => Promise!Init
BY DEF Init, Promise!Init, Recorded

(* A step the promise does not see.                                        *)
LEMMA PromiseStutter ==
  ASSUME UNCHANGED <<entity, accepted>>,
         \A b \in Applications : (IsHeld(b)' <=> IsHeld(b)) /\ DeckOf(b)' = DeckOf(b)
  PROVE  UNCHANGED Promise!vars
<1>1. {a \in Applications : IsHeld(a)}' = {a \in Applications : IsHeld(a)}
  OBVIOUS
<1>2. [a \in Applications |-> DeckOf(a)]' = [a \in Applications |-> DeckOf(a)]
  OBVIOUS
<1>3. {Given(p) : p \in accepted}' = {Given(p) : p \in accepted}
  BY DEF Given
<1>4. QED
  BY <1>1, <1>2, <1>3, PromiseSees

(* The record of an attempt.                                               *)
LEMMA AttemptRecord ==
  ASSUME NEW a \in Applications, Latest(a) \in Record,
         NEW e \in Results \cup {Unknown}, NEW o \in Outcomes,
         AppendRevision(a, [Latest(a) EXCEPT !.extraction = e,
                                             !.attempts = Append(@, o)])
  PROVE  \E rec \in Record :
           /\ AppendRevision(a, rec) /\ rec.stored = Latest(a).stored
           /\ rec.request = Latest(a).request /\ rec.extraction = e
<1> DEFINE new == [Latest(a) EXCEPT !.extraction = e, !.attempts = Append(@, o)]
<1>1. Append(Latest(a).attempts, o) \in Seq(Outcomes)
  BY DEF Record
<1>2. /\ new \in Record /\ new.stored = Latest(a).stored
      /\ new.request = Latest(a).request /\ new.extraction = e
  BY <1>1 DEF Record
<1>3. AppendRevision(a, new)
  OBVIOUS
<1>4. QED
  BY <1>2, <1>3

LEMMA PromiseReserve ==
  ASSUME ~Parallel, TablesInv, LoopInv, NEW s \in Submitters, NEW k \in Keys,
         NEW f \in Requests, Reserve(s, k, f)
  PROVE  [Promise!Next]_Promise!vars
<1>1. UNCHANGED <<blob, accepted>>
  BY DEF Reserve
<1>2. CASE ReserveByKey(s, k, f) \/ ReserveByFingerprint(s, k, f)
  <2>1. UNCHANGED <<entity, history>>
    BY <1>2 DEF ReserveByKey, ReserveByFingerprint
  <2>2. \A b \in Applications : (IsHeld(b)' <=> IsHeld(b)) /\ DeckOf(b)' = DeckOf(b)
    BY <1>1, <2>1 DEF IsHeld, DeckOf, Recorded, Latest, Settled
  <2>3. QED
    BY <1>1, <2>1, <2>2, PromiseStutter
<1>3. CASE ReserveNew(s, k, f)
  <2>1. PICK a \in Applications :
          /\ ~Recorded(a) /\ entity' = [entity EXCEPT ![f] = a]
          /\ AppendRevision(a, NewRecord(f))
    BY <1>3 DEF ReserveNew
  <2>2. entity[f] = None
    BY <1>3 DEF ReserveNew
  <2>3. NewRecord(f) \in Record
    BY DEF NewRecord, Record
  <2>4. /\ Latest(a)' = NewRecord(f)
        /\ \A b \in Applications \ {a} : history'[b] = history[b]
    BY <2>1, <2>3, AppendIsLatest DEF TablesInv
  <2>5. Latest(a)'.stored = FALSE /\ Latest(a)'.extraction = Pending
    BY <2>4 DEF NewRecord
  <2>6. ~IsHeld(a) /\ ~IsHeld(a)' /\ DeckOf(a) = None /\ DeckOf(a)' = None
    BY <2>1, <2>5 DEF IsHeld, DeckOf, Settled
  <2>7. \A b \in Applications : (IsHeld(b)' <=> IsHeld(b)) /\ DeckOf(b)' = DeckOf(b)
    BY <1>1, <2>4, <2>6 DEF IsHeld, DeckOf, Recorded, Latest, Settled
  <2>8. \A g \in Requests : entity[g] # a
    BY <2>1 DEF TablesInv, TablesAgree
  <2>9. /\ {b \in Applications : IsHeld(b)}' = {b \in Applications : IsHeld(b)}
        /\ [b \in Applications |-> DeckOf(b)]' = [b \in Applications |-> DeckOf(b)]
    BY <2>7
  <2>10. {Given(p) : p \in accepted}' = {Given(p) : p \in accepted}
    BY <1>1 DEF Given
  <2>11. Promise!Assign(f, a)
    BY <2>1, <2>2, <2>8, <2>9, <2>10 DEF Promise!Assign, IsHeld, DeckOf, Given
  <2>12. QED
    BY <2>11 DEF Promise!Next
<1>4. QED
  BY <1>2, <1>3 DEF Reserve

(* Putting, confirming and unlinking bytes never shows: a deck is held     *)
(* only once it is marked stored, and until then its file may come and go. *)
LEMMA PromisePut ==
  ASSUME ~Parallel, TablesInv, LoopInv, NEW s \in Submitters,
         LinkBlob(s) \/ ConfirmBlob(s) \/ SubmitError(s)
  PROVE  UNCHANGED Promise!vars
<1>1. /\ submit[s] # Idle /\ UNCHANGED <<entity, history, accepted>>
  BY DEF LinkBlob, ConfirmBlob, SubmitError, Idle, durable
<1>2. PICK a \in Applications, f \in Requests :
        /\ a = submit[s].ask.app /\ f = submit[s].ask.request
        /\ Recorded(a) /\ Latest(a).request = f
  BY <1>1, Advance, BoundIsRecorded DEF TablesInv
<1>3. \A b \in Applications : DeckOf(b)' = DeckOf(b)
  BY <1>1 DEF DeckOf, Recorded, Latest, Settled
<1>4. \/ UNCHANGED blob
      \/ ~Latest(a).stored /\ \A b \in Applications \ {a} : blob'[b] = blob[b]
  <2>1. CASE LinkBlob(s)
    <3>1. blob[a] \in {None, f} /\ blob' = [blob EXCEPT ![a] = f]
      BY <1>2, <2>1 DEF LinkBlob
    <3>2. blob[a] = None => ~Latest(a).stored
      BY <1>2 DEF LoopInv, StoredHasBytes
    <3>3. blob[a] = f => UNCHANGED blob
      BY <3>1 DEF TablesInv, TypeOK
    <3>4. QED
      BY <3>1, <3>2, <3>3 DEF TablesInv, TypeOK
  <2>2. CASE ConfirmBlob(s)
    BY <2>2 DEF ConfirmBlob, durable
  <2>3. CASE SubmitError(s)
    <3>1. \/ UNCHANGED blob
          \/ /\ submit[s].pc = "linked" /\ submit[s].created
             /\ blob' = [blob EXCEPT ![a] = None]
      BY <1>2, <2>3 DEF SubmitError
    <3>2. submit[s].pc = "linked" /\ submit[s].created => ~Latest(a).stored
      BY <1>2 DEF LoopInv
    <3>3. QED
      BY <3>1, <3>2 DEF TablesInv, TypeOK
  <2>4. QED
    BY <2>1, <2>2, <2>3
<1>5. \A b \in Applications : IsHeld(b)' <=> IsHeld(b)
  BY <1>1, <1>4 DEF IsHeld, Recorded, Latest
<1>6. QED
  BY <1>1, <1>3, <1>5, PromiseStutter

(* Marking the deck stored is the one write that shows.                    *)
LEMMA PromiseMark ==
  ASSUME ~Parallel, TablesInv, LoopInv, NEW s \in Submitters, MarkStored(s)
  PROVE  [Promise!Next]_Promise!vars
<1>1. /\ submit[s] # Idle /\ submit[s].pc = "mark"
      /\ UNCHANGED <<entity, blob, accepted>>
  BY DEF MarkStored, Idle
<1>2. PICK a \in Applications, f \in Requests :
        /\ a = submit[s].ask.app /\ f = submit[s].ask.request
        /\ Recorded(a) /\ Latest(a).request = f /\ entity[f] = a
        /\ Latest(a) \in Record
  BY <1>1, Advance, BoundIsRecorded DEF TablesInv
<1>3. blob[a] = f
  BY <1>1, <1>2 DEF LoopInv
<1>4. CASE UNCHANGED history
  <2>1. \A b \in Applications : (IsHeld(b)' <=> IsHeld(b)) /\ DeckOf(b)' = DeckOf(b)
    BY <1>1, <1>4 DEF IsHeld, DeckOf, Recorded, Latest, Settled
  <2>2. QED
    BY <1>1, <2>1, PromiseStutter
<1>5. CASE AppendRevision(a, [Latest(a) EXCEPT !.stored = TRUE])
  <2>1. /\ [Latest(a) EXCEPT !.stored = TRUE] \in Record
        /\ [Latest(a) EXCEPT !.stored = TRUE].stored
        /\ [Latest(a) EXCEPT !.stored = TRUE].request = f
        /\ [Latest(a) EXCEPT !.stored = TRUE].extraction = Latest(a).extraction
    BY <1>2 DEF Record
  <2>2. PICK rec \in Record :
          /\ rec = [Latest(a) EXCEPT !.stored = TRUE] /\ rec.stored
          /\ rec.request = f /\ rec.extraction = Latest(a).extraction
    BY <2>1
  <2>3. /\ Latest(a)' = rec /\ Recorded(a)'
        /\ \A b \in Applications \ {a} : history'[b] = history[b]
    BY <1>5, <2>2, AppendIsLatest DEF TablesInv
  <2>4. IsHeld(a)' /\ DeckOf(a)' = DeckOf(a)
    BY <1>1, <1>2, <1>3, <2>2, <2>3 DEF IsHeld, DeckOf, Settled
  <2>5. \A b \in Applications \ {a} :
          (IsHeld(b)' <=> IsHeld(b)) /\ DeckOf(b)' = DeckOf(b)
    BY <1>1, <2>3 DEF IsHeld, DeckOf, Recorded, Latest, Settled
  <2>6. /\ {b \in Applications : IsHeld(b)}'
             = {b \in Applications : IsHeld(b)} \cup {a}
        /\ [b \in Applications |-> DeckOf(b)]' = [b \in Applications |-> DeckOf(b)]
    BY <2>4, <2>5
  <2>7. {Given(p) : p \in accepted}' = {Given(p) : p \in accepted}
    BY <1>1 DEF Given
  <2>8. entity[f] = a /\ entity[f] # None
    BY <1>2
  <2>9. Promise!Hold(f)
    BY <1>1, <2>6, <2>7, <2>8 DEF Promise!Hold, IsHeld, DeckOf, Given
  <2>10. QED
    BY <2>9 DEF Promise!Next
<1>6. QED
  BY <1>2, <1>4, <1>5 DEF MarkStored

(* Answering the client is the answer of the promise: a key has been bound *)
(* to one request since its first reservation.                             *)
LEMMA PromiseAnswer ==
  ASSUME ~Parallel, TablesInv, LoopInv, NEW s \in Submitters, AnswerClient(s)
  PROVE  [Promise!Next]_Promise!vars
<1>1. /\ submit[s] # Idle /\ submit[s].pc = "answer"
      /\ UNCHANGED <<entity, history, blob>>
      /\ accepted' = accepted \cup {submit[s].ask}
  BY DEF AnswerClient, Idle, durable
<1>2. PICK ask \in Answer :
        /\ ask = submit[s].ask /\ BoundTo(ask) /\ Recorded(ask.app)
        /\ Latest(ask.app).request = ask.request /\ entity[ask.request] = ask.app
        /\ Latest(ask.app).stored
  BY <1>1, Advance, BoundIsRecorded DEF TablesInv
<1>3. ask.key \in Keys /\ ask.request \in Requests /\ ask.app \in Applications
  BY DEF Answer
<1>4. IsHeld(ask.app)
  BY <1>2, <1>3 DEF IsHeld, LoopInv, StoredHasBytes
<1>5. /\ {b \in Applications : IsHeld(b)}' = {b \in Applications : IsHeld(b)}
      /\ [b \in Applications |-> DeckOf(b)]' = [b \in Applications |-> DeckOf(b)]
  BY <1>1 DEF IsHeld, DeckOf, Recorded, Latest, Settled
<1>6. \A q \in {Given(p) : p \in accepted} : q[1] = ask.key => q[2] = ask.request
  <2>1. ASSUME NEW p \in accepted, p.key = ask.key PROVE p.request = ask.request
    <3>1. /\ keyRow[p.key] = [request |-> p.request, app |-> p.app]
          /\ keyRow[ask.key] = [request |-> ask.request, app |-> ask.app]
      BY <1>2 DEF TablesInv, AcceptedIsDurable, BoundTo
    <3>2. QED
      BY <2>1, <3>1
  <2>2. QED
    BY <2>1 DEF Given
<1>7. {Given(p) : p \in accepted}'
        = {Given(p) : p \in accepted} \cup {<<ask.key, ask.request, entity[ask.request]>>}
  BY <1>1, <1>2 DEF Given
<1>8. Promise!Answer(ask.key, ask.request)
  BY <1>1, <1>2, <1>3, <1>4, <1>5, <1>6, <1>7
     DEF Promise!Answer, IsHeld, DeckOf, Given
<1>9. QED
  BY <1>3, <1>8 DEF Promise!Next

(* An extraction is settled by the first answer recorded; one that comes   *)
(* later, fails or is blocked changes nothing the promise sees.            *)
LEMMA PromiseFinish ==
  ASSUME ~Parallel, TablesInv, LoopInv, NEW x \in Extractors, NEW r \in Results,
         FinishExtraction(x, r)
  PROVE  [Promise!Next]_Promise!vars
<1>1. /\ extract[x] # None /\ UNCHANGED <<entity, blob, accepted>>
  BY DEF FinishExtraction
<1>2. PICK a \in Applications :
        /\ a = extract[x] /\ Recorded(a) /\ Latest(a) \in Record
        /\ Latest(a).stored
  BY <1>1, Extracting DEF TablesInv, ExtractsStoredDecks
<1>3. CASE Settled(a)
  <2>1. UNCHANGED history
    BY <1>2, <1>3 DEF FinishExtraction
  <2>2. \A b \in Applications : (IsHeld(b)' <=> IsHeld(b)) /\ DeckOf(b)' = DeckOf(b)
    BY <1>1, <2>1 DEF IsHeld, DeckOf, Recorded, Latest, Settled
  <2>3. QED
    BY <1>1, <2>2, PromiseStutter
<1>4. CASE ~Settled(a)
  <2>1. AppendRevision(a, [Latest(a) EXCEPT !.extraction = r,
                                            !.attempts = Append(@, "succeeded")])
    BY <1>2, <1>4 DEF FinishExtraction
  <2>2. PICK rec \in Record :
          /\ AppendRevision(a, rec) /\ rec.stored = Latest(a).stored
          /\ rec.request = Latest(a).request /\ rec.extraction = r
    BY <1>2, <2>1, AttemptRecord DEF Outcomes
  <2>3. /\ Latest(a)' = rec /\ Recorded(a)'
        /\ \A b \in Applications \ {a} : history'[b] = history[b]
    BY <2>2, AppendIsLatest DEF TablesInv
  <2>4. IsHeld(a) /\ DeckOf(a) = None
    BY <1>2, <1>4 DEF IsHeld, DeckOf, LoopInv, StoredHasBytes
  <2>5. IsHeld(a)' /\ DeckOf(a)' = r
    BY <1>1, <2>2, <2>3, <2>4 DEF IsHeld, DeckOf, Settled
  <2>6. \A b \in Applications \ {a} :
          (IsHeld(b)' <=> IsHeld(b)) /\ DeckOf(b)' = DeckOf(b)
    BY <1>1, <2>3 DEF IsHeld, DeckOf, Recorded, Latest, Settled
  <2>7. /\ {b \in Applications : IsHeld(b)}' = {b \in Applications : IsHeld(b)}
        /\ [b \in Applications |-> DeckOf(b)]'
             = [[b \in Applications |-> DeckOf(b)] EXCEPT ![a] = r]
        /\ [b \in Applications |-> DeckOf(b)][a] = None
    BY <2>4, <2>5, <2>6
  <2>8. {Given(p) : p \in accepted}' = {Given(p) : p \in accepted}
    BY <1>1 DEF Given
  <2>9. Promise!Settle(a, r)
    BY <1>1, <2>4, <2>7, <2>8 DEF Promise!Settle, IsHeld, DeckOf, Given
  <2>10. QED
    BY <2>9 DEF Promise!Next
<1>5. QED
  BY <1>3, <1>4

LEMMA PromiseFail ==
  ASSUME TablesInv, NEW x \in Extractors, NEW status \in {"failed", "blocked"},
         FailExtraction(x, status)
  PROVE  UNCHANGED Promise!vars
<1>1. /\ extract[x] # None /\ UNCHANGED <<entity, blob, accepted>>
  BY DEF FailExtraction
<1>2. PICK a \in Applications :
        a = extract[x] /\ Recorded(a) /\ Latest(a) \in Record
  BY <1>1, Extracting
<1>3. CASE Settled(a)
  <2>1. UNCHANGED history
    BY <1>2, <1>3 DEF FailExtraction
  <2>2. \A b \in Applications : (IsHeld(b)' <=> IsHeld(b)) /\ DeckOf(b)' = DeckOf(b)
    BY <1>1, <2>1 DEF IsHeld, DeckOf, Recorded, Latest, Settled
  <2>3. QED
    BY <1>1, <2>2, PromiseStutter
<1>4. CASE ~Settled(a)
  <2>1. AppendRevision(a, [Latest(a) EXCEPT !.extraction = Unknown,
                                            !.attempts = Append(@, status)])
    BY <1>2, <1>4 DEF FailExtraction
  <2>2. PICK rec \in Record :
          /\ AppendRevision(a, rec) /\ rec.stored = Latest(a).stored
          /\ rec.request = Latest(a).request /\ rec.extraction = Unknown
    BY <1>2, <2>1, AttemptRecord DEF Outcomes
  <2>3. /\ Latest(a)' = rec /\ Recorded(a)'
        /\ \A b \in Applications \ {a} : history'[b] = history[b]
    BY <2>2, AppendIsLatest DEF TablesInv
  <2>4. (IsHeld(a)' <=> IsHeld(a)) /\ DeckOf(a)' = DeckOf(a)
    BY <1>1, <1>2, <1>4, <2>2, <2>3 DEF IsHeld, DeckOf, Settled
  <2>5. \A b \in Applications \ {a} :
          (IsHeld(b)' <=> IsHeld(b)) /\ DeckOf(b)' = DeckOf(b)
    BY <1>1, <2>3 DEF IsHeld, DeckOf, Recorded, Latest, Settled
  <2>6. QED
    BY <1>1, <2>4, <2>5, PromiseStutter
<1>5. QED
  BY <1>3, <1>4

LEMMA PromiseNext ==
  ASSUME ~Parallel, TablesInv, LoopInv, [Next]_vars
  PROVE  [Promise!Next]_Promise!vars
<1>1. ASSUME NEW s \in Submitters, NEW k \in Keys, NEW f \in Requests,
             Reserve(s, k, f)
      PROVE  [Promise!Next]_Promise!vars
  BY <1>1, PromiseReserve
<1>2. ASSUME NEW s \in Submitters,
             \/ LinkBlob(s) \/ ConfirmBlob(s) \/ SubmitError(s)
             \/ MarkStored(s) \/ AnswerClient(s)
      PROVE  [Promise!Next]_Promise!vars
  BY <1>2, PromisePut, PromiseMark, PromiseAnswer
<1>3. ASSUME NEW x \in Extractors, NEW r \in Results, FinishExtraction(x, r)
      PROVE  [Promise!Next]_Promise!vars
  BY <1>3, PromiseFinish
<1>4. ASSUME NEW x \in Extractors, NEW status \in {"failed", "blocked"},
             FailExtraction(x, status)
      PROVE  [Promise!Next]_Promise!vars
  BY <1>4, PromiseFail
<1>5. CASE UNCHANGED <<entity, history, blob, accepted>>
  <2>1. \A b \in Applications : (IsHeld(b)' <=> IsHeld(b)) /\ DeckOf(b)' = DeckOf(b)
    BY <1>5 DEF IsHeld, DeckOf, Recorded, Latest, Settled
  <2>2. QED
    BY <1>5, <2>1, PromiseStutter
<1>6. QED
  BY <1>1, <1>2, <1>3, <1>4, <1>5
     DEF Next, vars, ReturnAccepted, StartExtraction, ExtractionError, Crash, durable

(* Intake on one event loop, with its crashes, failed writes and replays,  *)
(* is IdempotentIntake: one application per request for ever, answered     *)
(* only once its deck is held, a deck held for ever and settled once.      *)
THEOREM KeepsPromise ==
  ASSUME ~Parallel
  PROVE  Spec => ImplementsPromise
<1>1. Init => LoopInv
  BY DEF Init, LoopInv, StoredHasBytes, Recorded, Idle
<1>2. TablesInv /\ LoopInv /\ [Next]_vars => [Promise!Next]_Promise!vars
  BY PromiseNext
<1>3. QED
  BY <1>1, <1>2, LoopNext, Tables, PromiseInit, PTL
     DEF Spec, ImplementsPromise, Promise!Spec
=============================================================================

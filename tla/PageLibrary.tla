------------------------------ MODULE PageLibrary ------------------------------
(* One public deck that pages link to, as Memory, the artifact store and the  *)
(* service's registry keep it, acquired by calls of several sourcing runs:    *)
(* the acquisition half of application/sourcing.py over the append-only       *)
(* infrastructure/persistence.py.  A call looks into the cache, awaits its    *)
(* adapter, keeps what came without awaiting again, and awaits OCR only for   *)
(* what nobody kept before.  The process may end at any await.                *)
EXTENDS Integers, Sequences, FiniteSets, Functions

CONSTANTS Calls,        \* slots for calls, used again and again
          Contents,     \* what the page may show
          Pdfs,         \* those that begin like a PDF
          CacheTtl,
          MaxClock, MaxRequests   \* bounds on a behaviour

ASSUME LibraryAssumption == Contents # {} /\ CacheTtl \in Nat

VARIABLES
  clock, web,
  blobs,      \* artifact store: bytes by artifact
  versions,   \* Memory: the rows of the page's series
  policies,   \* Memory: artifacts with their public-source policy
  ocr,        \* Memory: outcomes of OCR
  registry,   \* the process's artifacts open to investors
  call,
  requests, shown, kept, sent   \* history

durable == <<blobs, versions, policies, ocr>>
libraryVars == <<clock, web, durable, registry, call, requests, shown, kept, sent>>

NoArtifact == 0
Idle == [at |-> "idle"]

(* What the page shows before the first request makes no difference.          *)
LibraryInit ==
  /\ clock = 0 /\ web = (CHOOSE w \in Contents : TRUE) /\ shown = {<<0, web>>}
  /\ blobs = <<>> /\ versions = {} /\ policies = {} /\ ocr = {}
  /\ registry = {} /\ call = [c \in Calls |-> Idle]
  /\ requests = 0 /\ kept = {} /\ sent = <<>>

Newest(rows) == CHOOSE v \in rows : \A w \in rows : w.number <= v.number

CachedArtifactForeverBug == IF versions = {} THEN {} ELSE {Newest(versions).artifact}

(* The newest version counts by the time it was first retrieved.              *)
CachedArtifact ==
  IF CacheTtl > 0 /\ versions # {} /\ clock - Newest(versions).retrieved <= CacheTtl
  THEN {Newest(versions).artifact} ELSE {}

Request(c) ==
  /\ call[c] = Idle /\ requests < MaxRequests
  /\ requests' = requests + 1
  /\ call' = [call EXCEPT ![c] =
       IF CachedArtifact = {} THEN [at |-> "waiting", requested |-> clock]
       ELSE [at |-> "cached", requested |-> clock,
             artifact |-> CHOOSE a \in CachedArtifact : TRUE]]
  /\ UNCHANGED <<clock, web, durable, registry, shown, kept, sent>>

Acquired(c) ==
  /\ call[c].at = "waiting"
  /\ call' = [call EXCEPT ![c] = [at |-> "answered", requested |-> @.requested,
                                  content |-> web, completed |-> clock]]
  /\ UNCHANGED <<clock, web, durable, registry, requests, shown, kept, sent>>

(* The adapter fails or raises, its answer is refused, or the run breaks off. *)
NotAcquired(c) ==
  /\ call[c].at \in {"waiting", "cached", "answered"}
  /\ call' = [call EXCEPT ![c] = Idle]
  /\ UNCHANGED <<clock, web, durable, registry, requests, shown, kept, sent>>

-----------------------------------------------------------------------------
(* How far a sequence of writes gets before a storage error, if there is one. *)
Reaches == {"nothing", "bytes", "version", "policy"}
Reached(step, reach) ==
  LET Order == [nothing |-> 0, bytes |-> 1, version |-> 2, policy |-> 3] IN
  Order[step] <= Order[reach]

HistoryAtRequestBug(c) == {v \in versions : v.retrieved <= call[c].requested}

(* The history is read after the await, not with the cache.                   *)
History(c) == versions

ExistingNewestBug(c) ==
  {v \in History(c) : v = Newest(History(c)) /\ v.content = call[c].content}

Existing(c) == {v \in History(c) : v.content = call[c].content}

NewVersion(c) ==
  LET rows == History(c) IN
  [artifact |-> Len(blobs) + 1, content |-> call[c].content, retrieved |-> call[c].completed,
   number |-> IF rows = {} THEN 1 ELSE Newest(rows).number + 1,
   previous |-> IF rows = {} THEN NoArtifact ELSE Newest(rows).artifact]

KeepNewVersionFirstBug(v, reach) ==
  /\ versions' = IF Reached("bytes", reach) THEN versions \cup {v} ELSE versions
  /\ blobs' = IF Reached("version", reach) THEN Append(blobs, v.content) ELSE blobs

(* The bytes come before the row that names them.                             *)
KeepNew(v, reach) ==
  /\ blobs' = IF Reached("bytes", reach) THEN Append(blobs, v.content) ELSE blobs
  /\ versions' = IF Reached("version", reach) THEN versions \cup {v} ELSE versions

(* The same row is absorbed, within a transaction.                            *)
AppendIdempotent(rows, row) == rows \cup {row}

Register(artifact, reach) ==
  /\ registry' = IF Reached("version", reach) THEN registry \cup {artifact} ELSE registry
  /\ policies' = IF Reached("policy", reach) THEN AppendIdempotent(policies, artifact)
                 ELSE policies

Kept(c, artifact, content) ==
  kept' = kept \cup {[artifact |-> artifact, content |-> content,
                      requested |-> call[c].requested, from |-> call[c].at]}

AcceptCached(c) ==
  /\ call[c].at = "cached"
  /\ \E reach \in {"version", "policy"} :
       /\ Register(call[c].artifact, reach)
       /\ IF reach = "policy" THEN Kept(c, call[c].artifact, blobs[call[c].artifact])
          ELSE UNCHANGED kept
  /\ call' = [call EXCEPT ![c] = Idle]
  /\ UNCHANGED <<clock, web, blobs, versions, ocr, requests, shown, sent>>

(* The page is reported as not modified: it is the newest version now, which  *)
(* nobody's request named.  Without a version the call ends as not acquired.  *)
AcceptNotModified(c) ==
  /\ call[c].at = "waiting" /\ versions # {}
  /\ LET a == Newest(versions).artifact IN
     \E reach \in {"version", "policy"} :
       /\ Register(a, reach)
       /\ IF reach = "policy" THEN Kept(c, a, blobs[a]) ELSE UNCHANGED kept
  /\ call' = [call EXCEPT ![c] = Idle]
  /\ UNCHANGED <<clock, web, blobs, versions, ocr, requests, shown, sent>>

AcceptExisting(c) ==
  /\ call[c].at = "answered"
  /\ \E v \in Existing(c), reach \in Reaches :
       /\ Register(v.artifact, reach)
       /\ IF reach = "policy" THEN Kept(c, v.artifact, call[c].content) ELSE UNCHANGED kept
  /\ call' = [call EXCEPT ![c] = Idle]
  /\ UNCHANGED <<clock, web, blobs, versions, ocr, requests, shown, sent>>

(* A new artifact goes on to OCR, if it is a PDF.                             *)
AcceptNew(c) ==
  /\ call[c].at = "answered" /\ Existing(c) = {}
  /\ \E reach \in Reaches :
       LET v == NewVersion(c) IN
       /\ KeepNew(v, reach) /\ Register(v.artifact, reach)
       /\ IF reach = "policy"
          THEN /\ Kept(c, v.artifact, v.content)
               /\ call' = [call EXCEPT ![c] = [at |-> "reading", artifact |-> v.artifact]]
               /\ sent' = IF v.content \in Pdfs THEN Append(sent, v.artifact) ELSE sent
          ELSE call' = [call EXCEPT ![c] = Idle] /\ UNCHANGED <<kept, sent>>
  /\ UNCHANGED <<clock, web, ocr, requests, shown>>

(* Whatever OCR answers is recorded; a storage error there ends the run.      *)
FinishReading(c) ==
  /\ call[c].at = "reading"
  /\ LET a == call[c].artifact IN
     \E state \in {"known", "unknown"} :
       /\ blobs[a] \notin Pdfs => state = "unknown"
       /\ ocr' \in {ocr, AppendIdempotent(ocr, <<a, state>>)}
  /\ call' = [call EXCEPT ![c] = Idle]
  /\ UNCHANGED <<clock, web, blobs, versions, policies, registry, requests, shown, kept, sent>>

-----------------------------------------------------------------------------
WebChanges ==
  /\ requests > 0
  /\ web' \in Contents \ {web}
  /\ shown' = shown \cup {<<clock, web'>>}
  /\ UNCHANGED <<clock, durable, registry, call, requests, kept, sent>>

TimePasses ==
  /\ requests > 0 /\ clock < MaxClock
  /\ clock' = clock + 1
  /\ shown' = shown \cup {<<clock', web>>}
  /\ UNCHANGED <<web, durable, registry, call, requests, kept, sent>>

ProcessEnds ==
  /\ requests > 0
  /\ registry' = {} /\ call' = [c \in Calls |-> Idle]
  /\ UNCHANGED <<clock, web, durable, requests, shown, kept, sent>>

LibraryNext ==
  \/ WebChanges \/ TimePasses \/ ProcessEnds
  \/ \E c \in Calls : \/ Request(c) \/ Acquired(c) \/ NotAcquired(c)
                      \/ AcceptCached(c) \/ AcceptNotModified(c)
                      \/ AcceptExisting(c) \/ AcceptNew(c) \/ FinishReading(c)

LibrarySpec == LibraryInit /\ [][LibraryNext]_libraryVars

-----------------------------------------------------------------------------
(* However runs, storage errors and restarts interleave, the same bytes are   *)
(* one version of the page, the versions form one chain, and Memory names no  *)
(* artifact whose bytes are not there.  Every call is given the version it    *)
(* acquired, or from the cache one that the page did show within the time to  *)
(* live; what it was given stays described in Memory; and no version is sent  *)
(* to OCR twice, nor anything but a PDF.  This is _persist_source_artifact(), *)
(* _cached_artifact() and _extract_public_deck() of application/sourcing.py.  *)
PagesAreKeptOnce ==
  LET ids == {v.artifact : v \in versions} IN
  /\ \A v, w \in versions :
       v # w => v.content # w.content /\ v.number # w.number /\ v.artifact # w.artifact
  /\ \A v \in versions :
       /\ v.artifact \in DOMAIN blobs /\ blobs[v.artifact] = v.content
       /\ IF v.number = 1 THEN v.previous = NoArtifact
          ELSE \E w \in versions : w.number = v.number - 1 /\ w.artifact = v.previous
  /\ \A k \in kept :
       /\ k.artifact \in ids \cap policies /\ blobs[k.artifact] = k.content
       /\ k.from = "cached" => \E t \in (k.requested - CacheTtl)..k.requested : <<t, k.content>> \in shown
  /\ registry \subseteq ids
  /\ IsInjective(sent) /\ \A i \in DOMAIN sent : blobs[sent[i]] \in Pdfs
  /\ \A o, p \in ocr : o[1] = p[1] => o = p
=============================================================================

----------------------------- MODULE KeylessSource -----------------------------
(* The four keyless sources, which are one shape: ingestion/sources/          *)
(* hackernews.py, openalex.py, semanticscholar.py and patentsview.py.  They   *)
(* differ in what they do with a payload that is not a list of hits.          *)
EXTENDS Integers, Sequences, SequencesExt, FiniteSets, FiniteSetsExt

Kinds == {"hackernews", "openalex", "semanticscholar", "patentsview"}
ChecksPayload(kind) == kind = "patentsview"

Unanswered(reply) ==
  CASE ~reply.reached -> <<"transport_error", TRUE>>
    [] reply.reached /\ reply.status = 200 -> <<>>
    [] reply.reached /\ reply.status \in {403, 429} -> <<"rate_limited", TRUE>>
    [] OTHER -> <<"upstream_status", reply.status >= 500>>

-----------------------------------------------------------------------------
TakeHitCountedBug(leads, hit, retrieval) ==
  Append(leads, [subject |-> hit.subject, retrieval |-> retrieval.id, rank |-> Len(leads) + 1])

(* A hit that names no subject is passed over, but counts to what is read.    *)
TakeHit(leads, hit, retrieval) ==
  IF ~hit.named THEN leads
  ELSE Append(leads, [subject |-> hit.subject, retrieval |-> retrieval.id, rank |-> Len(leads) + 1])

DiscoverOne(kind, state, retrieval, reply) ==
  LET asked == [state EXCEPT !.requests = @ + 1]
      refused == Unanswered(reply)
      Fail(code, retryable) ==
        [asked EXCEPT !.failures = Append(@, [operation |-> retrieval.id, code |-> code, retryable |-> retryable])]
      read == SubSeq(reply.hits, 1, Min({retrieval.max_results, Len(reply.hits)}))
  IN IF ~retrieval.ours THEN state
     ELSE IF refused # <<>> THEN Fail(refused[1], refused[2])
     ELSE IF reply.junk /\ ChecksPayload(kind) THEN Fail("invalid_provider_payload", TRUE)
     ELSE IF reply.junk THEN asked
     ELSE [asked EXCEPT !.leads = FoldLeft(LAMBDA l, h : TakeHit(l, h, retrieval), @, read)]

ResultStatus(leads, failures) ==
  CASE leads # <<>> /\ failures # <<>> -> "partially_succeeded"
    [] leads = <<>> /\ failures # <<>> -> "failed"
    [] OTHER -> "succeeded"

Discover(kind, retrievals, replies) ==
  LET done == FoldLeft(LAMBDA s, i : DiscoverOne(kind, s, retrievals[i], replies[i]),
                       [leads |-> <<>>, failures |-> <<>>, requests |-> 0],
                       [i \in DOMAIN retrievals |-> i])
  IN [status |-> ResultStatus(done.leads, done.failures), leads |-> done.leads,
      failures |-> done.failures, requests |-> done.requests]

-----------------------------------------------------------------------------
NotAcquired(status, code, retryable) == [status |-> status, code |-> code, retryable |-> retryable]

AcquisitionFailureFinalBug(reply) ==
  IF ~reply.reached THEN NotAcquired("failed", "transport_error", TRUE)
  ELSE NotAcquired("failed", "upstream_status", reply.status >= 500)

AcquisitionFailure(reply) ==
  CASE ~reply.reached -> NotAcquired("failed", "transport_error", TRUE)
    [] reply.reached /\ reply.status \in {403, 429} -> NotAcquired("blocked", "rate_limited", TRUE)
    [] reply.reached /\ reply.status = 404 -> NotAcquired("failed", "not_found", FALSE)
    [] OTHER -> NotAcquired("failed", "upstream_status", reply.status >= 500)

Acquire(kind, names_subject, reply) ==
  IF ~names_subject THEN NotAcquired("failed", "unsupported_url", FALSE)
  ELSE IF ~reply.reached \/ reply.status # 200 THEN AcquisitionFailure(reply)
  ELSE IF ChecksPayload(kind) /\ (reply.junk \/ reply.hits = <<>>) THEN
    NotAcquired("failed", "invalid_provider_payload", TRUE)
  ELSE [status |-> "acquired", content |-> reply.hits]
=============================================================================

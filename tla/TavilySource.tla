----------------------------- MODULE TavilySource -----------------------------
(* The web-search source: ingestion/tavily.py.  A domain is its labels, the   *)
(* most specific first, so a policy entry covers every domain that ends in it. *)
EXTENDS Integers, Sequences, SequencesExt, FiniteSets, FiniteSetsExt

Local == <<"local">>

(* The address of a result that is no object, or whose url is no string.      *)
NoUrl == [host |-> <<>>, slash |-> FALSE, fragment |-> FALSE, safe |-> FALSE]

(* "safe": http(s), no credentials, a standard port, a public address.        *)
IsPublicSource(url) == url.safe /\ url.host # Local
Normalized(url) == [url EXCEPT !.fragment = FALSE]
UrlsEquivalent(a, b) ==
  /\ IsPublicSource(a) /\ IsPublicSource(b)
  /\ Normalized([a EXCEPT !.slash = FALSE]) = Normalized([b EXCEPT !.slash = FALSE])

DomainMatches(host, domain) == IsSuffix(domain, host)
Covered(host, domains) == \E d \in domains : DomainMatches(host, d)
DomainIsAllowed(host, lists) ==
  ~Covered(host, lists.excluded) /\ (lists.allowed = {} \/ Covered(host, lists.allowed))

(* The narrower of two domains, if one lies in the other.                     *)
CompatibleDomainBroaderBug(left, right) ==
  IF DomainMatches(left, right) THEN {right} ELSE IF DomainMatches(right, left) THEN {left} ELSE {}

CompatibleDomain(left, right) ==
  IF DomainMatches(left, right) THEN {left} ELSE IF DomainMatches(right, left) THEN {right} ELSE {}

(* A request narrows the policy; no list at all is no way to narrow it.       *)
EffectiveDomains(policy, request) ==
  LET met == UNION {CompatibleDomain(l, r) : l \in policy.allowed, r \in request.allowed}
      both == policy.allowed # {} /\ request.allowed # {}
      refused == Local \in request.allowed \cup request.excluded \/ (both /\ met = {})
  IN IF refused THEN {}
     ELSE {[allowed |-> IF both THEN met ELSE policy.allowed \cup request.allowed,
            excluded |-> policy.excluded \cup request.excluded]}

-----------------------------------------------------------------------------
PostJson(reply) ==
  CASE ~reply.reached -> 599
    [] reply.reached /\ reply.declared = "junk" -> 502
    [] OTHER -> IF reply.large THEN 413 ELSE reply.status

StatusFailure(status) ==
  CASE status = 200 -> <<>>
    [] status \in {401, 403} -> <<"blocked", "provider_access_denied", FALSE>>
    [] status = 429 -> <<"blocked", "provider_rate_limited", TRUE>>
    [] status = 413 -> <<"blocked", "provider_response_too_large", FALSE>>
    [] OTHER -> <<"failed", "provider_unavailable", status >= 500>>

Failure(operation, code, retryable) ==
  [operation |-> operation, code |-> code, retryable |-> retryable]

TakeUrl(state, index, url, retrieval, lists) ==
  LET Refused(code) == [state EXCEPT !.failures = Append(@, Failure(<<retrieval.id, index>>, code, FALSE))]
      lead == [url |-> Normalized(url), retrieval |-> retrieval.id, rank |-> Len(state.leads) + 1]
      seen == \E i \in DOMAIN state.leads : state.leads[i].url = lead.url
  IN IF ~IsPublicSource(url) THEN Refused("unsafe_original_url")
     ELSE IF ~DomainIsAllowed(url.host, lists) THEN Refused("domain_policy_rejected")
     ELSE IF seen THEN state
     ELSE [state EXCEPT !.leads = Append(@, lead)]

TakeResultNoneSkippedBug(state, index, url, retrieval, lists) ==
  TakeUrl(state, index, url, retrieval, lists)

(* A result without a url is passed over: neither a lead nor a failure.       *)
TakeResult(state, index, url, retrieval, lists) ==
  IF url = NoUrl THEN state ELSE TakeUrl(state, index, url, retrieval, lists)

SearchWeb(state, retrieval, lists, reply, policy) ==
  LET limit == Min({retrieval.max_results, policy.max_results})
      refused == StatusFailure(PostJson(reply))
      asked == [state EXCEPT !.requests = @ + 1]
      Fail(code, retryable) ==
        [asked EXCEPT !.failures = Append(@, Failure(<<retrieval.id>>, code, retryable))]
  IN IF refused # <<>> THEN Fail(refused[2], refused[3])
     ELSE IF reply.results = "junk" THEN Fail("invalid_provider_payload", TRUE)
     ELSE FoldLeft(LAMBDA s, i : TakeResult(s, i, reply.items[i].url, retrieval, lists), asked,
                   [i \in 1..Min({limit, Len(reply.items)}) |-> i])

DiscoverOne(state, index, retrieval, reply, policy) ==
  LET lists == EffectiveDomains(policy, retrieval)
      Refused(code) == [state EXCEPT !.failures = Append(@, Failure(<<retrieval.id>>, code, FALSE))]
  IN IF index > policy.max_queries THEN Refused("query_budget_exceeded")
     ELSE IF retrieval.long THEN Refused("query_too_long")
     ELSE IF lists = {} THEN Refused("domain_policy_rejected")
     ELSE SearchWeb(state, retrieval, CHOOSE l \in lists : TRUE, reply, policy)

ResultStatus(leads, failures) ==
  CASE leads # <<>> /\ failures # <<>> -> "partially_succeeded"
    [] leads = <<>> /\ failures # <<>> -> "failed"
    [] OTHER -> "succeeded"

Discover(retrievals, replies, policy) ==
  LET done == FoldLeft(LAMBDA s, i : DiscoverOne(s, i, retrievals[i], replies[i], policy),
                       [leads |-> <<>>, failures |-> <<>>, requests |-> 0],
                       [i \in DOMAIN retrievals |-> i])
  IN [status |-> ResultStatus(done.leads, done.failures)] @@ done

-----------------------------------------------------------------------------
NotAcquired(status, code, retryable) == [status |-> status, code |-> code, retryable |-> retryable]

Selected(items, url) ==
  {i \in DOMAIN items : items[i].url # NoUrl /\ UrlsEquivalent(items[i].url, url)}

ExtractedFirstBug(request, reply, policy) ==
  CASE reply.results = "junk" -> NotAcquired("failed", "invalid_provider_payload", TRUE)
    [] reply.results # "junk" /\ reply.items = <<>> -> NotAcquired("failed", "source_not_extracted", TRUE)
    [] OTHER -> [status |-> "acquired", url |-> Normalized(request.url), content |-> reply.items[1].content]

Extracted(request, reply, policy) ==
  LET found == Selected(reply.items, request.url)
      size == reply.items[Min(found)].content
  IN IF reply.results = "junk" THEN NotAcquired("failed", "invalid_provider_payload", TRUE)
     ELSE IF found = {} THEN NotAcquired("failed", "source_not_extracted", TRUE)
     ELSE IF size = 0 THEN NotAcquired("failed", "empty_source_content", TRUE)
     ELSE IF size > Min({request.max_bytes, policy.max_content}) THEN
       NotAcquired("blocked", "content_budget_exceeded", FALSE)
     ELSE [status |-> "acquired", url |-> Normalized(request.url), content |-> size]

Acquire(request, reply, policy) ==
  LET refused == StatusFailure(PostJson(reply)) IN
  IF ~request.public THEN NotAcquired("blocked", "classification_blocked", FALSE)
  ELSE IF ~IsPublicSource(request.url) THEN NotAcquired("blocked", "unsafe_original_url", FALSE)
  ELSE IF ~DomainIsAllowed(request.url.host, policy) THEN
    NotAcquired("blocked", "domain_policy_rejected", FALSE)
  ELSE IF ~request.text THEN NotAcquired("blocked", "media_type_blocked", FALSE)
  ELSE IF refused # <<>> THEN NotAcquired(refused[1], refused[2], refused[3])
  ELSE Extracted(request, reply, policy)
=============================================================================

----------------------------- MODULE GitHubSource -----------------------------
(* The public GitHub source: ingestion/sources/github.py.  Discovery searches *)
(* users and repositories; acquisition reads a profile or a repository and    *)
(* what surrounds it, and is worth nothing without the record itself.         *)
EXTENDS Integers, Sequences, SequencesExt, FiniteSets, FiniteSetsExt

Nowhere == [kind |-> "none", owner |-> "", repository |-> ""]
Lower(name) == IF name = "Ada" THEN "ada" ELSE name
ReservedRoots == {"users", "search"}

(* "dressed": a query, a fragment, credentials, an escape, another port.      *)
ParsePublicTarget(url) ==
  LET path == url.path
      named == CASE url.host = "html" /\ Len(path) = 1 -> <<path[1], "">>
                 [] url.host = "html" /\ Len(path) = 2 -> path
                 [] url.host = "api" /\ Len(path) = 2 /\ path[1] = "users" -> <<path[2], "">>
                 [] url.host = "api" /\ Len(path) = 3 /\ path[1] = "repos" -> <<path[2], path[3]>>
                 [] OTHER -> <<"", "">>
      refused == \/ url.dressed \/ named[1] = "" \/ Lower(named[1]) \in ReservedRoots
                 \/ named[2] = "deck.git"
  IN IF refused THEN Nowhere
     ELSE [kind |-> IF named[2] = "" THEN "user" ELSE "repository",
           owner |-> named[1], repository |-> named[2]]

SameTarget(a, b) ==
  a.kind = b.kind /\ Lower(a.owner) = Lower(b.owner) /\ Lower(a.repository) = Lower(b.repository)

UrlMatchesTarget(url, target) == SameTarget(ParsePublicTarget(url), target)

Hosts == {"github.com", "api.github.com"}
DomainPolicyAllowsGitHub(allowed, excluded) ==
  /\ "://" \notin allowed \cup excluded
  /\ excluded \cap Hosts = {}
  /\ allowed = {} \/ "github.com" \in allowed

Failure(operation, code, retryable) ==
  [operation |-> operation, code |-> code, retryable |-> retryable]

-----------------------------------------------------------------------------
(* One request.  A reply is an object, a list of records, or junk.            *)
Unreached(reply, limit) ==
  CASE ~reply.reached -> <<"transport_error", TRUE>>
    [] reply.reached /\ reply.size > limit -> <<"response_too_large", FALSE>>
    [] OTHER -> <<>>

DiscoveryFailureForStatus(status) ==
  CASE status = 200 -> <<>>
    [] status \in {403, 429} -> <<"rate_limited", TRUE>>
    [] OTHER -> <<"upstream_status", status >= 500>>

AcquisitionFailureForStatus(status) ==
  CASE status = 200 -> <<>>
    [] status \in {403, 429} -> <<"blocked", "rate_limited", TRUE>>
    [] status = 401 -> <<"blocked", "authentication_rejected", FALSE>>
    [] status = 404 -> <<"failed", "not_found", FALSE>>
    [] status = 410 -> <<"failed", "api_version_unavailable", FALSE>>
    [] status = 451 -> <<"blocked", "legal_restriction", FALSE>>
    [] OTHER -> <<"failed", "upstream_status", status >= 500>>

-----------------------------------------------------------------------------
(* Discovery.                                                                 *)
UserLead(item) ==
  LET target == ParsePublicTarget(item.url) IN
  item.user /\ target.kind = "user" /\ Lower(target.owner) = Lower(item.login)

RepositoryLeadUnstatedBug(item) ==
  LET target == ParsePublicTarget(item.url) IN
  /\ item.visibility # "private" /\ target.kind = "repository"
  /\ <<Lower(target.owner), Lower(target.repository)>> = item.name

RepositoryLead(item) ==
  LET target == ParsePublicTarget(item.url) IN
  /\ item.visibility = "public" /\ target.kind = "repository"
  /\ <<Lower(target.owner), Lower(target.repository)>> = item.name

TakeItem(leads, item, search, retrieval, limit) ==
  LET mapped == IF search = "users" THEN UserLead(item) ELSE RepositoryLead(item)
      seen == \E i \in DOMAIN leads : leads[i].url = item.url
  IN IF Len(leads) >= limit \/ ~mapped \/ seen THEN leads
     ELSE Append(leads, [url |-> item.url, retrieval |-> retrieval, rank |-> Len(leads) + 1])

SearchOnce(state, retrieval, search, reply, policy) ==
  LET limit == Min({retrieval.max_results, policy.max_results})
      operation == <<retrieval.id, search>>
      asked == [state EXCEPT !.requests = @ + 1]
      unreached == Unreached(reply, policy.max_response)
      refused == DiscoveryFailureForStatus(reply.status)
      Fail(s, code, retryable) ==
        [s EXCEPT !.failures = Append(@, Failure(operation, code, retryable))]
  IN IF Len(state.leads) >= limit THEN state
     ELSE IF state.requests >= policy.max_discovery THEN Fail(state, "request_budget_exceeded", FALSE)
     ELSE IF unreached # <<>> THEN Fail(asked, unreached[1], unreached[2])
     ELSE IF refused # <<>> THEN Fail(asked, refused[1], refused[2])
     ELSE IF reply.shape # "list" THEN Fail(asked, "invalid_provider_payload", TRUE)
     ELSE [asked EXCEPT !.leads = FoldLeft(LAMBDA leads, item :
             TakeItem(leads, item, search, retrieval.id, limit), @, reply.items)]

QueryRefusal(state, retrieval, policy) ==
  CASE state.queries >= policy.max_queries -> "query_budget_exceeded"
    [] state.queries < policy.max_queries /\ retrieval.long -> "query_too_long"
    [] state.queries < policy.max_queries /\ ~retrieval.long /\ retrieval.windowed -> "unsupported_time_window"
    [] OTHER -> IF DomainPolicyAllowsGitHub(retrieval.allowed, retrieval.excluded) THEN ""
                ELSE "domain_policy_rejected"

DiscoverOne(state, retrieval, answers, policy) ==
  LET refusal == QueryRefusal(state, retrieval, policy)
      counted == IF refusal = "query_budget_exceeded" THEN state ELSE [state EXCEPT !.queries = @ + 1]
      Search(s, kind) == SearchOnce(s, retrieval, kind, answers[kind], policy)
  IN IF ~retrieval.ours THEN state
     ELSE IF refusal # "" THEN
       [counted EXCEPT !.failures = Append(@, Failure(<<retrieval.id>>, refusal, FALSE))]
     ELSE Search(Search(counted, "users"), "repositories")

ResultStatus(leads, failures) ==
  CASE leads # <<>> /\ failures # <<>> -> "partially_succeeded"
    [] leads = <<>> /\ failures # <<>> -> "failed"
    [] OTHER -> "succeeded"

Discover(retrievals, answers, policy) ==
  LET begun == [leads |-> <<>>, failures |-> <<>>, requests |-> 0, queries |-> 0]
      done == FoldLeft(LAMBDA state, i : DiscoverOne(state, retrievals[i], answers[i], policy),
                       begun, [i \in DOMAIN retrievals |-> i])
  IN [status |-> ResultStatus(done.leads, done.failures), leads |-> done.leads,
      failures |-> done.failures, requests |-> done.requests]

-----------------------------------------------------------------------------
(* Acquisition.                                                               *)
ActivityEndpoints(target, policy) ==
  IF target.kind = "user"
  THEN << [kind |-> "profile", limit |-> 1],
          [kind |-> "repositories", limit |-> policy.max_repositories],
          [kind |-> "public_events", limit |-> policy.max_events] >>
  ELSE << [kind |-> "repository", limit |-> 1], [kind |-> "public_events", limit |-> policy.max_events] >>

EventMatchesTarget(item, target) ==
  IF target.kind = "user" THEN Lower(item.login) = Lower(target.owner)
  ELSE item.name = <<Lower(target.owner), Lower(target.repository)>>

(* The records of a list worth keeping.                                       *)
IsKeptForeignBug(item, kind, target) ==
  IF kind = "repositories"
  THEN item.visibility = "public" /\ ParsePublicTarget(item.url).kind = "repository"
  ELSE item.visibility = "public" /\ item.whole

IsKept(item, kind, target) ==
  IF kind = "repositories"
  THEN /\ item.visibility = "public" /\ Lower(item.login) = Lower(target.owner)
       /\ ParsePublicTarget(item.url).kind = "repository"
  ELSE item.visibility = "public" /\ EventMatchesTarget(item, target) /\ item.whole

IsPrimary(item, kind, target) ==
  /\ UrlMatchesTarget(item.url, target)
  /\ IF kind = "profile" THEN item.user /\ Lower(item.login) = Lower(target.owner)
     ELSE item.visibility = "public"

(* The lists of records a reply can be read as: one, or none.                 *)
NormalizeActivityPayload(target, spec, reply) ==
  LET kept == SelectSeq(reply.items, LAMBDA item : IsKept(item, spec.kind, target)) IN
  IF spec.kind \in {"profile", "repository"}
  THEN IF reply.shape = "object" /\ IsPrimary(reply.items[1], spec.kind, target)
       THEN {SubSeq(reply.items, 1, 1)} ELSE {}
  ELSE IF reply.shape = "list" THEN {SubSeq(kept, 1, Min({spec.limit, Len(kept)}))} ELSE {}

(* What one endpoint came to.                                                 *)
Missed(spec, status, code, retryable) ==
  [kind |-> spec.kind, status |-> status, code |-> code, retryable |-> retryable, records |-> <<>>]

EndpointOutcome(request, target, spec, index, reply, policy) ==
  LET unreached == Unreached(reply, Min({request.max_bytes, policy.max_response}))
      refused == AcquisitionFailureForStatus(reply.status)
      hidden == /\ spec.kind = "repository" /\ reply.shape = "object"
                /\ reply.items[1].visibility # "public"
      records == NormalizeActivityPayload(target, spec, reply)
  IN IF index > policy.max_acquisition THEN Missed(spec, "blocked", "request_budget_exceeded", FALSE)
     ELSE IF unreached # <<>> THEN Missed(spec, "failed", unreached[1], unreached[2])
     ELSE IF refused # <<>> THEN Missed(spec, refused[1], refused[2], refused[3])
     ELSE IF hidden THEN Missed(spec, "blocked", "non_public_record", FALSE)
     ELSE IF records = {} THEN Missed(spec, "failed", "invalid_provider_payload", TRUE)
     ELSE [Missed(spec, "succeeded", "", FALSE) EXCEPT !.records = CHOOSE r \in records : TRUE]

NotAcquired(status, code, retryable, requests) ==
  [status |-> status, code |-> code, retryable |-> retryable, requests |-> requests]

Times(operations) ==
  UNION {{r.time : r \in Range(o.records)} : o \in Range(operations)} \ {0}

Succeeded(operations) == SelectSeq(operations, LAMBDA o : o.status = "succeeded")
SnapshotSize(operations) ==
  Len(operations) + FoldLeft(LAMBDA n, o : n + Len(o.records), 0, operations)

PrimaryMissedUnlessAllBug(operations) == Succeeded(operations) = <<>>

PrimaryMissed(operations) == operations[1].status # "succeeded"

Acquire(request, replies, policy) ==
  LET target == ParsePublicTarget(request.url)
      specs == ActivityEndpoints(target, policy)
      operations == [i \in DOMAIN specs |->
                       EndpointOutcome(request, target, specs[i], i, replies[i], policy)]
      requests == Min({Len(specs), policy.max_acquisition})
      times == Times(operations)
  IN IF ~request.public THEN NotAcquired("blocked", "classification_not_public", FALSE, 0)
     ELSE IF ~request.json THEN NotAcquired("blocked", "media_type_not_allowed", FALSE, 0)
     ELSE IF target = Nowhere THEN NotAcquired("blocked", "unsupported_url", FALSE, 0)
     ELSE IF PrimaryMissed(operations) THEN
       NotAcquired(operations[1].status, operations[1].code, operations[1].retryable, 1)
     ELSE IF SnapshotSize(operations) > Min({request.max_bytes, policy.max_snapshot}) THEN
       NotAcquired("failed", "snapshot_too_large", FALSE, requests)
     ELSE [status |-> "acquired", operations |-> operations, requests |-> requests,
           partial |-> Len(Succeeded(operations)) < Len(operations),
           event_time |-> IF times = {} THEN 0 ELSE Max(times)]
=============================================================================

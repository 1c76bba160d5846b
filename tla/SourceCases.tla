------------------------------ MODULE SourceCases ------------------------------
(* Cases of what comes back from public sources: discovery and acquisition by *)
(* each source adapter.                                                       *)
EXTENDS RuleCases, Integers, Sequences, SequencesExt, FiniteSets, FiniteSetsExt

GitHub == INSTANCE GitHubSource
Tavily == INSTANCE TavilySource
Keyless == INSTANCE KeylessSource

-----------------------------------------------------------------------------
(* GitHub discovery: at most two queries, each search answered by a failure,  *)
(* by junk or by at most two items.                                           *)
Url(host, path) == [host |-> host, path |-> path, dressed |-> FALSE]
Item(user, visibility, login, name, url) ==
  [user |-> user, visibility |-> visibility, login |-> login, name |-> name, url |-> url,
   whole |-> TRUE, time |-> 1]
AdaPage == Url("html", <<"Ada">>)
DeckPage == Url("html", <<"ada", "deck">>)
AdaUser == Item(TRUE, "unstated", "ada", <<"", "">>, AdaPage)
BobUser == Item(TRUE, "unstated", "bob", <<"", "">>, Url("html", <<"bob">>))
Organization == [BobUser EXCEPT !.user = FALSE]
DeckRepository == Item(FALSE, "public", "ada", <<"ada", "deck">>, DeckPage)

Reply(shape, items) ==
  [reached |-> TRUE, size |-> 1, status |-> 200, shape |-> shape, items |-> items]
Unhappy == {[Reply("list", <<>>) EXCEPT !.reached = FALSE], [Reply("list", <<>>) EXCEPT !.size = 9]}
             \cup {[Reply("list", <<>>) EXCEPT !.status = s] : s \in {403, 404, 500}}
             \cup {Reply("junk", <<>>)}
Found(items) == Reply("list", items)

UserAnswers == {Found(<<>>), Found(<<AdaUser>>), Found(<<AdaUser, AdaUser>>), Found(<<Organization, BobUser>>),
                Found(<<[AdaUser EXCEPT !.login = "bob"], BobUser>>)}
RepositoryAnswers ==
  {Found(<<>>), Found(<<DeckRepository>>)}
    \cup {Found(<<[DeckRepository EXCEPT !.visibility = v], DeckRepository>>) : v \in {"private", "unstated"}}
    \cup {Found(<<[DeckRepository EXCEPT !.visibility = "unstated", !.url = Url("html", <<"ada", "site">>),
                                         !.name = <<"ada", "site">>]>>),
          Found(<<[DeckRepository EXCEPT !.url = Url("html", <<"users", "deck">>)], DeckRepository>>)}

GitHubPolicies == [max_queries : {1, 2}, max_discovery : {1, 2, 4}, max_results : {1, 3}]
GitHubPolicy(p) == p @@ [max_response |-> 5, max_repositories |-> 1, max_events |-> 2,
                         max_acquisition |-> 3, max_snapshot |-> 9]
Query(id) == [id |-> id, ours |-> TRUE, long |-> FALSE, windowed |-> FALSE,
              allowed |-> {}, excluded |-> {}, max_results |-> 2]
Queries(id) ==
  {Query(id), [Query(id) EXCEPT !.ours = FALSE], [Query(id) EXCEPT !.long = TRUE],
   [Query(id) EXCEPT !.windowed = TRUE], [Query(id) EXCEPT !.excluded = {"elsewhere"}]}
    \cup {[Query(id) EXCEPT !.allowed = a] : a \in {{"elsewhere"}, {"github.com"}, {"github.com", "://"}}}

SearchGitHub ==
  /\ Fresh
  /\ \/ \E u1, u2 \in {Found(<<AdaUser>>), Found(<<Organization, BobUser>>), Reply("junk", <<>>)},
          r1, r2 \in {Found(<<DeckRepository>>), Found(<<>>), [Found(<<>>) EXCEPT !.reached = FALSE]},
          p \in GitHubPolicies, q1 \in Queries(1), q2 \in {Query(2), [Query(2) EXCEPT !.max_results = 9]} :
          Pick([kind |-> "github", retrievals |-> <<q1, q2>>, policy |-> GitHubPolicy(p),
                answers |-> <<[users |-> u1, repositories |-> r1], [users |-> u2, repositories |-> r2]>>])
     \/ \E u \in UserAnswers \cup Unhappy, r \in RepositoryAnswers \cup Unhappy, p \in GitHubPolicies :
          Pick([kind |-> "github", retrievals |-> <<Query(1)>>, policy |-> GitHubPolicy(p),
                answers |-> <<[users |-> u, repositories |-> r]>>])

(* A search is asked, refused, or left out because there are enough leads; a  *)
(* failed search is as good as an empty one, except that it is told.          *)
Searches == {"users", "repositories"}
Silenced(answers, i, search) == [answers EXCEPT ![i][search] = Found(<<>>)]
SearchIsHonest(retrievals, answers, policy) ==
  \A result \in {GitHub!Discover(retrievals, answers, policy)} :
  LET leads == result.leads
      ToldOf(operations) == {j \in DOMAIN result.failures : result.failures[j].operation \in operations}
      Operations(i) == {<<retrievals[i].id, s>> : s \in Searches}
      limit(i) == Min({retrievals[i].max_results, policy.max_results})
  IN /\ \A i \in DOMAIN leads :
          /\ leads[i].rank = i
          /\ \A j \in DOMAIN leads : leads[i].url = leads[j].url => i = j
          /\ \E k \in DOMAIN retrievals, s \in Searches : \E item \in Range(answers[k][s].items) :
               /\ retrievals[k].ours /\ item.url = leads[i].url
               /\ s = "repositories" => item.visibility = "public"
               /\ GitHub!ParsePublicTarget(leads[i].url) # GitHub!Nowhere
     /\ result.requests <= policy.max_discovery
     /\ \A i \in DOMAIN retrievals :
          LET refused == ToldOf({<<retrievals[i].id>>}) IN
          /\ ~retrievals[i].ours => ToldOf({<<retrievals[i].id>>} \cup Operations(i)) = {}
          /\ refused # {} => ToldOf(Operations(i)) = {} /\ \A l \in Range(leads) : l.retrieval # retrievals[i].id
          /\ \A s \in Searches :
               \A silent \in {GitHub!Discover(retrievals, Silenced(answers, i, s), policy)} :
               LET told == ToldOf({<<retrievals[i].id, s>>})
               IN /\ Cardinality(told) <= 1
                  /\ told # {} => silent.leads = leads
                  /\ \A j \in told : result.failures[j].code \notin {"request_budget_exceeded"} =>
                       Len(silent.failures) = Len(result.failures) - 1
     /\ (result.status = "succeeded") = (result.failures = <<>>)
     /\ result.status = "failed" => leads = <<>>
     /\ \A n \in 0..Len(retrievals) :
          IsPrefix(GitHub!Discover(SubSeq(retrievals, 1, n), answers, policy).leads, leads)

-----------------------------------------------------------------------------
(* GitHub acquisition.                                                        *)
Event == Item(FALSE, "public", "ada", <<"ada", "deck">>, DeckPage)
Targets == {AdaPage, DeckPage, Url("api", <<"users", "ada">>), Url("api", <<"repos", "ada", "deck">>)}
NotTargets == {Url("html", <<"search">>), Url("html", <<"ada", "deck.git">>), Url("other", <<"ada">>),
               Url("api", <<"orgs", "ada">>), [AdaPage EXCEPT !.dressed = TRUE]}
PrimaryRecords == {AdaUser, BobUser, [AdaUser EXCEPT !.url = DeckPage], DeckRepository,
            [DeckRepository EXCEPT !.visibility = "private"], [DeckRepository EXCEPT !.visibility = "unstated"]}
PrimaryReplies == {Reply("object", <<r>>) : r \in PrimaryRecords} \cup Unhappy
                    \cup {[Reply("object", <<AdaUser>>) EXCEPT !.status = s] : s \in {401, 410, 429, 451}}
Listed == {Event, [Event EXCEPT !.visibility = "private", !.time = 3], [Event EXCEPT !.time = 2],
           [Event EXCEPT !.login = "bob", !.name = <<"bob", "site">>, !.time = 3],
           [Event EXCEPT !.whole = FALSE], [Event EXCEPT !.url = AdaPage]}
ListReplies == {Found(items) : items \in {<<>>} \cup {<<a>> : a \in Listed} \cup (Listed \X Listed)}
                 \cup {Found(<<a, Event, Event>>) : a \in Listed} \cup Unhappy
Tightened(policy, acquisition, snapshot) ==
  [policy EXCEPT !.max_acquisition = acquisition, !.max_snapshot = snapshot]
Ample == GitHubPolicy([max_queries |-> 1, max_discovery |-> 2, max_results |-> 3])

AcquireFromGitHub ==
  /\ Fresh
  /\ \/ \E url \in Targets \cup NotTargets, public, json \in BOOLEAN, bytes \in {3, 9},
          primary \in PrimaryReplies, last \in {Found(<<Event>>), Reply("junk", <<>>)} :
          Pick([kind |-> "activity", policy |-> Ample,
                request |-> [public |-> public, json |-> json, url |-> url, max_bytes |-> bytes],
                replies |-> <<primary, last, last>>])
     \/ \E url \in {AdaPage, DeckPage}, second \in ListReplies, third \in {Found(<<>>), Found(<<Event>>), Reply("junk", <<>>)},
          acquisition \in 1..3, snapshot \in {4, 9} :
          Pick([kind |-> "activity", policy |-> Tightened(Ample, acquisition, snapshot),
                request |-> [public |-> TRUE, json |-> TRUE, url |-> url, max_bytes |-> 9],
                replies |-> <<Reply("object", <<IF url = AdaPage THEN AdaUser ELSE DeckRepository>>), second, third>>])

(* Nothing without the record itself; what surrounds it fails alone, and what *)
(* is private or another's leaves no trace.                                   *)
Theirs(item) == item.visibility # "public" \/ item.login # "ada"
OnlyOurs(reply) == [reply EXCEPT !.items = SelectSeq(@, LAMBDA item : ~Theirs(item))]
AcquisitionIsWhole(request, replies, policy) ==
  \A result \in {GitHub!Acquire(request, replies, policy)} :
  LET Without(j) == GitHub!Acquire(request, [replies EXCEPT ![j] = Reply("junk", <<>>)], policy)
      target == GitHub!ParsePublicTarget(request.url)
  IN IF result.status # "acquired"
     THEN /\ result.requests <= 1 \/ result.code = "snapshot_too_large"
          /\ result.retryable => result.requests = 1
     ELSE LET operations == result.operations IN
          /\ request.public /\ Without(1).status # "acquired"
          /\ result.partial = (\E i \in DOMAIN operations : operations[i].status # "succeeded")
          /\ result.requests <= policy.max_acquisition
          /\ \A i \in DOMAIN operations :
               /\ (operations[i].status = "succeeded") = (operations[i].code = "")
               /\ operations[i].status # "succeeded" => operations[i].records = <<>>
               /\ \A r \in Range(operations[i].records) :
                    /\ GitHub!Lower(r.login) = GitHub!Lower(target.owner)
                    /\ operations[i].kind = "profile" \/ r.visibility = "public"
                    /\ r.time <= result.event_time
          /\ \A j \in 2..Len(operations) :
               \A other \in {Without(j)} :
               other.status = "acquired" =>
                 \A i \in DOMAIN operations \ {j} : other.operations[i] = operations[i]
          /\ LET ours == GitHub!Acquire(request, [i \in 1..3 |-> IF i = 1 THEN replies[1] ELSE OnlyOurs(replies[i])], policy)
             IN ours = result

-----------------------------------------------------------------------------
(* Web search: the policy's and the request's domains against a page of each  *)
(* host, and pages of results for two queries.                                *)
Uni == <<"uni">>
Lab == <<"lab", "uni">>
Other == <<"other">>
Page(host) == [host |-> host, slash |-> FALSE, fragment |-> FALSE, safe |-> TRUE]
Result(url) == [url |-> url, content |-> 2]
Pages == {Page(Uni), Page(Lab), [Page(Uni) EXCEPT !.slash = TRUE], [Page(Uni) EXCEPT !.fragment = TRUE],
          [Page(Other) EXCEPT !.safe = FALSE], Page(Tavily!Local)}
Returned == Pages \cup {Tavily!NoUrl}
Answer(items) ==
  [reached |-> TRUE, declared |-> "fine", large |-> FALSE, status |-> 200, results |-> "list", items |-> items]
EachHost == <<Result(Page(Uni)), Result(Page(Lab)), Result(Page(Other)), Result(Page(Tavily!Local))>>
BadAnswers ==
  {[Answer(EachHost) EXCEPT !.reached = FALSE], [Answer(EachHost) EXCEPT !.declared = "junk"],
   [Answer(EachHost) EXCEPT !.large = TRUE], [Answer(EachHost) EXCEPT !.results = "junk"]}
     \cup {[Answer(EachHost) EXCEPT !.status = s] : s \in {401, 404, 429, 500}}
WebPolicies(allowed, excluded) ==
  {[allowed |-> a, excluded |-> e, max_queries |-> 1, max_results |-> 4, max_content |-> 2] :
     a \in {l \in SUBSET allowed : l \cap excluded = {}}, e \in SUBSET excluded}
OpenPolicy == CHOOSE p \in WebPolicies({}, {}) : TRUE
Asking(id, allowed, excluded, results) ==
  [id |-> id, long |-> FALSE, allowed |-> allowed, excluded |-> excluded, max_results |-> results]

SearchTheWeb ==
  /\ Fresh
  /\ \/ \E p \in WebPolicies({Uni, Lab, Other}, {}) \cup WebPolicies({Uni}, {Lab, Other}),
          a \in SUBSET {Uni, Lab, Other}, e \in {{}, {Uni}, {Lab}, {Tavily!Local}}, long \in BOOLEAN :
          Pick([kind |-> "web", policy |-> p, replies |-> <<Answer(EachHost), Answer(EachHost)>>,
                retrievals |-> <<[Asking(1, a, e, 4) EXCEPT !.long = long], Asking(2, a, e, 4)>>])
     \/ \E n \in 0..3 : \E urls \in [1..n -> Returned], second \in {Answer(EachHost)} \cup BadAnswers, limit \in {2, 3} :
          Pick([kind |-> "web", policy |-> [OpenPolicy EXCEPT !.max_queries = 2],
                retrievals |-> <<Asking(1, {}, {}, limit), Asking(2, {}, {}, limit)>>,
                replies |-> <<Answer([i \in 1..n |-> Result(urls[i])]), second>>])

(* Every well-formed result read is a lead or a refusal, refused just when it *)
(* is not public or when the policy or the request keeps its domain out; a    *)
(* malformed one leaves no trace but its place among those read; and what is  *)
(* found can be acquired.                                                     *)
WebSearchIsGuarded(retrievals, replies, policy) ==
  \A result \in {Tavily!Discover(retrievals, replies, policy)} :
  LET leads == result.leads
      Told(operation) == \E f \in Range(result.failures) : f.operation = operation
      Admitted(url, q) == Tavily!IsPublicSource(url) /\ Tavily!DomainIsAllowed(url.host, policy)
                            /\ Tavily!DomainIsAllowed(url.host, q)
      Hopeless(q) == \/ Tavily!Local \in q.allowed \cup q.excluded
                     \/ \A h \in {Uni, Lab, Other} :
                          ~Tavily!DomainIsAllowed(h, [policy EXCEPT !.excluded = {}])
                            \/ ~Tavily!DomainIsAllowed(h, [q EXCEPT !.excluded = {}])
  IN /\ \A i \in DOMAIN leads :
          /\ leads[i].rank = i
          /\ \A j \in DOMAIN leads : leads[i].url = leads[j].url => i = j
          /\ LET request == [public |-> TRUE, text |-> TRUE, url |-> leads[i].url, max_bytes |-> 2] IN
             Tavily!Acquire(request, Answer(<<Result(leads[i].url)>>), policy).status = "acquired"
     /\ \A k \in DOMAIN retrievals :
          LET q == retrievals[k]
              answered == replies[k].results = "list" /\ Tavily!PostJson(replies[k]) = 200
              asked == k <= policy.max_queries /\ ~q.long /\ ~Hopeless(q)
              read == Min({q.max_results, policy.max_results, Len(replies[k].items)})
          IN /\ Told(<<q.id>>) = (~asked \/ ~answered)
             /\ \A i \in 1..Len(replies[k].items) :
                  LET url == replies[k].items[i].url IN
                  /\ Told(<<q.id, i>>)
                       = (asked /\ answered /\ i <= read /\ url # Tavily!NoUrl /\ ~Admitted(url, q))
                  /\ (asked /\ answered /\ i <= read /\ Admitted(url, q)) =>
                       \E l \in Range(leads) : l.url = Tavily!Normalized(url)
     /\ (result.status = "failed") = (leads = <<>> /\ result.failures # <<>>)
     /\ result.requests <= policy.max_queries

AcquireFromTheWeb ==
  /\ Fresh
  /\ \E p \in {OpenPolicy, [OpenPolicy EXCEPT !.allowed = {Lab}], [OpenPolicy EXCEPT !.excluded = {Lab}]},
        url \in Pages \cup {Page(Other)}, public, text \in BOOLEAN, bytes \in {1, 2},
        reply \in BadAnswers \cup {Answer(items) : items \in UNION {[1..n -> [url : Returned, content : {0, 2}]] : n \in 0..2}} :
        /\ (public /\ text) \/ reply \in BadAnswers
        /\ Pick([kind |-> "extract", policy |-> p, reply |-> reply,
                 request |-> [public |-> public, text |-> text, url |-> url, max_bytes |-> bytes]])

(* Only the page asked for, however its address is spelt and whatever else    *)
(* comes back with it, malformed results included; a retry is offered just    *)
(* where the provider alone can put it right.                                 *)
WebPageIsExact(request, reply, policy) ==
  \A result \in {Tavily!Acquire(request, reply, policy)} :
  LET Same(u) == u.host = request.url.host /\ u.safe = request.url.safe
      Given(items) == Tavily!Acquire(request, Answer(items), policy)
  IN /\ result.status = "acquired" =>
          /\ Tavily!DomainIsAllowed(request.url.host, policy) /\ request.public
          /\ \E i \in DOMAIN reply.items :
               /\ Same(reply.items[i].url) /\ reply.items[i].content = result.content
               /\ \A j \in 1..(i - 1) : ~Same(reply.items[j].url)
          /\ result.content \in 1..request.max_bytes
     /\ result.status # "acquired" /\ result.retryable =>
          Given(<<Result(request.url)>>).status = "acquired" \/ request.max_bytes < 2
     /\ Given(<<Result(request.url)>>).status # "acquired" =>
          result.status # "acquired" \/ request.max_bytes < 2
     /\ \A slash, fragment \in BOOLEAN :
          Tavily!Acquire([request EXCEPT !.url.slash = slash, !.url.fragment = fragment], reply, policy).status
            = result.status

-----------------------------------------------------------------------------
(* The keyless sources: two queries, replies of at most two hits.             *)
Hit(named, subject) == [named |-> named, subject |-> subject]
HitReply(hits) == [reached |-> TRUE, status |-> 200, junk |-> FALSE, hits |-> hits]
HitReplies ==
  {HitReply(hits) : hits \in UNION {[1..n -> {Hit(TRUE, "ada"), Hit(TRUE, "bob"), Hit(FALSE, "")}] : n \in 0..2}}
    \cup {[HitReply(<<>>) EXCEPT !.status = s] : s \in {403, 404, 429, 500}}
    \cup {[HitReply(<<>>) EXCEPT !.reached = FALSE], [HitReply(<<>>) EXCEPT !.junk = TRUE]}

SearchAKeylessSource ==
  /\ Fresh
  /\ \E kind \in Keyless!Kinds, first, second \in HitReplies, ours, about \in BOOLEAN, limit \in {1, 2} :
       Pick([kind |-> "keyless", source |-> kind, replies |-> <<first, second>>, about |-> about,
             retrievals |-> <<[id |-> 1, ours |-> ours, max_results |-> limit],
                              [id |-> 2, ours |-> TRUE, max_results |-> 2]>>])

(* Queries do not disturb each other, and discovery and acquisition agree on  *)
(* which answers are worth asking for again.                                  *)
Subjects(leads) == [i \in DOMAIN leads |-> leads[i].subject]
KeylessIsHonest(kind, retrievals, replies, about) ==
  \A result \in {Keyless!Discover(kind, retrievals, replies)},
     one \in {[i \in DOMAIN retrievals |-> Keyless!Discover(kind, <<retrievals[i]>>, <<replies[i]>>)]} :
  LET Got(i) == Keyless!Acquire(kind, about, replies[i])
  IN /\ Subjects(result.leads) = Subjects(one[1].leads) \o Subjects(one[2].leads)
     /\ \A i \in DOMAIN result.leads : result.leads[i].rank = i /\ result.leads[i].subject # ""
     /\ result.failures = one[1].failures \o one[2].failures
     /\ result.requests = Cardinality({i \in DOMAIN retrievals : retrievals[i].ours})
     /\ (result.status = "succeeded") = (result.failures = <<>>)
     /\ \A i \in DOMAIN retrievals :
          /\ one[i].failures # <<>> /\ about =>
               Got(i).status # "acquired" /\ Got(i).retryable = one[i].failures[1].retryable
          /\ Got(i).status = "acquired" /\ retrievals[i].ours => one[i].failures = <<>>
          /\ Got(i).status = "blocked" => Got(i).retryable

-----------------------------------------------------------------------------
NextSource ==
  \/ SearchGitHub \/ AcquireFromGitHub
  \/ SearchTheWeb \/ AcquireFromTheWeb
  \/ SearchAKeylessSource

SourcesAreProven ==
  /\ case.kind = "github" => SearchIsHonest(case.retrievals, case.answers, case.policy)
  /\ case.kind = "activity" => AcquisitionIsWhole(case.request, case.replies, case.policy)
  /\ case.kind = "web" => WebSearchIsGuarded(case.retrievals, case.replies, case.policy)
  /\ case.kind = "extract" => WebPageIsExact(case.request, case.reply, case.policy)
  /\ case.kind = "keyless" => KeylessIsHonest(case.source, case.retrievals, case.replies, case.about)
=============================================================================

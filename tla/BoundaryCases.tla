----------------------------- MODULE BoundaryCases -----------------------------
(* Cases of what crosses the process's boundary: documents sent to a          *)
(* provider, what a model reads off an acquired page, and identities met in   *)
(* several sources and linked by hand.                                        *)
EXTENDS RuleCases, OcrClient, Identity, SourceCases, PageExtraction, FiniteSetsExt

-----------------------------------------------------------------------------
(* Page extraction: one page of three lines, and what may be proposed of it.  *)
PageLines == << [words |-> {"Berlin Hack", "Slides"}, printed |-> {"deck", "site", "site/"}],
                [words |-> {"Ada", "GitHub"}, printed |-> {"repo", "private"}],
                [words |-> {"Contact"}, printed |-> {"mail", "notmail"}] >>
Cite(line) == [line |-> line, exact |-> TRUE]
Citations == [line : 1..4, exact : BOOLEAN]

Claimed(value, cites) == [state |-> "known", value |-> value, cites |-> cites, gap |-> FALSE]
Unclaimed == [state |-> "unknown", value |-> Nothing, cites |-> <<>>, gap |-> TRUE]
Facts == {Unclaimed, [Unclaimed EXCEPT !.gap = FALSE], [Unclaimed EXCEPT !.value = "Berlin Hack"],
          [Unclaimed EXCEPT !.state = "known"], [Claimed("Ada", Cite(2)) EXCEPT !.gap = TRUE]}
           \cup {Claimed(value, cites) : value \in {"Berlin Hack", "Ada"}, cites \in Citations}

Participants == [name : {"Ada", "Bob"}, profile : {Nothing, "repo", "private", "site/"}, cites : Citations]
Links == [kind : {"pitch_deck", "repository", "demo"}, label : {"Slides", "GitHub", "Ada"},
          url : {"deck", "repo", "private", "site/"}, cites : [line : 1..2, exact : {TRUE}] \cup {Cite(4)}]
Contacts == [kind : {"public_email", "website"}, label : {"Contact", "Slides"},
             value : {"mail", "notmail", "site", "site/"}, cites : {Cite(1), Cite(3), [Cite(3) EXCEPT !.exact = FALSE]}]
SomeLink == [kind |-> "pitch_deck", label |-> "Slides", url |-> "deck", cites |-> Cite(1)]
SomeContact == [kind |-> "public_email", label |-> "Contact", value |-> "mail", cites |-> Cite(3)]

(* What a careful model proposes: gaps stated where nothing is claimed.       *)
Proposal(event, project, participants, links, contacts) ==
  [event |-> event, project |-> project, participants |-> participants, links |-> links,
   contacts |-> contacts, participant_gap |-> participants = <<>>, contact_gap |-> contacts = <<>>,
   deck_gap |-> \A i \in DOMAIN links : links[i].kind # "pitch_deck"]
Bare == Proposal(Unclaimed, Unclaimed, <<>>, <<>>, <<>>)
Of(links, contacts) == Proposal(Claimed("Ada", Cite(2)), Unclaimed, <<>>, links, contacts)

Body(proposal) == [object |-> TRUE, model |-> TRUE, completed |-> TRUE, refused |-> FALSE,
                   outputs |-> 1, proposal |-> proposal]
Says(proposal) == [transport |-> "fine", declared |-> "none", size |-> "small", status |-> 200,
                   body |-> Body(proposal)]
OpenPage == [public |-> TRUE, hackathon |-> TRUE, available |-> TRUE, textual |-> TRUE,
             small |-> TRUE, intact |-> TRUE, utf8 |-> TRUE, short |-> TRUE]

Read(source, reply) == Pick([kind |-> "page", source |-> source, reply |-> reply])

ExtractAPage ==
  /\ Fresh
  /\ \/ \E source \in [DOMAIN OpenPage -> BOOLEAN], status \in {200, 500} :
          Read(source, [Says(Of(<<SomeLink>>, <<SomeContact>>)) EXCEPT !.status = status])
     \/ \E transport \in {"fine", "error"}, declared \in {"none", "small", "large", "junk"},
          size \in {"small", "large"}, status \in {200, 400, 401, 403, 429, 500, 503} :
          Read(OpenPage, [transport |-> transport, declared |-> declared, size |-> size, status |-> status,
                          body |-> Body(Bare)])
     \/ \E body \in [object : BOOLEAN, model : BOOLEAN, completed : BOOLEAN, refused : BOOLEAN,
                     outputs : 0..2, proposal : {Bare}] :
          Read(OpenPage, [Says(Bare) EXCEPT !.body = body])
     \/ \E event, project \in Facts : Read(OpenPage, Says(Proposal(event, project, <<>>, <<>>, <<>>)))
     \/ \E p, q \in Participants : /\ p.cites.exact /\ p.cites.line = 2
                                   /\ Read(OpenPage, Says(Proposal(Unclaimed, Unclaimed, <<p, q>>, <<>>, <<>>)))
     \/ \E link \in Links, links \in {<<>>, <<SomeLink>>} :
          Read(OpenPage, Says(Of(Append(links, link), <<>>)))
     \/ \E c, d \in Contacts : Read(OpenPage, Says(Of(<<SomeLink>>, <<c, d>>)))
     \/ \E gaps \in [participant_gap : BOOLEAN, contact_gap : BOOLEAN, deck_gap : BOOLEAN] :
          Read(OpenPage, Says(gaps @@ Of(<<SomeLink>>, <<>>)))

-----------------------------------------------------------------------------
(* The same proposal with fewer items, its gaps stated anew.                  *)
Fewer(x, participants, links, contacts) == Proposal(x.event, x.project, participants, links, contacts)
Less(x) ==
  {Fewer(x, RemoveAt(x.participants, i), x.links, x.contacts) : i \in DOMAIN x.participants}
    \cup {Fewer(x, x.participants, RemoveAt(x.links, i), x.contacts) : i \in DOMAIN x.links}
    \cup {Fewer(x, x.participants, x.links, RemoveAt(x.contacts, i)) : i \in DOMAIN x.contacts}
Alone(x) ==
  {Fewer(x, <<p>>, <<>>, <<>>) : p \in Range(x.participants)}
    \cup {Fewer(x, <<>>, <<l>>, <<>>) : l \in Range(x.links)}
    \cup {Fewer(x, <<>>, <<>>, <<c>>) : c \in Range(x.contacts)}

Shown(projection) ==
  {<<p.cites.line, p.profile>> : p \in Range(projection.participants)}
    \cup {<<l.cites.line, l.url>> : l \in Range(projection.links)}
    \cup {<<r.line, r.value>> : r \in Range(projection.routes)}

(* What is shown stands on the line it cites; items are judged one by one,    *)
(* and one that fails refuses them all; a page that may not be sent is        *)
(* refused whatever would be answered.                                        *)
PageIsProven(source, reply) ==
  LET result == ExtractPage(source, PageLines, reply)
      proposal == reply.body.proposal
      Given(x) == ExtractPage(source, PageLines, [reply EXCEPT !.body = Body(x)]).status = "succeeded"
      shown == result.projection
      evidence == ContactEvidence(shown, "subject")
  IN /\ (result.status = "succeeded") =>
          /\ source = OpenPage
          /\ \A s \in Shown(shown) : s[2] # Nothing =>
               /\ s[2] # "private"
               /\ \E v \in PageLines[s[1]].printed : Normalized(v) = s[2]
          /\ \A p \in Range(shown.participants) : p.name \in PageLines[p.cites.line].words
          /\ \A r \in Range(shown.routes) :
               /\ r.label \in PageLines[r.line].words /\ r.value # "notmail"
               /\ (r.href = Nothing) = (r.value = "mail")
          /\ shown.contact_gap = (shown.routes = <<>>)
          /\ shown.deck_gap = (\A l \in Range(shown.links) : l.kind # "pitch_deck")
          /\ \A x \in Less(proposal) : Given(x)
          /\ \A i \in DOMAIN evidence :
               /\ \A j \in DOMAIN evidence : evidence[i].claim.id = evidence[j].claim.id => i = j
               /\ \A e \in evidence[i].claim.supporting : \E j \in DOMAIN evidence :
                    /\ evidence[j].evidence.id = e /\ evidence[j].evidence.claim = evidence[i].claim.id
                    /\ evidence[j].evidence.observation = evidence[j].observation.id
                    /\ <<evidence[j].observation.line, evidence[j].observation.value>> \in Shown(shown)
     /\ (ProposalHolds(proposal) /\ \A x \in Alone(proposal) \cup {Fewer(proposal, <<>>, <<>>, <<>>)} : Given(x))
          => Given(proposal)
     /\ (source # OpenPage) => (result = ExtractPage(source, PageLines, Says(Bare)) /\ result.status = "failed")
     /\ (result.status = "failed" /\ result.retryable) =>
          result # ExtractPage(source, PageLines, Says(Bare))
     /\ (source = OpenPage /\ PostJson(reply) = 200 /\ reply.body = Body(Bare)) => result.status = "succeeded"
     /\ (result.status = "succeeded") => reply.body = Body(proposal) /\ PostJson(reply) = 200

-----------------------------------------------------------------------------
(* OCR: every policy and request with a good answer, and every answer to a    *)
(* request that is let through.  A refused transfer stays refused with fewer  *)
(* confirmations, and what a card lists besides versions makes no difference. *)
NoPolicy == [allow_private |-> FALSE, purpose_confirmed |-> FALSE, training_opt_out |-> FALSE,
             retention_confirmed |-> FALSE, region_confirmed |-> FALSE, risk_accepted |-> FALSE]
Policies == [DOMAIN NoPolicy -> BOOLEAN]
Settings(enabled, approved, policy, model) ==
  [enabled |-> enabled, public_approved |-> approved, policy |-> policy, model |-> model,
   max_input |-> 2, max_response |-> 2, max_pages |-> 2]
Classifications == {"public", "founder_private", "investor_internal", "restricted"}
Document(class, pdf, size) == [classification |-> class, is_pdf |-> pdf, size |-> size]

(* Names: two versions of the family, its unnumbered alias, a version of an   *)
(* earlier family, and one of neither form.                                   *)
Version(n) == ModelName(IF n = 0 THEN "mistral-ocr-4-0" ELSE "mistral-ocr-4-1", TRUE, TRUE)
Alias == ModelName("mistral-ocr-4", TRUE, FALSE)
Earlier == ModelName("mistral-ocr-3-0", FALSE, TRUE)
Stranger == ModelName("other", FALSE, FALSE)

GoodAnswer == [reached |-> TRUE, size |-> 2, success |-> TRUE, parsed |-> TRUE,
               model |-> Version(0), pages |-> <<0, 1>>, processed |-> 2, document |-> -1]
Reachings == {GoodAnswer, [GoodAnswer EXCEPT !.reached = FALSE], [GoodAnswer EXCEPT !.size = 3],
              [GoodAnswer EXCEPT !.success = FALSE], [GoodAnswer EXCEPT !.parsed = FALSE]}
Answers ==
  {[r EXCEPT !.model = m, !.pages = p, !.processed = n, !.document = d] :
     r \in Reachings, m \in {Latest, Version(0), Version(1), Alias, Stranger},
     p \in {<<>>, <<0>>, <<0, 1>>, <<1, 0>>, <<0, 0>>, <<0, 1, 2>>}, n \in -1..2, d \in {-1, 1, 2}}
GoodCard == [reached |-> TRUE, size |-> 1, success |-> TRUE, parsed |-> TRUE, id |-> Latest,
             aliases |-> <<Version(1), Alias>>]
Cards == {GoodCard, [GoodCard EXCEPT !.success = FALSE], [GoodCard EXCEPT !.id = Alias]}
           \cup {[GoodCard EXCEPT !.aliases = listed] :
                   listed \in {<<>>, <<Alias>>, <<Latest, Stranger>>, <<Version(0), Version(1)>>,
                              <<Version(1), Version(1)>>, <<Earlier>>, <<Alias, Earlier, Version(0)>>}}

ExtractADeck ==
  /\ Fresh
  /\ \/ \E enabled, approved \in BOOLEAN, policy \in Policies, class \in Classifications,
          pdf \in BOOLEAN, size \in {1, 3} :
          Pick([kind |-> "ocr", settings |-> Settings(enabled, approved, policy, Latest),
                request |-> Document(class, pdf, size), answer |-> GoodAnswer, card |-> GoodCard])
     \/ \E answer \in Answers, card \in Cards, model \in {Latest, Version(0), Alias, Stranger} :
          /\ SettingsHold(Settings(TRUE, TRUE, NoPolicy, model))
          /\ answer.model = Latest \/ card = GoodCard
          /\ Pick([kind |-> "ocr", settings |-> Settings(TRUE, TRUE, NoPolicy, model),
                   request |-> Document("public", TRUE, 2), answer |-> answer, card |-> card])

OcrIsBounded(settings, request, answer, card) ==
  LET Try(s, r) == Extract(s, r, answer, card)
      result == Try(settings, request)
      Withdrawn(c) == [settings EXCEPT !.policy[c] = FALSE]
  IN /\ result.sent = 1 =>
          /\ request.classification # "restricted"
          /\ request.classification # "public" =>
               \A c \in {"allow_private", "purpose_confirmed"} : Try(Withdrawn(c), request).sent = 0
     /\ Try(settings, [request EXCEPT !.classification = "restricted"]).sent = 0
     /\ result.sent = 0 => \A c \in DOMAIN NoPolicy : Try(Withdrawn(c), request).sent = 0
     /\ request.classification # "public" =>
          Try([settings EXCEPT !.public_approved = ~@], request) = result
     /\ result.code = "ok" =>
          /\ result.model.ocr4 /\ result.model # Latest /\ settings.model \in {Latest, result.model}
          /\ result.asked = 0 => result.model = answer.model
          /\ result.asked = 1 => \E i \in DOMAIN card.aliases :
               \A j \in DOMAIN card.aliases :
                 IF j = i THEN card.aliases[j] = result.model /\ result.model.numbered
                 ELSE ~card.aliases[j].numbered
          /\ ExtractionResultHolds(result) /\ Len(result.pages) <= settings.max_pages
     /\ result.code = "ok" /\ result.asked = 1 =>
          [result EXCEPT !.asked = 0]
            = Extract(settings, request, [answer EXCEPT !.model = result.model], card)
     /\ \A alias \in {Latest, Alias, Stranger} :
          Extract(settings, request, answer, [card EXCEPT !.aliases = Append(@, alias)]) = result
     /\ result.asked <= result.sent

-----------------------------------------------------------------------------
(* Identities: at most four signals, of records in the order they arrived;    *)
(* the first two records come from one category of source.                    *)
CategoryOfRef == <<"code", "code", "paper">>
IdentitySignal(kinds) == [kind : kinds, value : {"x", "y"}, ref : 1..3]
Resolvable(signals) ==
  [i \in DOMAIN signals |-> [category |-> CategoryOfRef[signals[i].ref]] @@ signals[i]]

ResolveSignals ==
  /\ Fresh
  /\ \E n \in 1..4 : \E signals \in
         [1..n -> IdentitySignal(IF n = 4 THEN {"handle", "name"} ELSE {"handle", "email", "name"})] :
       /\ signals[1].ref = 1 \/ signals[1].ref = 3
       /\ \A i \in 2..n : signals[i - 1].ref <= signals[i].ref
       /\ Pick([kind |-> "identity", signals |-> Resolvable(signals)])

(* Every signal's name made its own.                                          *)
Blinded(signals) ==
  [i \in DOMAIN signals |-> IF signals[i].kind = "name" THEN [signals[i] EXCEPT !.value = i]
                            ELSE signals[i]]
Members(entities) == {e.members : e \in entities}

IdentityIsCautious(signals) ==
  LET entities == ResolveIdentities(signals)
      n == Len(signals)
  IN /\ UNION Members(entities) = 1..n
     /\ \A d, e \in entities : d = e \/ d.members \cap e.members = {}
     /\ \A e \in entities :
          IF e.status = "resolved" THEN e \in ResolveIdentities(Blinded(signals))
          ELSE /\ Cardinality(CategoriesOf(signals, e.members)) >= 2
               /\ \E i \in e.members : signals[i].kind = "name"
               /\ \A d \in entities : d.status = "resolved" => e.confidence < d.confidence
     /\ \A d \in ResolveIdentities(Front(signals)) : \E e \in entities : d.members \subseteq e.members
     /\ Members(ResolveIdentities(Reverse(signals)))
          = {{n + 1 - i : i \in m} : m \in Members(entities)}

-----------------------------------------------------------------------------
(* The ledger of links: every log of four commands on two pairs, of which the *)
(* refused ones change nothing.                                               *)
Pairs == {{"a", "b"}, {"b", "c"}}
Obey(events, command) ==
  CASE command.do = "approve" /\ CanApprove(events, command.pair, {"e"}) ->
         Approve(events, command.pair, {"e"})
    [] command.do = "reverse" /\ CanReverse(events, command.link) ->
         ReverseLink(events, command.link)
    [] OTHER -> events
LinkCommands == [do : {"approve"}, pair : Pairs, link : {0}]
                  \cup [do : {"reverse"}, pair : {{}}, link : 1..3]

KeepALedger ==
  /\ Fresh
  /\ \E commands \in [1..4 -> LinkCommands] : Pick([kind |-> "ledger", commands |-> commands])

(* The ledger after each of the commands.                                     *)
Replayed(ledgers, commands, n) ==
  IF n = 0 THEN <<>> ELSE Obey(ledgers[n - 1], commands[n])
Ledgers(commands) ==
  LET After[n \in 0..Len(commands)] == Replayed(After, commands, n) IN After

LinkedPairs(events) == {events[i].pair : i \in ActiveLinks(events)}

LedgerIsReversible(commands) ==
  LET ledgers == Ledgers(commands)
      After(n) == ledgers[n]
      Linked(n) == LinkedPairs(After(n))
  IN \A n \in 1..Len(commands) :
       /\ IsPrefix(After(n - 1), After(n))
       /\ Cardinality(ActiveLinks(After(n))) = Cardinality(Linked(n))
       /\ commands[n].do = "approve" => Linked(n) = Linked(n - 1) \cup {commands[n].pair}
       /\ commands[n].do = "reverse" =>
            \/ Linked(n) = Linked(n - 1) /\ commands[n].link \notin ActiveLinks(After(n - 1))
            \/ Linked(n) = Linked(n - 1) \ {After(n - 1)[commands[n].link].pair}

(* A document leaves only where its classification and every confirmation     *)
(* allow it, and what comes back is ordered, whole and of the model asked     *)
(* for: where that was the latest one, of a name of its family, which is      *)
(* never the pointer to the latest and is a numbered version just where the   *)
(* provider's card had to tell it (an alias the answer itself reports is      *)
(* recorded as it is).  A shared name alone never resolves an identity, later *)
(* signals never split one, the order of the signals does not matter, and a   *)
(* human link is active from its approval to its reversal, again if approved  *)
(* again.  A refusal of a source or of a well-formed result is told and       *)
(* spoils nothing else, and what is read off a page stands on the line it     *)
(* cites.                                                                     *)
BoundaryIsGuarded ==
  CASE case.kind = "ocr" -> OcrIsBounded(case.settings, case.request, case.answer, case.card)
    [] case.kind = "identity" -> IdentityIsCautious(case.signals)
    [] case.kind = "ledger" -> LedgerIsReversible(case.commands)
    [] case.kind = "page" -> PageIsProven(case.source, case.reply)
    [] OTHER -> SourcesAreProven

NextBoundary == ExtractADeck \/ ResolveSignals \/ KeepALedger \/ NextSource \/ ExtractAPage
=============================================================================

---------------------------- MODULE PageExtraction ----------------------------
(* Structured extraction of a public showcase page:                           *)
(* ingestion/openai_structured.py.  A model proposes, and each value, link    *)
(* and contact is proved against the line it cites, or all is refused.  A     *)
(* line is what its first 600 characters show: words, and the addresses       *)
(* printed on it.                                                             *)
EXTENDS Integers, Sequences, SequencesExt, FiniteSets, Functions

Urls == {"repo", "deck", "video", "site", "site/", "private"}
Normalized(url) == IF url = "site/" THEN "site" ELSE url
IsPublicUrl(url) == url \in Urls \ {"private"}
IsEmail(value) == value = "mail"
Nothing == "nothing"

(* A link is of the kind its line, its label or its address speaks of.        *)
Tells(kind) ==
  CASE kind = "pitch_deck" -> [words |-> {"Slides"}, urls |-> {"deck"}]
    [] kind = "repository" -> [words |-> {"GitHub"}, urls |-> {"repo"}]
    [] kind = "demo" -> [words |-> {"Prototype"}, urls |-> {"video"}]

-----------------------------------------------------------------------------
(* The gate, before anything is sent.                                         *)
Gates(source) ==
  << <<source.public, "non_public_source_blocked">>,
     <<source.hackathon, "unsupported_source_category">>,
     <<source.available, "source_unavailable">>,
     <<source.textual, "unsupported_media_type">>,
     <<source.small, "structured_input_budget_exceeded">>,
     <<source.intact, "content_hash_mismatch">>,
     <<source.utf8, "invalid_utf8_source">>,
     <<source.short, "structured_line_budget_exceeded">> >>

ValidatePublicSourceRequestUnhashedBug(source) ==
  LET refused == SelectSeq(Gates([source EXCEPT !.intact = TRUE]), LAMBDA g : ~g[1]) IN
  IF refused = <<>> THEN "" ELSE refused[1][2]

ValidatePublicSourceRequest(source) ==
  LET refused == SelectSeq(Gates(source), LAMBDA g : ~g[1]) IN
  IF refused = <<>> THEN "" ELSE refused[1][2]

-----------------------------------------------------------------------------
(* The model's proposal.                                                      *)
KnownOrUnknownHolds(item) ==
  IF item.state = "known" THEN item.value # Nothing /\ item.cites # <<>> /\ ~item.gap
  ELSE item.value = Nothing /\ item.cites = <<>> /\ item.gap

Distinct(items, Key(_)) == \A i, j \in DOMAIN items : Key(items[i]) = Key(items[j]) => i = j

ProposalHolds(x) ==
  LET decks == SelectSeq(x.links, LAMBDA l : l.kind = "pitch_deck") IN
  /\ KnownOrUnknownHolds(x.event) /\ KnownOrUnknownHolds(x.project)
  /\ x.participant_gap = (x.participants = <<>>)
  /\ x.deck_gap = (decks = <<>>)
  /\ x.contact_gap = (x.contacts = <<>>)
  /\ Distinct(x.participants, LAMBDA p : <<p.name, p.profile>>)
  /\ Distinct(x.links, LAMBDA l : <<l.kind, l.url>>)
  /\ Distinct(x.contacts, LAMBDA c : <<c.kind, c.value>>)

CitesExactly(cites, lines) == cites.line <= Len(lines) /\ cites.exact

ValidateTextEvidenceAnywhereBug(value, cites, lines) ==
  CitesExactly(cites, lines) /\ \E i \in DOMAIN lines : value \in lines[i].words

ValidateTextEvidence(value, cites, lines) ==
  CitesExactly(cites, lines) /\ value \in lines[cites.line].words

ValidateUrlEvidence(url, cites, lines) ==
  /\ CitesExactly(cites, lines) /\ url \in lines[cites.line].printed
  /\ IsPublicUrl(url)

ValidateContactValueAnyAddressBug(contact, lines) ==
  /\ CitesExactly(contact.cites, lines)
  /\ contact.value \in lines[contact.cites.line].printed
  /\ contact.kind = "public_email" \/ contact.value \in Urls

ValidateContactValue(contact, lines) ==
  /\ CitesExactly(contact.cites, lines)
  /\ contact.value \in lines[contact.cites.line].printed
  /\ IF contact.kind = "public_email" THEN IsEmail(contact.value) ELSE IsPublicUrl(contact.value)

ValidateLinkKind(link, lines) ==
  \/ Tells(link.kind).words \cap ({link.label} \cup lines[link.cites.line].words) # {}
  \/ link.url \in Tells(link.kind).urls

(* One unsupported item refuses the whole page.                               *)
ProjectableItemByItemBug(source, x, lines) ==
  /\ ValidatePublicSourceRequest(source) = ""
  /\ \A p \in Range(x.participants) : ValidateTextEvidence(p.name, p.cites, lines)
  /\ \A l \in Range(x.links) : ValidateUrlEvidence(l.url, l.cites, lines)
  /\ \A c \in Range(x.contacts) : ValidateContactValue(c, lines)

Projectable(source, x, lines) ==
  /\ ValidatePublicSourceRequest(source) = ""
  /\ \A item \in {x.event, x.project} :
       item.state = "known" => ValidateTextEvidence(item.value, item.cites, lines)
  /\ \A p \in Range(x.participants) :
       /\ ValidateTextEvidence(p.name, p.cites, lines)
       /\ p.profile # Nothing => ValidateUrlEvidence(p.profile, p.cites, lines)
  /\ \A l \in Range(x.links) :
       /\ ValidateTextEvidence(l.label, l.cites, lines)
       /\ ValidateUrlEvidence(l.url, l.cites, lines)
       /\ ValidateLinkKind(l, lines)
  /\ \A c \in Range(x.contacts) :
       ValidateTextEvidence(c.label, c.cites, lines) /\ ValidateContactValue(c, lines)

Route(contact) ==
  LET value == IF contact.kind = "public_email" THEN contact.value ELSE Normalized(contact.value) IN
  [id |-> <<contact.kind, value, contact.cites.line>>, kind |-> contact.kind,
   label |-> contact.label, value |-> value, line |-> contact.cites.line,
   href |-> IF contact.kind = "public_email" THEN Nothing ELSE value]

Projection(x) ==
  [event |-> x.event.value, project |-> x.project.value,
   participants |-> [i \in DOMAIN x.participants |->
      [x.participants[i] EXCEPT !.profile = Normalized(@)]],
   links |-> [i \in DOMAIN x.links |-> [x.links[i] EXCEPT !.url = Normalized(@)]],
   routes |-> [i \in DOMAIN x.contacts |-> Route(x.contacts[i])],
   contact_gap |-> x.contact_gap, deck_gap |-> x.deck_gap]

-----------------------------------------------------------------------------
(* The call.                                                                  *)
PostJson(reply) ==
  CASE reply.transport = "error" -> 599
    [] reply.transport # "error" /\ reply.declared = "large" -> 413
    [] reply.transport # "error" /\ reply.declared = "junk" -> 502
    [] reply.transport # "error" /\ reply.declared \in {"none", "small"} ->
         IF reply.size = "large" THEN 413 ELSE reply.status

Failed(code, retryable) == [status |-> "failed", code |-> code, retryable |-> retryable]

HttpFailure(status) ==
  CASE status = 413 -> Failed("provider_response_budget_exceeded", FALSE)
    [] status = 599 -> Failed("provider_transport_error", TRUE)
    [] status \in {401, 403} -> Failed("provider_auth_rejected", FALSE)
    [] status = 429 -> Failed("provider_rate_limited", TRUE)
    [] status >= 500 /\ status # 599 -> Failed("provider_unavailable", TRUE)
    [] OTHER -> Failed("provider_request_rejected", FALSE)

(* The first thing wrong with the provider's envelope, if anything.           *)
EnvelopeFailureUnfinishedBug(body) ==
  CASE ~body.object -> <<"malformed_provider_response", TRUE>>
    [] body.object /\ ~body.model -> <<"model_version_missing", TRUE>>
    [] body.object /\ body.model /\ body.refused -> <<"model_refusal", FALSE>>
    [] body.object /\ body.model /\ ~body.refused /\ body.outputs = 0 -> <<"structured_output_missing", TRUE>>
    [] OTHER -> <<>>

EnvelopeFailure(body) ==
  CASE ~body.object -> <<"malformed_provider_response", TRUE>>
    [] body.object /\ ~body.model -> <<"model_version_missing", TRUE>>
    [] body.object /\ body.model /\ ~body.completed -> <<"structured_response_incomplete", TRUE>>
    [] body.object /\ body.model /\ body.completed /\ body.refused -> <<"model_refusal", FALSE>>
    [] body.object /\ body.model /\ body.completed /\ ~body.refused /\ body.outputs # 1 ->
         <<"structured_output_missing", TRUE>>
    [] OTHER -> <<>>

ExtractPage(source, lines, reply) ==
  LET refusal  == ValidatePublicSourceRequest(source)
      status   == PostJson(reply)
      envelope == EnvelopeFailure(reply.body)
      proposal == reply.body.proposal
  IN CASE refusal # "" -> Failed(refusal, FALSE)
       [] refusal = "" /\ status # 200 -> HttpFailure(status)
       [] refusal = "" /\ status = 200 /\ envelope # <<>> -> Failed(envelope[1], envelope[2])
       [] OTHER -> IF ProposalHolds(proposal) /\ Projectable(source, proposal, lines)
                   THEN [status |-> "succeeded", projection |-> Projection(proposal)]
                   ELSE Failed("structured_output_invalid", FALSE)

-----------------------------------------------------------------------------
(* Each route becomes an observation, evidence of it and a claim that cites   *)
(* it.                                                                        *)
ContactEvidence(projection, subject) ==
  LET Id(i) == <<subject, i, projection.routes[i].kind, projection.routes[i].value>> IN
  [i \in DOMAIN projection.routes |->
     [observation |-> [id |-> Id(i), value |-> projection.routes[i].value, line |-> projection.routes[i].line],
      evidence |-> [id |-> Id(i), claim |-> Id(i), observation |-> Id(i)],
      claim |-> [id |-> Id(i), supporting |-> {Id(i)}, status |-> "asserted_unverified"]]]
=============================================================================

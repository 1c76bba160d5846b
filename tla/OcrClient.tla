------------------------------ MODULE OcrClient ------------------------------
(* The stateless OCR client: ingestion/mistral_ocr.py and the result it must  *)
(* return, ingestion/extraction.py.  One extraction is one document sent, at  *)
(* most one further question about the model's name, and one validated        *)
(* answer; every refusal has its code.                                        *)
EXTENDS Integers, Sequences, FiniteSets

(* A model's name, by what the code can tell of it: whether it begins with    *)
(* the family's prefix and whether it has the form of a numbered version.     *)
(* Neither implies the other.                                                 *)
ModelName(name, ocr4, numbered) == [name |-> name, ocr4 |-> ocr4, numbered |-> numbered]
Latest == ModelName("mistral-ocr-latest", FALSE, FALSE)

SettingsHold(settings) == settings.model = Latest \/ settings.model.ocr4

(* Every control over data that is not public is off until it is confirmed.   *)
PermitsPrivateTransfer(policy) ==
  /\ policy.allow_private
  /\ policy.purpose_confirmed
  /\ \/ policy.training_opt_out /\ policy.retention_confirmed /\ policy.region_confirmed
     \/ policy.risk_accepted

AuthorizeRestrictedBug(settings, classification) ==
  IF ~settings.enabled THEN "disabled"
  ELSE IF classification = "public" \/ PermitsPrivateTransfer(settings.policy) THEN "granted"
  ELSE "policy_denied"

Authorize(settings, classification) ==
  LET permitted == CASE classification = "restricted" -> FALSE
                     [] classification = "public" -> settings.public_approved
                     [] OTHER -> PermitsPrivateTransfer(settings.policy)
  IN IF ~settings.enabled THEN "disabled" ELSE IF permitted THEN "granted" ELSE "policy_denied"

InputHolds(settings, request) == request.is_pdf /\ request.size <= settings.max_input

(* A provider's answer arrives, in full and within bounds, or the code of     *)
(* what went wrong; a transport failure is found first.                       *)
Received(answer, settings) ==
  IF ~answer.reached THEN "transport_failed"
  ELSE IF answer.size > settings.max_response THEN "response_invalid"
  ELSE IF ~answer.success THEN "http_failed"
  ELSE IF ~answer.parsed THEN "response_invalid" ELSE "ok"

ModelMatchesRequest(settings, model) ==
  IF settings.model = Latest THEN model = Latest \/ model.ocr4 ELSE model = settings.model

Resolved(model) == [code |-> "ok", model |-> model]
NotResolved(code) == [code |-> code, model |-> Latest]

ResolveConcreteModelAliasBug(settings, reported, card) ==
  IF ModelMatchesRequest(settings, reported) THEN Resolved(reported) ELSE NotResolved("response_invalid")

(* The numbered versions a card lists, by their places.                       *)
ConcreteAliases(card) == {i \in DOMAIN card.aliases : card.aliases[i].numbered}

ConcreteAliasesUnfilteredBug(card) == {i \in DOMAIN card.aliases : card.aliases[i] # Latest}

(* A name of the family is taken as it is reported, numbered or not; only for *)
(* the latest pointer is the provider's card asked, which must list exactly   *)
(* one numbered version, of this family, among whatever else it lists.        *)
ResolveConcreteModel(settings, reported, card) ==
  LET received == Received(card, settings)
      concrete == card.aliases[CHOOSE i \in ConcreteAliases(card) : TRUE]
  IN IF ~ModelMatchesRequest(settings, reported) THEN NotResolved("response_invalid")
     ELSE IF reported # Latest THEN Resolved(reported)
     ELSE IF received # "ok" THEN NotResolved(received)
     ELSE IF card.id = reported /\ Cardinality(ConcreteAliases(card)) = 1 /\ concrete.ocr4
       THEN Resolved(concrete) ELSE NotResolved("response_invalid")

ResponseHoldsAnyOrderBug(settings, request, answer) ==
  /\ ModelMatchesRequest(settings, answer.model)
  /\ answer.pages # <<>>
  /\ Len(answer.pages) <= settings.max_pages
  /\ {answer.pages[i] : i \in DOMAIN answer.pages} = 0..(Len(answer.pages) - 1)
  /\ answer.processed \in {-1, Len(answer.pages)}
  /\ answer.document \in {-1, request.size}

(* The model is what was asked for, the pages are 0, 1, 2, ... and no usage   *)
(* figure contradicts them.                                                   *)
ResponseHolds(settings, request, answer) ==
  /\ ModelMatchesRequest(settings, answer.model)
  /\ answer.pages # <<>>
  /\ Len(answer.pages) <= settings.max_pages
  /\ answer.pages = [i \in 1..Len(answer.pages) |-> i - 1]
  /\ answer.processed \in {-1, Len(answer.pages)}
  /\ answer.document \in {-1, request.size}

(* What the extractor's seam accepts: ordered pages, each of its own index.   *)
ExtractionResultHolds(result) ==
  /\ result.pages # <<>>
  /\ \A i, j \in DOMAIN result.pages : i < j => result.pages[i] < result.pages[j]

Refusal(code, sent) == [code |-> code, sent |-> sent, asked |-> 0]

Extract(settings, request, answer, card) ==
  LET authorized == Authorize(settings, request.classification)
      resolved == ResolveConcreteModel(settings, answer.model, card)
      asked == IF answer.model = Latest /\ ModelMatchesRequest(settings, Latest) THEN 1 ELSE 0
  IN CASE authorized # "granted" -> Refusal(authorized, 0)
       [] authorized = "granted" /\ ~InputHolds(settings, request) -> Refusal("input_invalid", 0)
       [] OTHER ->
            IF Received(answer, settings) # "ok" THEN Refusal(Received(answer, settings), 1)
            ELSE IF resolved.code # "ok" THEN [code |-> resolved.code, sent |-> 1, asked |-> asked]
            ELSE IF ~ResponseHolds(settings, request, [answer EXCEPT !.model = resolved.model])
              THEN [code |-> "response_invalid", sent |-> 1, asked |-> asked]
            ELSE [code |-> "ok", sent |-> 1, asked |-> asked, model |-> resolved.model,
                  pages |-> answer.pages]
=============================================================================

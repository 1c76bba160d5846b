------------------------------- MODULE Identity -------------------------------
(* Clustering of identity signals into candidate entities, and the ledger of  *)
(* human links between them: ingestion/identity.py.  A signal has a kind, a   *)
(* normalised value, the record it came from and that record's category.      *)
EXTENDS Integers, Sequences, SequencesExt, FiniteSetsExt

StrongKinds == {"handle", "profile_url", "external_id", "email"}

(* The groups of a partition that meet a set become one.                      *)
Joined(partition, members) ==
  LET touched == {c \in partition : c \cap members # {}}
  IN (partition \ touched) \cup {UNION touched}
JoinAll(partition, groups) == FoldSet(LAMBDA g, p : Joined(p, g), partition, groups)

StrongKeyAnyKindBug(s) == <<"strong", s.value>>

StrongKey(s) == IF s.kind \in StrongKinds THEN <<s.kind, s.value>> ELSE <<"none", s.ref>>

(* Signals of one record are one entity, and a strong identifier links        *)
(* records across sources.                                                    *)
StrongClusters(signals) ==
  LET D == DOMAIN signals
      Alike(Key(_)) == {{j \in D : Key(signals[j]) = Key(signals[i])} : i \in D}
      ByRef(s) == <<s.ref>>
  IN JoinAll({{i} : i \in D}, Alike(ByRef) \cup Alike(StrongKey))

CategoriesOf(signals, members) == {signals[i].category : i \in members}
RefsOf(signals, members) == {signals[i].ref : i \in members}

NameGroupsAnyCategoryBug(signals, clusters) ==
  LET Named(value) == {c \in clusters : \E i \in c : signals[i].kind = "name" /\ signals[i].value = value}
      groups == {Named(signals[i].value) : i \in {j \in DOMAIN signals : signals[j].kind = "name"}}
  IN {UNION g : g \in {h \in groups : Cardinality(h) >= 2}}

(* The signals of the clusters that share a display name, where the clusters  *)
(* together come from two categories of source or more.                       *)
NameGroups(signals, clusters) ==
  LET Named(value) == {c \in clusters : \E i \in c : signals[i].kind = "name" /\ signals[i].value = value}
      groups == {Named(signals[i].value) : i \in {j \in DOMAIN signals : signals[j].kind = "name"}}
  IN {UNION g : g \in {h \in groups : /\ Cardinality(h) >= 2
                                      /\ Cardinality(CategoriesOf(signals, UNION h)) >= 2}}

EntityReviewLostBug(signals, members, merged) ==
  IF Cardinality(RefsOf(signals, members)) >= 2
    THEN [members |-> members, status |-> "resolved", confidence |-> 80]
  ELSE [members |-> members, status |-> "resolved", confidence |-> 60]

(* A merge by name alone is only ever proposed for review.                    *)
Entity(signals, members, merged) ==
  CASE members \cap merged # {} ->
         [members |-> members, status |-> "needs_review", confidence |-> 40]
    [] members \cap merged = {} /\ Cardinality(RefsOf(signals, members)) >= 2 ->
         [members |-> members, status |-> "resolved",
          confidence |-> IF Cardinality(CategoriesOf(signals, members)) >= 2 THEN 90 ELSE 80]
    [] OTHER -> [members |-> members, status |-> "resolved", confidence |-> 60]

ResolveIdentities(signals) ==
  LET strong == StrongClusters(signals)
      groups == NameGroups(signals, strong)
  IN {Entity(signals, c, UNION groups) : c \in JoinAll(strong, groups)}

-----------------------------------------------------------------------------
(* The ledger is a sequence of approvals and reversals; an event's place in   *)
(* it is its identifier.                                                      *)
ActiveLinksByPairBug(events) ==
  {i \in DOMAIN events : /\ events[i].action = "approved"
                         /\ ~\E j \in DOMAIN events : /\ events[j].action = "reversed"
                                                      /\ events[j].pair = events[i].pair}

ActiveLinks(events) ==
  {i \in DOMAIN events : /\ events[i].action = "approved"
                         /\ ~\E j \in DOMAIN events : /\ events[j].action = "reversed"
                                                      /\ events[j].reverses = i}

CanApprove(events, pair, evidence) ==
  /\ Cardinality(pair) = 2
  /\ evidence # {}
  /\ \A i \in ActiveLinks(events) : events[i].pair # pair
Approve(events, pair, evidence) ==
  Append(events, [action |-> "approved", pair |-> pair, evidence |-> evidence, reverses |-> 0])

CanReverse(events, link) == link \in ActiveLinks(events)
ReverseLink(events, link) ==
  Append(events, [action |-> "reversed", pair |-> events[link].pair, evidence |-> {},
                  reverses |-> link])
=============================================================================

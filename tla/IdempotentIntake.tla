-------------------------- MODULE IdempotentIntake --------------------------
(***************************************************************************)
(* What intake promises its clients, with no keys table, no revisions, no  *)
(* files and no crashes: a request gets one application for ever; an       *)
(* answer names it only once its deck is held; a deck once held is held    *)
(* for ever; and the deck's extraction is settled at most once.            *)
(***************************************************************************)
CONSTANTS Keys, Requests, Applications, Results, None

VARIABLES
  owner,     \* the application of each request
  held,      \* the applications whose deck can be read
  answered,  \* answers given: <<key, request, application>>
  deck       \* the accepted extraction of each application

vars == <<owner, held, answered, deck>>

Init ==
  /\ owner = [f \in Requests |-> None]
  /\ held = {}
  /\ answered = {}
  /\ deck = [a \in Applications |-> None]

Assign(f, a) ==
  /\ owner[f] = None
  /\ \A g \in Requests : owner[g] # a
  /\ owner' = [owner EXCEPT ![f] = a]
  /\ UNCHANGED <<held, answered, deck>>

Hold(f) ==
  /\ owner[f] # None
  /\ held' = held \cup {owner[f]}
  /\ UNCHANGED <<owner, answered, deck>>

(* A key belongs to the first request it was answered for.                 *)
Answer(k, f) ==
  /\ owner[f] \in held
  /\ \A p \in answered : p[1] = k => p[2] = f
  /\ answered' = answered \cup {<<k, f, owner[f]>>}
  /\ UNCHANGED <<owner, held, deck>>

Settle(a, r) ==
  /\ a \in held /\ deck[a] = None
  /\ deck' = [deck EXCEPT ![a] = r]
  /\ UNCHANGED <<owner, held, answered>>

Next ==
  \/ \E f \in Requests : \/ \E a \in Applications : Assign(f, a)
                         \/ Hold(f)
                         \/ \E k \in Keys : Answer(k, f)
  \/ \E a \in Applications, r \in Results : Settle(a, r)

Spec == Init /\ [][Next]_vars
=============================================================================

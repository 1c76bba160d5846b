------------------------------ MODULE RateLimiter ------------------------------
(* Throttling of the public routes: api/security.py.  Each bucket of a client *)
(* keeps the times at which it was admitted.  The handlers run on one event   *)
(* loop and check() awaits nothing, so a check is one step.  Time passes in   *)
(* halves of a second; Retry-After is in whole seconds.                       *)
EXTENDS Integers, Sequences, SequencesExt, FiniteSetsExt

CONSTANTS Keys,      \* a bucket and a client
          Limit,     \* admissions in a window
          Window,    \* in halves of a second
          MaxTime    \* bound on the time of a behaviour

ASSUME LimiterAssumption ==
  /\ Limit \in Nat /\ Limit > 0
  /\ Window \in Nat /\ Window > 0

VARIABLES now, events,
          admitted,  \* history: the times of every admission, by key
          refused    \* history: the last refusal, by key

limiterVars == <<now, events, admitted, refused>>

Never == [at |-> -1, wait |-> 0]
LimiterInit ==
  /\ now = 0
  /\ events = [k \in Keys |-> <<>>]
  /\ admitted = [k \in Keys |-> <<>>]
  /\ refused = [k \in Keys |-> Never]

From(k, kept) == IF kept = {} THEN <<>> ELSE SubSeq(events[k], Min(kept), Len(events[k]))

RecentInclusiveBug(k) == From(k, {i \in DOMAIN events[k] : events[k][i] >= now - Window})

(* Events are dropped from the front up to the first one less than a window   *)
(* old; one exactly a window old is dropped.                                  *)
Recent(k) == From(k, {i \in DOMAIN events[k] : events[k][i] > now - Window})

RetryAfterFloorBug(recent) == Max({1, (recent[1] + Window - now) \div 2})

RetryAfter(recent) == Max({1, (recent[1] + Window - now + 1) \div 2})

AdmitRefusalsCountBug(k) ==
  /\ events' = [events EXCEPT ![k] = Append(Recent(k), now)]
  /\ IF Len(Recent(k)) >= Limit
     THEN /\ refused' = [refused EXCEPT ![k] = [at |-> now, wait |-> RetryAfter(Recent(k))]]
          /\ UNCHANGED admitted
     ELSE /\ admitted' = [admitted EXCEPT ![k] = Append(@, now)]
          /\ refused' = [refused EXCEPT ![k] = Never]

(* Only an admitted request is counted.                                       *)
Admit(k) ==
  \/ /\ Len(Recent(k)) >= Limit
     /\ refused' = [refused EXCEPT ![k] = [at |-> now, wait |-> RetryAfter(Recent(k))]]
     /\ events' = [events EXCEPT ![k] = Recent(k)]
     /\ UNCHANGED admitted
  \/ /\ Len(Recent(k)) < Limit
     /\ events' = [events EXCEPT ![k] = Append(Recent(k), now)]
     /\ admitted' = [admitted EXCEPT ![k] = Append(@, now)]
     /\ refused' = [refused EXCEPT ![k] = Never]

Check(k) == Admit(k) /\ UNCHANGED now

Tick == now < MaxTime /\ now' = now + 1 /\ UNCHANGED <<events, admitted, refused>>

LimiterNext == Tick \/ \E k \in Keys : Check(k)

-----------------------------------------------------------------------------
(* No window, wherever it starts, admits more than the limit; a refusal means *)
(* that the limit was reached within the window; whoever waits as long as     *)
(* told is admitted, and would not have been a second earlier; and a bucket   *)
(* never holds more than its limit.                                           *)
LimiterIsExact ==
  \A k \in Keys :
    LET past == admitted[k]
        Passed(t) == Cardinality({i \in DOMAIN past : past[i] > t - Window /\ past[i] <= t})
        refusal == refused[k]
        back == refusal.at + 2 * refusal.wait
    IN /\ \A i \in DOMAIN past : Passed(past[i]) <= Limit
       /\ Len(events[k]) <= Limit
       /\ refusal # Never => /\ Passed(refusal.at) = Limit
                             /\ Passed(back) < Limit
                             /\ refusal.wait = 1 \/ Passed(back - 2) = Limit
=============================================================================

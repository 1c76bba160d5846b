---------------------------- MODULE InboundGraph ----------------------------
(***************************************************************************)
(* One run of the bounded intelligence graph behind a live screening:      *)
(* BoundedInboundAnalysisGraph (inbound_graph.py).                         *)
(*                                                                         *)
(* Three reads are called side by side, their results are validated, then  *)
(* the memo is written.  Each stage calls a live provider, within one      *)
(* budget of calls and a timeout of its own, and falls back to the         *)
(* deterministic adapter when it may not call, gets no answer in time or   *)
(* an answer it cannot use.  The whole graph has a timeout too, after      *)
(* which every stage is the fallback's.                                    *)
(*                                                                         *)
(* Time is discrete and passes only while the event loop waits; a deadline *)
(* and an answer at the same instant may be seen in either order.          *)
(***************************************************************************)
EXTENDS Naturals, FiniteSets

CONSTANTS
  Limits,  \* the limits a graph may be configured with
  None     \* no outcome yet

(* The budget of live calls, the timeout of each and that of the graph.    *)
InboundGraphLimits ==
  {l \in [calls : 1..5, stage : Nat \ {0}, total : Nat] : l.total >= l.stage}

ASSUME LimitsAssumption == Limits \subseteq InboundGraphLimits

Reads  == {"market", "idea", "founder"}
Stages == Reads \cup {"adversarial", "memo"}

Fallbacks == {"call_budget_exhausted", "stage_timeout",
              "invalid_or_unavailable_live_output", "graph_timeout"}

ASSUME NoneAssumption == None \notin Fallbacks \cup {"live"}

VARIABLES
  limits, \* of this graph
  phase,  \* the graph: running, answered, failed or cancelled
  node,   \* progress of each stage
  audit,  \* its outcome: live, or why it fell back
  used,   \* calls claimed from the budget
  began,  \* when each stage's live call began
  now

vars == <<limits, phase, node, audit, used, began, now>>

TypeOK ==
  /\ limits \in Limits
  /\ phase \in {"running", "answered", "failed", "cancelled"}
  /\ node \in [Stages -> {"waiting", "calling", "ended"}]
  /\ audit \in [Stages -> Fallbacks \cup {"live", None}]
  /\ used \in 0..limits.calls
  /\ began \in [Stages -> 0..limits.total]
  /\ now \in 0..limits.total

Init ==
  /\ limits \in Limits
  /\ phase = "running"
  /\ node = [s \in Stages |-> "waiting"]
  /\ audit = [s \in Stages |-> None]
  /\ used = 0
  /\ began = [s \in Stages |-> 0]
  /\ now = 0

-----------------------------------------------------------------------------
PredecessorsEagerBug(s) == IF s = "memo" THEN {"adversarial"} ELSE {}

PredecessorsChainBug(s) ==
  CASE s = "memo"        -> {"adversarial"}
    [] s = "adversarial" -> Reads
    [] s = "founder"     -> {"market"}
    [] OTHER             -> {}

(* The edges of the graph.                                                 *)
Predecessors(s) ==
  CASE s = "memo"        -> {"adversarial"}
    [] s = "adversarial" -> Reads
    [] OTHER             -> {}

Startable(s) ==
  /\ phase = "running" /\ node[s] = "waiting"
  /\ \A p \in Predecessors(s) : node[p] = "ended"

(* The deterministic adapter answers for the stage, or fails and with it   *)
(* the graph.                                                              *)
FallBack(s, code) ==
  \/ /\ node' = [node EXCEPT ![s] = "ended"]
     /\ audit' = [audit EXCEPT ![s] = code]
     /\ UNCHANGED phase
  \/ /\ phase' = "failed"
     /\ UNCHANGED <<node, audit>>

ClaimOffByOneBug(s) ==
  /\ Startable(s)
  /\ \/ /\ used <= limits.calls
        /\ used' = used + 1
        /\ began' = [began EXCEPT ![s] = now]
        /\ node' = [node EXCEPT ![s] = "calling"]
        /\ UNCHANGED <<phase, audit>>
     \/ /\ used > limits.calls
        /\ FallBack(s, "call_budget_exhausted")
        /\ UNCHANGED <<used, began>>
  /\ UNCHANGED <<limits, now>>

(* A stage whose predecessors have ended claims a call and makes it, or    *)
(* falls back when the budget is exhausted.                                *)
Claim(s) ==
  /\ Startable(s)
  /\ \/ /\ used < limits.calls
        /\ used' = used + 1
        /\ began' = [began EXCEPT ![s] = now]
        /\ node' = [node EXCEPT ![s] = "calling"]
        /\ UNCHANGED <<phase, audit>>
     \/ /\ used = limits.calls
        /\ FallBack(s, "call_budget_exhausted")
        /\ UNCHANGED <<used, began>>
  /\ UNCHANGED <<limits, now>>

Calling(s) == phase = "running" /\ node[s] = "calling"

(* The provider answers for this request.                                  *)
Answer(s) ==
  /\ Calling(s)
  /\ node' = [node EXCEPT ![s] = "ended"]
  /\ audit' = [audit EXCEPT ![s] = "live"]
  /\ UNCHANGED <<limits, phase, used, began, now>>

AnswerRefundsBug(s) ==
  /\ Calling(s)
  /\ FallBack(s, "invalid_or_unavailable_live_output")
  /\ used' = used - 1
  /\ UNCHANGED <<limits, began, now>>

(* It raises, or answers what does not describe the request.               *)
AnswerUnusably(s) ==
  /\ Calling(s)
  /\ FallBack(s, "invalid_or_unavailable_live_output")
  /\ UNCHANGED <<limits, used, began, now>>

Overdue(s) == Calling(s) /\ now >= began[s] + limits.stage

StageTimesOut(s) ==
  /\ Overdue(s)
  /\ FallBack(s, "stage_timeout")
  /\ UNCHANGED <<limits, used, began, now>>

AllEnded == \A s \in Stages : node[s] = "ended"

(* All results and audits are there: the graph answers.                    *)
Finish ==
  /\ phase = "running" /\ AllEnded
  /\ phase' = "answered"
  /\ UNCHANGED <<limits, node, audit, used, began, now>>

TimesOutMixedBug ==
  /\ phase = "running" /\ now >= limits.total
  /\ phase' = "answered"
  /\ audit' = [s \in Stages |-> IF audit[s] = None THEN "graph_timeout"
                                                   ELSE audit[s]]
  /\ UNCHANGED <<limits, node, used, began, now>>

TimesOutRetriesBug ==
  /\ phase = "running" /\ now >= limits.total
  /\ node' = [s \in Stages |-> "waiting"]
  /\ audit' = [s \in Stages |-> None]
  /\ used' = 0 /\ now' = 0
  /\ UNCHANGED <<limits, phase, began>>

(* The total timeout: what the stages have is dropped and the fallback     *)
(* answers for all of them, or fails.                                      *)
TimesOut ==
  /\ phase = "running" /\ now >= limits.total
  /\ \/ /\ phase' = "answered"
        /\ audit' = [s \in Stages |-> "graph_timeout"]
     \/ /\ phase' = "failed"
        /\ UNCHANGED audit
  /\ UNCHANGED <<limits, node, used, began, now>>

(* The task awaiting the graph is cancelled.                               *)
Cancel ==
  /\ phase = "running"
  /\ phase' = "cancelled"
  /\ UNCHANGED <<limits, node, audit, used, began, now>>

(* Time passes while the loop has nothing else to do.                      *)
Tick ==
  /\ phase = "running" /\ ~AllEnded
  /\ \A s \in Stages : ~Startable(s) /\ ~Overdue(s)
  /\ now < limits.total
  /\ now' = now + 1
  /\ UNCHANGED <<limits, phase, node, audit, used, began>>

Next ==
  \/ \E s \in Stages :
       \/ Claim(s)
       \/ Answer(s)
       \/ AnswerUnusably(s)
       \/ StageTimesOut(s)
  \/ Finish
  \/ TimesOut
  \/ Cancel
  \/ Tick

Spec == Init /\ [][Next]_vars

-----------------------------------------------------------------------------
(* Properties.                                                             *)

(* The budget counts the calls: one for every stage that was ever called,  *)
(* however the reads overlapped, and a stage is refused only when every    *)
(* call of the budget is spent.  They go where the result begins: a read   *)
(* is refused only when the budget cannot serve all the reads, the         *)
(* validation only when it cannot serve four stages.                       *)
BudgetCountsCalls ==
  LET called == {s \in Stages :
        \/ node[s] = "calling"
        \/ audit[s] \in {"live", "stage_timeout",
                         "invalid_or_unavailable_live_output"}} IN
  /\ TypeOK
  /\ phase # "answered" \/ audit["memo"] # "graph_timeout" =>
       /\ used = Cardinality(called)
       /\ \A s \in Stages : audit[s] = "call_budget_exhausted" =>
            /\ used = limits.calls
            /\ limits.calls < CASE s \in Reads -> 3 [] s = "adversarial" -> 4 [] OTHER -> 5

(* An answer is whole: every stage has its outcome, and what the total     *)
(* timeout answers mixes nothing the stages had with the fallback's.       *)
AnswerIsWhole ==
  phase = "answered" =>
    \/ \A s \in Stages : audit[s] = "graph_timeout"
    \/ \A s \in Stages : audit[s] \notin {None, "graph_timeout"}

(* When the graph has more time than three stages in a row, as with the    *)
(* default limits, it is never cut off: every stage keeps its own result.  *)
StageTimeoutsSuffice ==
  limits.total > 3 * limits.stage => \A s \in Stages : audit[s] # "graph_timeout"

-----------------------------------------------------------------------------
(* Liveness: the loop runs its handlers and time passes.  Nothing is       *)
(* assumed of the provider.                                                *)
Fairness ==
  /\ \A s \in Stages : WF_vars(Claim(s)) /\ WF_vars(StageTimesOut(s))
  /\ WF_vars(Finish) /\ WF_vars(TimesOut) /\ WF_vars(Tick)

FairSpec == Spec /\ Fairness

(* A run of the graph ends, though no provider ever answers.               *)
GraphEnds == <>(phase # "running")
=============================================================================

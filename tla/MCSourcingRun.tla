---------------------------- MODULE MCSourcingRun ----------------------------
(* SourcingRun with two searches that meet different bounds.               *)
EXTENDS SourcingRun

(* Two adapters a round, calls for two rounds and a half.                  *)
Web == [adapters |-> 2, results |-> 3, pages |-> 3, calls |-> 5,
        followUps |-> 3, hackathon |-> FALSE]

(* Three rounds, and pages that do not divide among them.                  *)
Hackathons == [adapters |-> 1, results |-> 5, pages |-> 5, calls |-> 9,
               followUps |-> 2, hackathon |-> TRUE]

MCSearches == {Web, Hackathons}
=============================================================================

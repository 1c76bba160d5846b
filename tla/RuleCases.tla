------------------------------- MODULE RuleCases -------------------------------
(* The program's pure rules are checked each on every input of a bounded      *)
(* family: one step picks a case, and the invariants relate the rule's        *)
(* answers on it and on its neighbours.                                       *)
VARIABLE case

Init == case = [kind |-> "none"]
Fresh == case.kind = "none"
Pick(c) == case' = c
=============================================================================

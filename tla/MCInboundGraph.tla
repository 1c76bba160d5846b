--------------------------- MODULE MCInboundGraph ---------------------------
(* InboundGraph with limits that cut it off and limits that do not.        *)
EXTENDS InboundGraph

(* A budget for the reads only, and no more time than one stage.           *)
Tight == [calls |-> 3, stage |-> 2, total |-> 2]

(* Calls for every stage, and more time than three stages in a row, as the *)
(* default settings have it.                                               *)
Ample == [calls |-> 5, stage |-> 2, total |-> 7]

MCLimits == {Tight, Ample}
=============================================================================

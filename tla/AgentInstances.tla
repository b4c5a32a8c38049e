--------------------------- MODULE AgentInstances ---------------------------
(* Quotes of the two protocols for the small instances: with a weight for    *)
(* each factor, adapter 0 is good, or loses deposits; adapter 1 is better,   *)
(* or poor.                                                                  *)

EXTENDS Integers, TLC

Good == [apy |-> 2, utilization |-> 1, tvlDelta |-> 1]
Leaving == [apy |-> 2, utilization |-> 1, tvlDelta |-> -2]
Better == [apy |-> 4, utilization |-> 1, tvlDelta |-> 0]
Poor == [apy |-> 1, utilization |-> 2, tvlDelta |-> 0]

\* Either adapter may come out ahead.
EitherAhead == 0 :> {Good, Leaving} @@ 1 :> {Better, Poor}

\* Adapter 0 stays ahead.
FirstAhead == 0 :> {Good} @@ 1 :> {Poor}
=============================================================================

------------------------------ MODULE ChainHead ------------------------------
(* The height of the chain, as the agent's programs see it at their node. *)
EXTENDS Integers

CONSTANT MaxBlock        \* bound of the height

ASSUME ChainAssumption == MaxBlock \in Nat \ {0}

VARIABLE head

newBlock == head < MaxBlock /\ head' = head + 1
=============================================================================

--------------------------- MODULE MCPerBlockLoop ---------------------------
(* The per-block loop on a short chain.  The labels are interchangeable. *)
EXTENDS LoopClaims, TLC

AnyLabels == Permutations(Protocols)
=============================================================================

------------------------------ MODULE MCAIVault ------------------------------
(* AIVault and the claims about it, on the small instances. *)
EXTENDS VaultClaims, VaultInstances
=============================================================================

-------------------------- MODULE MCVaultRefinement --------------------------
(* The vault with its view, on the small instances. *)
EXTENDS VaultRefinement, VaultInstances
=============================================================================

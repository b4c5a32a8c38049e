----------------------------- MODULE MCFeeAudit -----------------------------
(* The fee audit on the small instances. *)
EXTENDS FeeAudit, VaultInstances
=============================================================================

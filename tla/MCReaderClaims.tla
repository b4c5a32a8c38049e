---------------------------- MODULE MCReaderClaims ----------------------------
(* Two readers with read_at_block, and requests that are prompt or slow. *)
EXTENDS ReaderClaims, ServiceInstances
=============================================================================

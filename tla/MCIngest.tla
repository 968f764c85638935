------------------------------ MODULE MCIngest ------------------------------
(* The ingest process with one allowlist that admits everything. *)
EXTENDS Ingest

MCOpen == <<Data>>
=============================================================================

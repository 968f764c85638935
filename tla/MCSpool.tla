------------------------------ MODULE MCSpool -------------------------------
(* The module of the runs of Spool: its constants are numbers and sets of  *)
(* strings, given in each cfg.                                             *)
EXTENDS Spool
=============================================================================

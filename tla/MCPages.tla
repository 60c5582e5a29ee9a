------------------------------ MODULE MCPages ------------------------------
(* Pages for TLC: its constants are numbers, which the configuration gives.  *)
EXTENDS Pages
=============================================================================

----------------------------- MODULE MCActivity -----------------------------
(* Activity for TLC: its constants are numbers, which the configuration gives. *)
EXTENDS Activity
=============================================================================

----------------------------- MODULE MCAccounts -----------------------------
(***************************************************************************)
(* Instances of Accounts for TLC: two persons and two requests.            *)
(***************************************************************************)
EXTENDS Accounts

CONSTANTS a, b, r1, r2
=============================================================================

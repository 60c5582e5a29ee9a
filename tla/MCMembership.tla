---------------------------- MODULE MCMembership ----------------------------
(***************************************************************************)
(* Instances of Membership for TLC: the owner, one other person and two    *)
(* requests.                                                               *)
(***************************************************************************)
EXTENDS Membership

CONSTANTS o, a, r1, r2
=============================================================================

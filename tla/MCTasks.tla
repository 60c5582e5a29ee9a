------------------------------- MODULE MCTasks -------------------------------
(***************************************************************************)
(* Instances of Tasks for TLC: one project, one task, one user who is or   *)
(* is not a member, two requests.                                          *)
(***************************************************************************)
EXTENDS Tasks

CONSTANTS p1, t1, u1, r1, r2
=============================================================================

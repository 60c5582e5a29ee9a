------------------------------ MODULE MCBilling ------------------------------
(***************************************************************************)
(* Instances of Billing for TLC: two possible subscriptions of one         *)
(* workspace, or one subscription in each of two.                          *)
(***************************************************************************)
EXTENDS Billing, TLC

CONSTANTS s1, s2, w1, w2, h1, h2, r1

SameWorkspace == s1 :> w1 @@ s2 :> w1
TwoWorkspaces == s1 :> w1 @@ s2 :> w2
HandlerSymmetry == Permutations({h1, h2})
OneSub == s1 :> w1
=============================================================================

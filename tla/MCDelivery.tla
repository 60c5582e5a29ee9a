----------------------------- MODULE MCDelivery -----------------------------
(***************************************************************************)
(* Instances of Delivery for TLC: two endpoints, two deliveries, one       *)
(* request at a time and one run at a time.                                *)
(***************************************************************************)
EXTENDS Delivery, TLC

CONSTANTS e1, e2, d1, d2, r1, x1

\* Ids are interchangeable, and delivery.cfg checks no liveness.
IdSymmetry == Permutations({e1, e2}) \cup Permutations({d1, d2})
=============================================================================

------------------------------ MODULE Courier ------------------------------
(***************************************************************************)
(* What outbound webhooks promise a customer of each delivery, with no     *)
(* request, job, run or table in sight: the decision to call is taken      *)
(* while the endpoint exists, a call is not repeated without need nor      *)
(* without end, an outcome is true, and it is final unless a run was lost. *)
(* Delivery implements this specification.                                 *)
(***************************************************************************)
EXTENDS Naturals

CONSTANTS Deliveries, Attempts

VARIABLES
  outcome,    \* what the history says of each delivery
  going,      \* the deliveries whose call has been decided and not been made
  calls,      \* the calls the endpoint received
  accepted,   \* the deliveries that their endpoint answered with success
  lost        \* how often the run of a delivery died under it

couVars == <<outcome, going, calls, accepted, lost>>

Listed == {"PENDING", "SUCCESS", "FAILED"}

\* Only a lost run makes it necessary to do again what was settled.
Unsettled(d) == outcome[d] \in Listed /\ (lost[d] = 0 => outcome[d] = "PENDING")

CouInit ==
  /\ outcome = [d \in Deliveries |-> "NONE"]
  /\ going = {}
  /\ calls = [d \in Deliveries |-> 0]
  /\ accepted = {}
  /\ lost = [d \in Deliveries |-> 0]

Announce(d) ==
  /\ outcome[d] = "NONE"
  /\ outcome' = [outcome EXCEPT ![d] = "PENDING"]
  /\ UNCHANGED <<going, calls, accepted, lost>>

Decide(d) ==
  /\ d \notin going /\ Unsettled(d)
  /\ lost[d] < 2 /\ calls[d] < Attempts + lost[d]
  /\ going' = going \cup {d}
  /\ UNCHANGED <<outcome, calls, accepted, lost>>

\* The endpoint may have been deleted since.
Call(d) ==
  /\ d \in going
  /\ going' = going \ {d}
  /\ calls' = [calls EXCEPT ![d] = @ + 1]
  /\ accepted' \in {accepted, accepted \cup {d}}
  /\ UNCHANGED <<outcome, lost>>

Settle(d, result) ==
  /\ d \notin going /\ Unsettled(d)
  /\ outcome' = [outcome EXCEPT ![d] = result]
  /\ UNCHANGED <<going, calls, accepted, lost>>

Succeed(d) == d \in accepted /\ Settle(d, "SUCCESS")
GiveUp(d) == calls[d] > 0 /\ Settle(d, "FAILED")

\* The deliveries of a deleted endpoint go with it.
Withdraw(D) ==
  /\ \A d \in D : outcome[d] \in Listed
  /\ outcome' = [d \in Deliveries |-> IF d \in D THEN "GONE" ELSE outcome[d]]
  /\ UNCHANGED <<going, calls, accepted, lost>>

Lose(D) ==
  /\ \A d \in D : outcome[d] # "NONE" /\ lost[d] < 2
  /\ going' = going \ D
  /\ lost' = [d \in Deliveries |-> IF d \in D THEN lost[d] + 1 ELSE lost[d]]
  /\ UNCHANGED <<outcome, calls, accepted>>

CouNext ==
  \/ \E d \in Deliveries : Announce(d) \/ Decide(d) \/ Call(d) \/ Succeed(d) \/ GiveUp(d)
  \/ \E D \in SUBSET Deliveries : Withdraw(D) \/ Lose(D)

CouSpec == CouInit /\ [][CouNext]_couVars
=============================================================================

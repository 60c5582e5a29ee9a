----------------------------- MODULE Entitlement -----------------------------
(***************************************************************************)
(* What billing promises of a workspace's plan, with no handler, event or  *)
(* table in sight: a workspace becomes PRO only when a subscription of its *)
(* has been bought, and stops being PRO only when one of its bought        *)
(* subscriptions has lapsed.  Billing implements this specification.       *)
(***************************************************************************)
CONSTANTS Workspaces, Subs, WorkspaceOf

VARIABLES
  plan,     \* the plan of each workspace
  bought,   \* the subscriptions that were paid for
  lapsed    \* those that were once past due, unpaid or canceled

entVars == <<plan, bought, lapsed>>

EntInit ==
  /\ plan = [w \in Workspaces |-> "FREE"]
  /\ bought = {}
  /\ lapsed = {}

Buy(s) ==
  /\ s \notin bought
  /\ bought' = bought \cup {s}
  /\ UNCHANGED <<plan, lapsed>>

Lapse(s) ==
  /\ s \in bought \ lapsed
  /\ lapsed' = lapsed \cup {s}
  /\ UNCHANGED <<plan, bought>>

Enable(w) ==
  /\ \E s \in bought : WorkspaceOf[s] = w
  /\ plan' = [plan EXCEPT ![w] = "PRO"]
  /\ UNCHANGED <<bought, lapsed>>

Disable(w) ==
  /\ \E s \in lapsed : WorkspaceOf[s] = w
  /\ plan' = [plan EXCEPT ![w] = "FREE"]
  /\ UNCHANGED <<bought, lapsed>>

EntNext ==
  \/ \E s \in Subs : Buy(s) \/ Lapse(s)
  \/ \E w \in Workspaces : Enable(w) \/ Disable(w)

EntSpec == EntInit /\ [][EntNext]_entVars
=============================================================================

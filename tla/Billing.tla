------------------------------- MODULE Billing -------------------------------
(***************************************************************************)
(* The Stripe side of a workspace: the webhook endpoint of the API process *)
(* (billing.service.ts, billing.repository.ts), the owner's checkout and   *)
(* cancel requests, and the nightly reconciliation of the worker process   *)
(* (job/processer/reconcile.ts).                                           *)
(*                                                                         *)
(* No handler runs in a database transaction, so a handler is a process    *)
(* and every awaited call of it is one action.  Stripe is the environment: *)
(* it sells subscriptions, changes their status and emits events, which it *)
(* delivers at least once, in any order, until it is answered 200.         *)
(***************************************************************************)
EXTENDS Naturals, Sequences

CONSTANTS
  Workspaces,
  Subs,             \* Stripe subscriptions that may come to exist
  None,             \* neither a subscription nor a workspace
  WorkspaceOf,      \* metadata.workspaceId of each one's checkout session
  Handlers,         \* webhook (and replay) requests the API process serves at once
  Requests,         \* checkout and cancel requests it serves at once
  OpenSessions,     \* subscriptions whose checkout session is open initially
  StripeStatuses,   \* the statuses, other than canceled, a subscription may have
  Notices,          \* the event types without a status change that Stripe sends
  ReplayWired,      \* whether the route of replyWebhookEvent passes it an :eventId
  MaxEvents,        \* bound: events Stripe emits
  MaxFaults,        \* bound: awaited calls that fail
  MaxCrashes        \* bound: crashes of the API process and of the worker

ASSUME BillingAssumption ==
  /\ WorkspaceOf \in [Subs -> Workspaces]
  /\ None \notin Subs \cup Workspaces
  /\ OpenSessions \subseteq Subs
  /\ StripeStatuses \subseteq {"active", "trialing", "past_due", "unpaid", "paused"}
  /\ "active" \in StripeStatuses
  /\ Notices \subseteq {"invoice.paid", "other"}
  /\ ReplayWired \in BOOLEAN
  /\ MaxEvents \in Nat
  /\ MaxFaults \in Nat
  /\ MaxCrashes \in Nat

VARIABLES
  stripe,    \* Stripe's own record of each subscription
  events,    \* the events Stripe has emitted, in order; an event's id is its index
  acked,     \* the events Stripe was answered 200 for
  row,       \* table Subscription, by stripeSubscriptionId; NONE is no row
  plan,      \* Workspace.plan; the limits and webhooksEnabled are always written with it
  customer,  \* whether Workspace.stripeCustomerId is set
  hook,      \* StripeWebhookEvent.status, by stripeEventId; NONE is no row
  hd,        \* the webhook handlers: program counter, event and error kind
  rq,        \* the checkout and cancel requests
  rec,       \* the reconciliation job
  faults,    \* failed calls so far
  crashes    \* crashes so far

dbVars == <<row, plan, customer, hook>>
stripeVars == <<stripe, events, acked>>
procVars == <<hd, rq, rec>>
envVars == <<faults, crashes>>
vars == <<stripeVars, dbVars, procVars, envVars>>

-----------------------------------------------------------------------------
(* Data.  A definition directly above the one it resembles is a deliberately *)
(* broken variant of it, which the properties are shown to reject.          *)

SubscriptionStatus == {"ACTIVE", "PAST_DUE", "CANCELLED", "EXPIRED", "TRIALING"}

Event ==
  [type: {"checkout.session.completed", "customer.subscription.updated",
          "customer.subscription.deleted", "invoice.paid", "other"},
   sub: Subs,
   status: StripeStatuses \cup {"canceled"},
   cancelAt: BOOLEAN,
   created: Nat]

EventIds == 1..MaxEvents

NoRow == [status |-> "NONE", cancelAt |-> FALSE, last |-> 0]
NoWork == [pc |-> "idle", ev |-> 0, kind |-> "unknown", replay |-> FALSE]
NoCall == [pc |-> "idle", ws |-> None, sub |-> None, pro |-> FALSE, known |-> FALSE]
NoJob == [pc |-> "idle", todo |-> {}, sub |-> None, seen |-> "active", cancelAt |-> FALSE]

StatusMapUnpaidCancelled ==
  [trialing |-> "TRIALING", active |-> "ACTIVE", past_due |-> "PAST_DUE",
   canceled |-> "CANCELLED", unpaid |-> "CANCELLED"]
\* Stripe's status as the local one.  The webhook handler and the job share the
\* five entries; they differ on a status the table lacks.
StatusMap ==
  [trialing |-> "TRIALING", active |-> "ACTIVE", past_due |-> "PAST_DUE",
   canceled |-> "CANCELLED", unpaid |-> "EXPIRED"]

\* handleSubscriptionUpdate: undefined in an update leaves the column as it is.
NewStatus(st, old) == IF st \in DOMAIN StatusMap THEN StatusMap[st] ELSE old

\* mapStripeStatus of the job: ACTIVE by default.
MapStripeStatus(st) == IF st \in DOMAIN StatusMap THEN StatusMap[st] ELSE "ACTIVE"

HasRow(s) == row[s].status # "NONE"

\* The subscription statuses that take the PRO limits away.
Lapsing(st) == st \in {"past_due", "canceled", "unpaid"}

-----------------------------------------------------------------------------
(* Stripe. *)

LastCreated == IF events = <<>> THEN 1 ELSE events[Len(events)].created

\* Event.created counts seconds: two events may carry the same one.
Emit(type, s, st, ca) ==
  /\ Len(events) < MaxEvents
  /\ \E t \in {LastCreated, LastCreated + 1} :
       events' = Append(events, [type |-> type, sub |-> s, status |-> st,
                                 cancelAt |-> ca, created |-> t])

Alive(s) == stripe[s].status \in StripeStatuses

\* The owner pays in the open checkout session.
Pay(s) ==
  /\ stripe[s].status = "session"
  /\ stripe' = [stripe EXCEPT ![s].status = "active"]
  /\ Emit("checkout.session.completed", s, "active", FALSE)
  /\ UNCHANGED <<acked, dbVars, procVars, envVars>>

\* A payment fails, is recovered, collection is paused, ...
ChangeStatus(s, st) ==
  /\ Alive(s) /\ st # stripe[s].status
  /\ stripe' = [stripe EXCEPT ![s].status = st]
  /\ Emit("customer.subscription.updated", s, st, stripe[s].cancelAt)
  /\ UNCHANGED <<acked, dbVars, procVars, envVars>>

\* Cancelled at once, after the last failed retry, or at the period's end.
EndSubscription(s) ==
  /\ Alive(s)
  /\ stripe' = [stripe EXCEPT ![s].status = "canceled"]
  /\ Emit("customer.subscription.deleted", s, "canceled", stripe[s].cancelAt)
  /\ UNCHANGED <<acked, dbVars, procVars, envVars>>

\* An invoice is paid, or an event the switch of processStripeEvent has no case for.
Notify(s, type) ==
  /\ stripe[s].status = "active"
  /\ Emit(type, s, "active", stripe[s].cancelAt)
  /\ UNCHANGED <<stripe, acked, dbVars, procVars, envVars>>

Stripe ==
  \E s \in Subs :
    \/ Pay(s)
    \/ EndSubscription(s)
    \/ \E st \in StripeStatuses : ChangeStatus(s, st)
    \/ \E type \in Notices : Notify(s, type)

-----------------------------------------------------------------------------
(* The webhook handler: handleWebhook, processStripeEvent and what it calls. *)

Now(h) == events[hd[h].ev]
At(h, pc) == hd[h].pc = pc
Goto(h, pc) == hd' = [hd EXCEPT ![h].pc = pc]

\* Leaving processStripeEvent: by return, which answers 200, or by throw, which
\* answers 500.  A replay goes on in replyWebhookEvent either way.
Return(h) ==
  IF hd[h].replay
    THEN Goto(h, "replayed") /\ UNCHANGED acked
    ELSE hd' = [hd EXCEPT ![h] = NoWork] /\ acked' = acked \cup {hd[h].ev}

ThrowAnswering200(h) ==
  IF hd[h].replay
    THEN Goto(h, "replayFailed") /\ UNCHANGED acked
    ELSE hd' = [hd EXCEPT ![h] = NoWork] /\ acked' = acked \cup {hd[h].ev}
Throw(h) ==
  /\ hd' = [hd EXCEPT ![h] = IF hd[h].replay THEN [@ EXCEPT !.pc = "replayFailed"]
                                              ELSE NoWork]
  /\ UNCHANGED acked

\* The catch block: the error's kind decides what is answered once FAILED is stored.
Catch(h, kind) == hd' = [hd EXCEPT ![h].pc = "markFailed", ![h].kind = kind]

Handle(h, i, replay) ==
  hd' = [hd EXCEPT ![h] = [pc |-> "find", ev |-> i, kind |-> "unknown", replay |-> replay]]

\* Stripe delivers an event; redelivery and duplicates are deliveries too.
Deliver(h, i) ==
  /\ At(h, "idle") /\ i \in DOMAIN events
  /\ Handle(h, i, FALSE)
  /\ UNCHANGED <<stripeVars, dbVars, rq, rec, envVars>>

\* replyWebhookEvent finds the record and that it is not PROCESSED.
Replay(h, i) ==
  /\ ReplayWired
  /\ At(h, "idle") /\ hook[i] \in {"PROCESSING", "FAILED"}
  /\ Handle(h, i, TRUE)
  /\ UNCHANGED <<stripeVars, dbVars, rq, rec, envVars>>

FirstCallUpgradeOnly(type) ==
  CASE type = "checkout.session.completed" -> "upgrade"
    [] type = "customer.subscription.updated" -> "findSub"
    [] type = "customer.subscription.deleted" -> "syncSub"
    [] type = "invoice.paid" -> "invoice"
    [] OTHER -> "markProcessed"
\* The first awaited call of the event's handler.
FirstCall(type) ==
  CASE type = "checkout.session.completed" -> "createSub"
    [] type = "customer.subscription.updated" -> "findSub"
    [] type = "customer.subscription.deleted" -> "syncSub"
    [] type = "invoice.paid" -> "invoice"
    [] OTHER -> "markProcessed"

FindEventAnyStatus(h) ==
  /\ At(h, "find")
  /\ Goto(h, IF hook[hd[h].ev] = "NONE" THEN "create" ELSE FirstCall(Now(h).type))
  /\ UNCHANGED <<stripeVars, dbVars, rq, rec, envVars>>
\* findWebhookEventById, and incrementWebhookAttempts, which writes only a counter
\* that nothing reads.
FindEvent(h) ==
  /\ At(h, "find")
  /\ \/ hook[hd[h].ev] = "PROCESSED" /\ Return(h)
     \/ hook[hd[h].ev] = "NONE" /\ Goto(h, "create") /\ UNCHANGED acked
     \/ /\ hook[hd[h].ev] \in {"PROCESSING", "FAILED"}
        /\ Goto(h, FirstCall(Now(h).type)) /\ UNCHANGED acked
  /\ UNCHANGED <<stripe, events, dbVars, rq, rec, envVars>>

\* createWehbookEvent: stripeEventId is unique, and the error leaves before the try.
CreateEvent(h) ==
  /\ At(h, "create")
  /\ \/ /\ hook[hd[h].ev] = "NONE"
        /\ hook' = [hook EXCEPT ![hd[h].ev] = "PROCESSING"]
        /\ Goto(h, FirstCall(Now(h).type)) /\ UNCHANGED acked
     \/ hook[hd[h].ev] # "NONE" /\ Throw(h) /\ UNCHANGED hook
  /\ UNCHANGED <<stripe, events, row, plan, customer, rq, rec, envVars>>

\* handleCheckOutCompleted: retrieve returns what the row copies of Stripe.
\* Both workspaceId and stripeSubscriptionId are unique.
Taken(s) == \E t \in Subs : HasRow(t) /\ WorkspaceOf[t] = WorkspaceOf[s]

CreateSubscription(h) ==
  LET s == Now(h).sub IN
  /\ At(h, "createSub")
  /\ \/ /\ ~Taken(s)
        /\ row' = [row EXCEPT ![s] = [NoRow EXCEPT !.status = "ACTIVE"]]
        /\ Goto(h, "upgrade")
     \/ Taken(s) /\ Catch(h, "unknown") /\ UNCHANGED row
  /\ UNCHANGED <<stripeVars, plan, customer, hook, rq, rec, envVars>>

Upgrade(h) ==
  /\ At(h, "upgrade")
  /\ plan' = [plan EXCEPT ![WorkspaceOf[Now(h).sub]] = "PRO"]
  /\ Goto(h, "markProcessed")
  /\ UNCHANGED <<stripeVars, row, customer, hook, rq, rec, envVars>>

\* handleSubscriptionUpdate.
FreshAlways(s, t) == HasRow(s)
Fresh(s, t) == HasRow(s) /\ (row[s].last = 0 \/ t > row[s].last)

FindSubscription(h) ==
  /\ At(h, "findSub")
  /\ Goto(h, IF Fresh(Now(h).sub, Now(h).created) THEN "updateSub" ELSE "markProcessed")
  /\ UNCHANGED <<stripeVars, dbVars, rq, rec, envVars>>

UpdateSubscription(h) ==
  LET e == Now(h) IN
  /\ At(h, "updateSub")
  /\ row' = [row EXCEPT ![e.sub] = [status |-> NewStatus(e.status, @.status),
                                    cancelAt |-> e.cancelAt, last |-> e.created]]
  /\ Goto(h, IF Lapsing(e.status) THEN "downgrade" ELSE "markProcessed")
  /\ UNCHANGED <<stripeVars, plan, customer, hook, rq, rec, envVars>>

Downgrade(h) ==
  /\ At(h, "downgrade")
  /\ plan' = [plan EXCEPT ![WorkspaceOf[Now(h).sub]] = "FREE"]
  /\ Goto(h, "markProcessed")
  /\ UNCHANGED <<stripeVars, row, customer, hook, rq, rec, envVars>>

SyncDeletedRemovingRow(h) ==
  LET s == Now(h).sub IN
  /\ At(h, "syncSub")
  /\ \/ /\ HasRow(s)
        /\ row' = [row EXCEPT ![s] = NoRow]
        /\ Goto(h, "downgrade")
     \/ ~HasRow(s) /\ Catch(h, "unknown") /\ UNCHANGED row
  /\ UNCHANGED <<stripeVars, plan, customer, hook, rq, rec, envVars>>
\* handleSubscriptionDeleted: syncFromStripe throws when there is no row; the read
\* that follows finds the row just written.
SyncDeleted(h) ==
  LET s == Now(h).sub IN
  /\ At(h, "syncSub")
  /\ \/ /\ HasRow(s)
        /\ row' = [row EXCEPT ![s].status = "CANCELLED"]
        /\ Goto(h, "downgrade")
     \/ ~HasRow(s) /\ Catch(h, "unknown") /\ UNCHANGED row
  /\ UNCHANGED <<stripeVars, plan, customer, hook, rq, rec, envVars>>

\* handleInvoicePaid: createBillingHistory passes an amount that the table lacks.
InvoicePaid(h) ==
  /\ At(h, "invoice")
  /\ IF HasRow(Now(h).sub) THEN Catch(h, "unknown") ELSE Goto(h, "markProcessed")
  /\ UNCHANGED <<stripeVars, dbVars, rq, rec, envVars>>

MarkProcessed(h) ==
  /\ At(h, "markProcessed")
  /\ hook' = [hook EXCEPT ![hd[h].ev] = "PROCESSED"]
  /\ Return(h)
  /\ UNCHANGED <<stripe, events, row, plan, customer, rq, rec, envVars>>

\* A transient error is thrown on; any other is logged, and the event answered 200.
MarkFailed(h) ==
  /\ At(h, "markFailed")
  /\ hook' = [hook EXCEPT ![hd[h].ev] = "FAILED"]
  /\ IF hd[h].kind = "transient" THEN Throw(h) ELSE Return(h)
  /\ UNCHANGED <<stripe, events, row, plan, customer, rq, rec, envVars>>

\* replyWebhookEvent stores the outcome it saw.
FinishReplay(h) ==
  /\ hd[h].pc \in {"replayed", "replayFailed"}
  /\ hook' = [hook EXCEPT ![hd[h].ev] = IF At(h, "replayed") THEN "PROCESSED" ELSE "FAILED"]
  /\ hd' = [hd EXCEPT ![h] = NoWork]
  /\ UNCHANGED <<stripeVars, row, plan, customer, rq, rec, envVars>>

\* An awaited call fails.  Before the try and in the catch the error leaves
\* processStripeEvent; inside the try it is caught and classified.
Fault(h) ==
  /\ faults < MaxFaults /\ faults' = faults + 1
  /\ \/ hd[h].pc \in {"find", "create", "markFailed"} /\ Throw(h)
     \/ /\ hd[h].pc \in {"createSub", "upgrade", "findSub", "updateSub",
                         "downgrade", "syncSub", "invoice", "markProcessed"}
        /\ \E kind \in {"transient", "unknown"} : Catch(h, kind)
        /\ UNCHANGED acked
     \/ At(h, "replayed") /\ Goto(h, "replayFailed") /\ UNCHANGED acked
     \/ At(h, "replayFailed") /\ hd' = [hd EXCEPT ![h] = NoWork] /\ UNCHANGED acked
  /\ UNCHANGED <<stripe, events, dbVars, rq, rec, crashes>>

HandlerStep(h) ==
  \/ FindEvent(h) \/ CreateEvent(h) \/ CreateSubscription(h) \/ Upgrade(h)
  \/ FindSubscription(h) \/ UpdateSubscription(h) \/ Downgrade(h)
  \/ SyncDeleted(h) \/ InvoicePaid(h)
  \/ MarkProcessed(h) \/ MarkFailed(h) \/ FinishReplay(h)
-----------------------------------------------------------------------------
(* The owner's requests: createCheckoutSession and cancelSubscription. *)

Active(w) == \E s \in Subs : WorkspaceOf[s] = w /\ row[s].status = "ACTIVE"

StartCheckout(r, w) ==
  /\ rq[r].pc = "idle"
  /\ rq' = [rq EXCEPT ![r] = [NoCall EXCEPT !.pc = "readSub", !.ws = w,
                                            !.pro = plan[w] = "PRO", !.known = customer[w]]]
  /\ UNCHANGED <<stripeVars, dbVars, hd, rec, envVars>>

ReadSubscription(r) ==
  /\ rq[r].pc = "readSub"
  /\ rq' = IF rq[r].pro /\ Active(rq[r].ws) THEN [rq EXCEPT ![r] = NoCall]
           ELSE [rq EXCEPT ![r].pc = IF rq[r].known THEN "session" ELSE "customer"]
  /\ UNCHANGED <<stripeVars, dbVars, hd, rec, envVars>>

CreateCustomer(r) ==
  /\ rq[r].pc = "customer"
  /\ customer' = [customer EXCEPT ![rq[r].ws] = TRUE]
  /\ rq' = [rq EXCEPT ![r].pc = "session"]
  /\ UNCHANGED <<stripeVars, row, plan, hook, hd, rec, envVars>>

\* A session beyond the bound on subscriptions is one that is never paid.
CreateSession(r) ==
  LET unused == {s \in Subs : WorkspaceOf[s] = rq[r].ws /\ stripe[s].status = "none"} IN
  /\ rq[r].pc = "session"
  /\ IF unused = {} THEN UNCHANGED stripe
     ELSE \E s \in unused : stripe' = [stripe EXCEPT ![s].status = "session"]
  /\ rq' = [rq EXCEPT ![r] = NoCall]
  /\ UNCHANGED <<events, acked, dbVars, hd, rec, envVars>>

StartCancel(r, s) ==
  /\ rq[r].pc = "idle" /\ HasRow(s)
  /\ rq' = [rq EXCEPT ![r] = [NoCall EXCEPT !.pc = "cancelStripe", !.sub = s]]
  /\ UNCHANGED <<stripeVars, dbVars, hd, rec, envVars>>

\* Stripe refuses to update a canceled subscription.
CancelStripe(r) ==
  LET s == rq[r].sub IN
  /\ rq[r].pc = "cancelStripe"
  /\ \/ /\ Alive(s)
        /\ stripe' = [stripe EXCEPT ![s].cancelAt = TRUE]
        /\ Emit("customer.subscription.updated", s, stripe[s].status, TRUE)
        /\ rq' = [rq EXCEPT ![r].pc = "cancelLocal"]
     \/ ~Alive(s) /\ rq' = [rq EXCEPT ![r] = NoCall] /\ UNCHANGED <<stripe, events>>
  /\ UNCHANGED <<acked, dbVars, hd, rec, envVars>>

CancelLocal(r) ==
  /\ rq[r].pc = "cancelLocal"
  /\ row' = [row EXCEPT ![rq[r].sub].cancelAt = TRUE]
  /\ rq' = [rq EXCEPT ![r] = NoCall]
  /\ UNCHANGED <<stripeVars, plan, customer, hook, hd, rec, envVars>>

RequestFault(r) ==
  /\ rq[r].pc # "idle"
  /\ faults < MaxFaults /\ faults' = faults + 1
  /\ rq' = [rq EXCEPT ![r] = NoCall]
  /\ UNCHANGED <<stripeVars, dbVars, hd, rec, crashes>>

RequestStep(r) ==
  \/ ReadSubscription(r) \/ CreateCustomer(r) \/ CreateSession(r)
  \/ CancelStripe(r) \/ CancelLocal(r)

-----------------------------------------------------------------------------
(* reconcileSubscriptions, one job at a time in the worker process. *)

ReconcilableOnlyActive == {"ACTIVE"}
Reconcilable == {"ACTIVE", "TRIALING", "PAST_DUE"}

NextRow == IF rec.todo = {} THEN NoJob ELSE [NoJob EXCEPT !.pc = "retrieve", !.todo = rec.todo]

StartJob ==
  /\ rec.pc = "idle"
  /\ \E s \in Subs : row[s].status \in Reconcilable
  /\ rec' = [NoJob EXCEPT !.pc = "retrieve",
                          !.todo = {s \in Subs : row[s].status \in Reconcilable}]
  /\ UNCHANGED <<stripeVars, dbVars, hd, rq, envVars>>

JobRetrieve(s) ==
  /\ rec.pc = "retrieve" /\ s \in rec.todo
  /\ rec' = [pc |-> "update", todo |-> rec.todo \ {s}, sub |-> s,
             seen |-> stripe[s].status, cancelAt |-> stripe[s].cancelAt]
  /\ UNCHANGED <<stripeVars, dbVars, hd, rq, envVars>>

JobUpdateThenDowngrade ==
  /\ rec.pc = "update"
  /\ row' = [row EXCEPT ![rec.sub] = [@ EXCEPT !.status = MapStripeStatus(rec.seen),
                                               !.cancelAt = rec.cancelAt]]
  /\ rec' = [rec EXCEPT !.pc = "downgrade"]
  /\ UNCHANGED <<stripeVars, plan, customer, hook, hd, rq, envVars>>
JobUpdateStatusOnly ==
  /\ rec.pc = "update"
  /\ row' = [row EXCEPT ![rec.sub].status = MapStripeStatus(rec.seen)]
  /\ rec' = IF MapStripeStatus(rec.seen) \in {"CANCELLED", "EXPIRED"}
              THEN [rec EXCEPT !.pc = "downgrade"] ELSE NextRow
  /\ UNCHANGED <<stripeVars, plan, customer, hook, hd, rq, envVars>>
JobUpdate ==
  /\ rec.pc = "update"
  /\ row' = [row EXCEPT ![rec.sub] = [@ EXCEPT !.status = MapStripeStatus(rec.seen),
                                               !.cancelAt = rec.cancelAt]]
  /\ rec' = IF MapStripeStatus(rec.seen) \in {"CANCELLED", "EXPIRED"}
              THEN [rec EXCEPT !.pc = "downgrade"] ELSE NextRow
  /\ UNCHANGED <<stripeVars, plan, customer, hook, hd, rq, envVars>>

JobDowngrade ==
  /\ rec.pc = "downgrade"
  /\ plan' = [plan EXCEPT ![WorkspaceOf[rec.sub]] = "FREE"]
  /\ rec' = NextRow
  /\ UNCHANGED <<stripeVars, row, customer, hook, hd, rq, envVars>>

\* The error of one subscription is logged and the job goes on to the next.
JobFault ==
  /\ faults < MaxFaults /\ faults' = faults + 1
  /\ \/ rec.pc \in {"update", "downgrade"} /\ rec' = NextRow
     \/ /\ rec.pc = "retrieve"
        /\ \E s \in rec.todo : rec' = IF rec.todo = {s} THEN NoJob
                                      ELSE [rec EXCEPT !.todo = @ \ {s}]
  /\ UNCHANGED <<stripeVars, dbVars, hd, rq, crashes>>

JobStep == StartJob \/ JobUpdate \/ JobDowngrade \/ \E s \in Subs : JobRetrieve(s)

-----------------------------------------------------------------------------
(* A crash loses what a process was doing and nothing that is stored. *)

CrashServer ==
  /\ crashes < MaxCrashes /\ crashes' = crashes + 1
  /\ \/ \E h \in Handlers : ~At(h, "idle")
     \/ \E r \in Requests : rq[r].pc # "idle"
  /\ hd' = [h \in Handlers |-> NoWork]
  /\ rq' = [r \in Requests |-> NoCall]
  /\ UNCHANGED <<stripeVars, dbVars, rec, faults>>

CrashWorker ==
  /\ crashes < MaxCrashes /\ crashes' = crashes + 1
  /\ rec.pc # "idle"
  /\ rec' = NoJob
  /\ UNCHANGED <<stripeVars, dbVars, hd, rq, faults>>

Init ==
  /\ stripe = [s \in Subs |-> [status |-> IF s \in OpenSessions THEN "session" ELSE "none",
                               cancelAt |-> FALSE]]
  /\ events = <<>> /\ acked = {}
  /\ row = [s \in Subs |-> NoRow]
  /\ plan = [w \in Workspaces |-> "FREE"]
  /\ customer = [w \in Workspaces |-> \E s \in OpenSessions : WorkspaceOf[s] = w]
  /\ hook = [i \in EventIds |-> "NONE"]
  /\ hd = [h \in Handlers |-> NoWork]
  /\ rq = [r \in Requests |-> NoCall]
  /\ rec = NoJob
  /\ faults = 0 /\ crashes = 0

Server ==
  \/ \E h \in Handlers :
       \/ HandlerStep(h) \/ Fault(h)
       \/ \E i \in EventIds : Deliver(h, i) \/ Replay(h, i)
  \/ \E r \in Requests :
       \/ RequestStep(r) \/ RequestFault(r)
       \/ \E w \in Workspaces : StartCheckout(r, w)
       \/ \E s \in Subs : StartCancel(r, s)

Worker == JobStep \/ JobFault

Next == Stripe \/ Server \/ Worker \/ CrashServer \/ CrashWorker

\* Stripe redelivers what was not answered 200: strong fairness, because a handler
\* slot that other deliveries keep busy is a bound of the model, not of the server.
\* Running code of either process goes on, and the job is scheduled every night.
Redeliver(i) == i \notin acked /\ \E h \in Handlers : Deliver(h, i)

Fairness ==
  /\ \A i \in EventIds : SF_vars(Redeliver(i))
  /\ \A h \in Handlers : WF_vars(HandlerStep(h))
  /\ \A r \in Requests : WF_vars(RequestStep(r))
  /\ WF_vars(JobStep)

Spec == Init /\ [][Next]_vars
FairSpec == Spec /\ Fairness

-----------------------------------------------------------------------------
(* Properties. *)

StripeSub == [status: StripeStatuses \cup {"none", "session", "canceled"}, cancelAt: BOOLEAN]
Row == [status: SubscriptionStatus \cup {"NONE"}, cancelAt: BOOLEAN, last: Nat]
HandlerPC ==
  {"idle", "find", "create", "createSub", "upgrade", "findSub", "updateSub", "downgrade",
   "syncSub", "invoice", "markProcessed", "markFailed", "replayed", "replayFailed"}
Work == [pc: HandlerPC, ev: EventIds \cup {0}, kind: {"transient", "unknown"}, replay: BOOLEAN]
Call ==
  {NoCall}
  \cup [pc: {"readSub", "customer", "session"}, ws: Workspaces, sub: {None},
        pro: BOOLEAN, known: BOOLEAN]
  \cup [pc: {"cancelStripe", "cancelLocal"}, ws: {None}, sub: Subs,
        pro: {FALSE}, known: {FALSE}]
Job ==
  [pc: {"idle", "retrieve", "update", "downgrade"}, todo: SUBSET Subs,
   sub: Subs \cup {None}, cancelAt: BOOLEAN,
   seen: StripeStatuses \cup {"none", "session", "canceled"}]

TypeOK ==
  /\ stripe \in [Subs -> StripeSub]
  /\ events \in Seq(Event)
  /\ Len(events) <= MaxEvents
  /\ acked \subseteq DOMAIN events
  /\ row \in [Subs -> Row]
  /\ plan \in [Workspaces -> {"FREE", "PRO"}]
  /\ customer \in [Workspaces -> BOOLEAN]
  /\ hook \in [EventIds -> {"NONE", "PROCESSING", "PROCESSED", "FAILED"}]
  /\ hd \in [Handlers -> Work]
  /\ rq \in [Requests -> Call]
  /\ rec \in Job
  /\ faults \in 0..MaxFaults
  /\ crashes \in 0..MaxCrashes

\* Stripe said at some time that s is past due, unpaid or canceled.
Lapsed(s) == \E i \in DOMAIN events : events[i].sub = s /\ Lapsing(events[i].status)

\* A PRO workspace has the Subscription row that cancel, reconciliation and later
\* events find it by: handleCheckOutCompleted stores the row before the plan, and no
\* crash, fault or concurrent handler separates a plan from a row.
ProHasSubscription ==
  \A w \in Workspaces :
    plan[w] = "PRO" => \E s \in Subs : HasRow(s) /\ WorkspaceOf[s] = w

\* A row says CANCELLED or EXPIRED only of a subscription that Stripe canceled, or
\* once reported unpaid: no stale read of the job and no event order invents an end.
EndIsGenuine ==
  \A s \in Subs :
    /\ row[s].status = "CANCELLED" => stripe[s].status = "canceled"
    /\ row[s].status = "EXPIRED" =>
         \E i \in DOMAIN events : events[i].sub = s /\ events[i].status = "unpaid"

\* A workspace loses PRO only when the very subscription on its row has lapsed at
\* Stripe, whichever of the webhook handlers or the job takes it away.
DowngradeJustified ==
  [][\A w \in Workspaces :
       plan[w] = "PRO" /\ plan'[w] = "FREE" =>
         \E s \in Subs : WorkspaceOf[s] = w /\ HasRow(s) /\ Lapsed(s)]_vars

\* Subscription.lastEventTimestamp never goes back, so that of two events the newer
\* one is what the row keeps (the check in handleSubscriptionUpdate).
TimestampsAdvance == [][\A s \in Subs : row'[s].last >= row[s].last]_vars

\* An event recorded as PROCESSED stays so: nothing runs it again and fails.
ProcessedIsFinal ==
  [][\A i \in EventIds : hook[i] = "PROCESSED" => hook'[i] = "PROCESSED"]_vars

\* Under which circumstances TimestampsAdvance holds: no two handlers are past the check of
\* one subscription's timestamp at once (billing.service.ts:247-253).
UpdatesApart ==
  \A h, k \in Handlers :
    h # k /\ At(h, "updateSub") /\ At(k, "updateSub") => Now(h).sub # Now(k).sub

\* Every event Stripe emits is in the end recorded as PROCESSED or FAILED, whatever
\* faults cut its first deliveries short.
EverySettled ==
  \A i \in EventIds :
    (i <= Len(events)) ~> [](hook[i] \in {"PROCESSED", "FAILED"})

\* The row of a canceled subscription in the end stays out of the live statuses, even
\* when the deleted event came too early or an older update overwrites it: the
\* nightly job re-examines every row in a live status.
DriftRepaired ==
  \A s \in Subs :
    (stripe[s].status = "canceled") ~> [](row[s].status \notin {"ACTIVE", "TRIALING", "PAST_DUE"})

\* A cancellation requested at Stripe stays on the row, or the row leaves the live
\* statuses, although the event may be taken for stale, the local write may fail and
\* the job may write back what it read before: a later night corrects it.
CancellationKept ==
  \A s \in Subs :
    stripe[s].cancelAt ~> [](row[s].cancelAt \/ row[s].status \in {"CANCELLED", "EXPIRED"})

\* The plan of every workspace follows Entitlement: handlers, faults, crashes and the
\* job only ever take its steps.
Bought == {s \in Subs : \E i \in DOMAIN events :
             events[i].sub = s /\ events[i].type = "checkout.session.completed"}
LapsedSubs == {s \in Subs : Lapsed(s)}

Ent == INSTANCE Entitlement WITH bought <- Bought, lapsed <- LapsedSubs
ImplementsEntitlement == Ent!EntSpec

-----------------------------------------------------------------------------
(* What the steps rely on, as an inductive invariant. *)

\* The log of events agrees with Stripe's records.
LogAgrees ==
  /\ \A i \in DOMAIN events :
       /\ events[i].type = "customer.subscription.deleted" => events[i].status = "canceled"
       /\ events[i].status = "canceled" => stripe[events[i].sub].status = "canceled"
  /\ \A s \in Subs :
       /\ stripe[s].status \in {"none", "session"} <=> s \notin Bought
       /\ Lapsing(stripe[s].status) =>
            \E i \in DOMAIN events : events[i].sub = s /\ events[i].status = stripe[s].status

\* A StripeWebhookEvent row is one of an event that Stripe did emit.
HookLogged == \A i \in EventIds : hook[i] # "NONE" => i \in DOMAIN events

\* What a handler's program counter says of its event and of the row.
HandlerFact(h) == ~At(h, "idle") =>
  /\ hd[h].ev \in DOMAIN events
  /\ hd[h].pc \in {"createSub", "upgrade"} => Now(h).type = "checkout.session.completed"
  /\ At(h, "syncSub") => Now(h).type = "customer.subscription.deleted"
  /\ hd[h].pc \in {"upgrade", "updateSub", "downgrade"} => HasRow(Now(h).sub)
  /\ At(h, "downgrade") => Lapsing(Now(h).status)
HandlerFacts == \A h \in Handlers : HandlerFact(h)

\* What the job read stays true of the log while it acts on it.
JobFacts ==
  /\ \A s \in rec.todo : HasRow(s)
  /\ rec.pc \in {"update", "downgrade"} =>
       /\ rec.sub \in Subs /\ HasRow(rec.sub)
       /\ rec.seen = "canceled" => stripe[rec.sub].status = "canceled"
       /\ Lapsing(rec.seen) =>
            \E i \in DOMAIN events : events[i].sub = rec.sub /\ events[i].status = rec.seen
  /\ rec.pc = "downgrade" => Lapsing(rec.seen)

\* The claims of handlers and job hold together, and with the properties above.
Consistent ==
  /\ TypeOK /\ LogAgrees /\ HookLogged /\ HandlerFacts /\ JobFacts
  /\ ProHasSubscription /\ EndIsGenuine

-----------------------------------------------------------------------------
(* Expectations of the documentation that the code does not meet. *)

AtRest ==
  /\ acked = DOMAIN events
  /\ \A h \in Handlers : At(h, "idle")
  /\ rec.pc = "idle"

\* README, "Full webhook handling with idempotency": once every event is answered
\* and nothing runs, a workspace whose subscription is paid for and never lapsed is PRO.
PaidIsPro ==
  AtRest => \A s \in Subs :
    stripe[s].status = "active" /\ ~Lapsed(s) => plan[WorkspaceOf[s]] = "PRO"
=============================================================================

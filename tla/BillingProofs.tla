---------------------------- MODULE BillingProofs ----------------------------
(***************************************************************************)
(* Proofs about Billing: the inductive invariant Consistent, and that the  *)
(* plan of every workspace follows Entitlement.                            *)
(***************************************************************************)
EXTENDS Billing, TLAPS

\* The two status tables are total onto the local statuses.
LEMMA StatusTables ==
  ASSUME NEW st \in StripeStatuses \cup {"none", "session", "canceled"},
         NEW old \in SubscriptionStatus \cup {"NONE"}
  PROVE  /\ NewStatus(st, old) \in SubscriptionStatus \cup {"NONE"}
         /\ old # "NONE" => NewStatus(st, old) # "NONE"
         /\ MapStripeStatus(st) \in SubscriptionStatus
         /\ MapStripeStatus(st) \in {"CANCELLED", "EXPIRED"} => Lapsing(st)
         /\ MapStripeStatus(st) = "CANCELLED" <=> st = "canceled"
         /\ MapStripeStatus(st) = "EXPIRED" <=> st = "unpaid"
         /\ NewStatus(st, old) = "CANCELLED" => st = "canceled" \/ old = "CANCELLED"
         /\ NewStatus(st, old) = "EXPIRED" => st = "unpaid" \/ old = "EXPIRED"
  BY BillingAssumption
  DEF BillingAssumption, NewStatus, MapStripeStatus, StatusMap, SubscriptionStatus, Lapsing

\* Stripe only ever appends to its log.
\* What an emission does to the log.
Appended(type, s, st) ==
  /\ events' \in Seq(Event)
  /\ Len(events') = Len(events) + 1
  /\ Len(events') <= MaxEvents
  /\ \A i \in DOMAIN events : i \in DOMAIN events' /\ events'[i] = events[i]
  /\ events'[Len(events')].type = type
  /\ events'[Len(events')].sub = s
  /\ events'[Len(events')].status = st

LEMMA EmitAppends ==
  ASSUME events \in Seq(Event), NEW type \in {"checkout.session.completed",
           "customer.subscription.updated", "customer.subscription.deleted",
           "invoice.paid", "other"},
         NEW s \in Subs, NEW st \in StripeStatuses \cup {"canceled"}, NEW ca \in BOOLEAN,
         Emit(type, s, st, ca)
  PROVE  Appended(type, s, st)
<1> USE DEF Appended
<1>1. LastCreated \in Nat
  <2>1. CASE events = <<>>
    BY <2>1 DEF LastCreated
  <2>2. CASE events # <<>>
    <3>1. Len(events) \in Nat /\ Len(events) # 0
      BY <2>2
    <3>2. events[Len(events)] \in Event
      BY <3>1
    <3> QED BY <2>2, <3>2 DEF LastCreated, Event
  <2> QED BY <2>1, <2>2
<1>2. PICK t \in {LastCreated, LastCreated + 1} :
        events' = Append(events, [type |-> type, sub |-> s, status |-> st,
                                  cancelAt |-> ca, created |-> t])
  BY DEF Emit
<1>3. [type |-> type, sub |-> s, status |-> st, cancelAt |-> ca, created |-> t] \in Event
  BY <1>1 DEF Event
<1>4. Len(events) < MaxEvents
  BY DEF Emit
<1> QED BY <1>2, <1>3, <1>4, BillingAssumption DEF BillingAssumption

-----------------------------------------------------------------------------
(* The records the processes work on keep their types. *)

LEMMA WorkUpdates ==
  ASSUME NEW r \in Work, NEW pc \in HandlerPC, NEW kind \in {"transient", "unknown"}
  PROVE  /\ [r EXCEPT !.pc = pc] \in Work
         /\ [r EXCEPT !.pc = pc].pc = pc
         /\ [r EXCEPT !.pc = pc].ev = r.ev
         /\ [r EXCEPT !.pc = pc].replay = r.replay
         /\ [r EXCEPT !.pc = "markFailed", !.kind = kind] \in Work
         /\ [r EXCEPT !.pc = "markFailed", !.kind = kind].pc = "markFailed"
         /\ [r EXCEPT !.pc = "markFailed", !.kind = kind].ev = r.ev
         /\ [r EXCEPT !.pc = "markFailed", !.kind = kind].replay = r.replay
  BY DEF Work, HandlerPC

LEMMA EmptyRecords ==
  /\ NoWork \in Work /\ NoWork.pc = "idle" /\ ~NoWork.replay
  /\ NoRow \in Row
  /\ [NoRow EXCEPT !.status = "ACTIVE"] \in Row
  /\ [NoRow EXCEPT !.status = "ACTIVE"].status = "ACTIVE"
  /\ NoCall \in Call /\ NoCall.pc = "idle"
  /\ NoJob \in Job /\ NoJob.pc = "idle" /\ NoJob.todo = {}
  BY BillingAssumption
  DEF BillingAssumption, NoWork, Work, HandlerPC, NoRow, Row, SubscriptionStatus,
      NoCall, Call, NoJob, Job

LEMMA GotoTyped ==
  ASSUME hd \in [Handlers -> Work], NEW h \in Handlers, NEW pc \in HandlerPC, Goto(h, pc)
  PROVE  /\ hd' \in [Handlers -> Work]
         /\ hd'[h].pc = pc /\ hd'[h].ev = hd[h].ev /\ hd'[h].replay = hd[h].replay
         /\ \A g \in Handlers \ {h} : hd'[g] = hd[g]
<1>1. hd' = [hd EXCEPT ![h] = [hd[h] EXCEPT !.pc = pc]]
  BY DEF Goto
<1> HIDE DEF Goto
<1> QED BY <1>1, WorkUpdates

LEMMA CatchTyped ==
  ASSUME hd \in [Handlers -> Work], NEW h \in Handlers, NEW kind \in {"transient", "unknown"},
         Catch(h, kind)
  PROVE  /\ hd' \in [Handlers -> Work]
         /\ hd'[h].pc = "markFailed" /\ hd'[h].ev = hd[h].ev
         /\ hd'[h].replay = hd[h].replay
         /\ \A g \in Handlers \ {h} : hd'[g] = hd[g]
<1>0. "markFailed" \in HandlerPC
  BY DEF HandlerPC
<1>1. hd' = [hd EXCEPT ![h] = [hd[h] EXCEPT !.pc = "markFailed", !.kind = kind]]
  BY DEF Catch
<1>2. hd[h] \in Work
  OBVIOUS
<1>3. /\ [hd[h] EXCEPT !.pc = "markFailed", !.kind = kind] \in Work
      /\ [hd[h] EXCEPT !.pc = "markFailed", !.kind = kind].pc = "markFailed"
      /\ [hd[h] EXCEPT !.pc = "markFailed", !.kind = kind].ev = hd[h].ev
      /\ [hd[h] EXCEPT !.pc = "markFailed", !.kind = kind].replay = hd[h].replay
  BY <1>0, <1>2, WorkUpdates
<1> QED BY <1>1, <1>3

\* However a handler leaves processStripeEvent, it is idle or finishing a replay.
LEMMA ReturnTyped ==
  ASSUME hd \in [Handlers -> Work], acked \subseteq DOMAIN events, NEW h \in Handlers,
         hd[h].ev \in DOMAIN events, Return(h) \/ Throw(h)
  PROVE  /\ hd' \in [Handlers -> Work]
         /\ acked' \subseteq DOMAIN events
         /\ hd'[h].pc \in {"idle", "replayed", "replayFailed"}
         /\ hd'[h].pc # "idle" => hd'[h].ev = hd[h].ev
         /\ \A g \in Handlers \ {h} : hd'[g] = hd[g]
<1>0. "replayed" \in HandlerPC /\ "replayFailed" \in HandlerPC /\ "idle" \in HandlerPC
  BY DEF HandlerPC
<1>1. \/ \E pc \in {"replayed", "replayFailed"} : hd' = [hd EXCEPT ![h] = [hd[h] EXCEPT !.pc = pc]]
      \/ hd' = [hd EXCEPT ![h] = NoWork]
  BY DEF Return, Throw, Goto
<1>2. acked' \subseteq DOMAIN events
  BY DEF Return, Throw
<1>3. CASE hd' = [hd EXCEPT ![h] = NoWork]
  BY <1>2, <1>3, EmptyRecords
<1>4. CASE \E pc \in {"replayed", "replayFailed"} : hd' = [hd EXCEPT ![h] = [hd[h] EXCEPT !.pc = pc]]
  <2>1. PICK pc \in {"replayed", "replayFailed"} :
          hd' = [hd EXCEPT ![h] = [hd[h] EXCEPT !.pc = pc]]
    BY <1>4
  <2>2. pc \in HandlerPC /\ hd[h] \in Work
    BY <1>0
  <2>3. /\ [hd[h] EXCEPT !.pc = pc] \in Work
        /\ [hd[h] EXCEPT !.pc = pc].pc = pc /\ [hd[h] EXCEPT !.pc = pc].ev = hd[h].ev
    BY <2>2, WorkUpdates
  <2> QED BY <1>2, <2>1, <2>3
<1> QED BY <1>1, <1>3, <1>4

LEMMA RowUpdates ==
  ASSUME NEW r \in Row
  PROVE  /\ \A st \in SubscriptionStatus :
              /\ [r EXCEPT !.status = st] \in Row
              /\ [r EXCEPT !.status = st].status = st
  BY DEF Row, SubscriptionStatus

-----------------------------------------------------------------------------
(* The steps of a webhook handler. *)

\* A handler writes the status of its own event only.
HookWritten(h) ==
  \/ hook' = hook
  \/ \E st \in {"PROCESSING", "PROCESSED", "FAILED"} : hook' = [hook EXCEPT ![hd[h].ev] = st]

\* A step of one handler keeps the log, the job and the other handlers as they are
\* and never removes a row, so little is left to show of each.
LEMMA HandlerFrame ==
  ASSUME Consistent, NEW h \in Handlers,
         UNCHANGED <<stripe, events, customer, rq, rec>>,
         faults' \in 0..MaxFaults, crashes' \in 0..MaxCrashes,
         acked' \subseteq DOMAIN events,
         hd' \in [Handlers -> Work],
         \A g \in Handlers \ {h} : hd'[g] = hd[g],
         HandlerFact(h)',
         row' \in [Subs -> Row],
         \A s \in Subs : HasRow(s) => HasRow(s)',
         plan' \in [Workspaces -> {"FREE", "PRO"}],
         HookWritten(h), hook' = hook \/ hd[h].ev \in DOMAIN events,
         ProHasSubscription', EndIsGenuine'
  PROVE  Consistent'
<1>h. /\ hook' \in [EventIds -> {"NONE", "PROCESSING", "PROCESSED", "FAILED"}]
      /\ HookLogged'
  <2>1. CASE hook' = hook
    BY <2>1 DEF Consistent, TypeOK, HookLogged
  <2>2. CASE hook' # hook
    <3>1. PICK st \in {"PROCESSING", "PROCESSED", "FAILED"} :
            hook' = [hook EXCEPT ![hd[h].ev] = st]
      BY <2>2 DEF HookWritten
    <3>2. hook \in [EventIds -> {"NONE", "PROCESSING", "PROCESSED", "FAILED"}]
      BY DEF Consistent, TypeOK
    <3>3. HookLogged /\ hd[h].ev \in DOMAIN events
      BY <2>2 DEF Consistent
    <3> QED BY <3>1, <3>2, <3>3 DEF HookLogged
  <2> QED BY <2>1, <2>2
<1>1. TypeOK'
  BY <1>h DEF Consistent, TypeOK
<1>2. LogAgrees'
  BY DEF Consistent, LogAgrees, Bought
<1>3. ASSUME NEW g \in Handlers, g # h PROVE HandlerFact(g)'
  <2>1. HandlerFact(g) /\ hd'[g] = hd[g]
    BY <1>3 DEF Consistent, HandlerFacts
  <2>2. ~At(g, "idle") => Now(g) \in Event /\ Now(g)' = Now(g)
    BY <2>1 DEF Consistent, TypeOK, HandlerFact, Now
  <2>3. ~At(g, "idle") => Now(g).sub \in Subs
    BY <2>2 DEF Event
  <2> QED BY <2>1, <2>2, <2>3 DEF HandlerFact, At
<1>4. JobFacts'
  BY DEF Consistent, JobFacts, TypeOK, Job
<1> QED BY <1>h, <1>1, <1>2, <1>3, <1>4 DEF Consistent, HandlerFacts

\* The first call of an event's handler suits the event's type.
LEMMA FirstCallFits ==
  ASSUME NEW type
  PROVE  /\ FirstCall(type) \in {"createSub", "findSub", "syncSub", "invoice", "markProcessed"}
         /\ FirstCall(type) \in HandlerPC
         /\ FirstCall(type) = "createSub" => type = "checkout.session.completed"
         /\ FirstCall(type) = "syncSub" => type = "customer.subscription.deleted"
  BY DEF FirstCall, HandlerPC

\* A handler goes to its next call: what is left to show is what that call relies on.
LEMMA GotoKeeps ==
  ASSUME Consistent, NEW h \in Handlers, ~At(h, "idle"),
         NEW pc \in HandlerPC, Goto(h, pc),
         UNCHANGED <<stripe, events, acked, customer, rq, rec, faults, crashes>>,
         row' \in [Subs -> Row],
         \A s \in Subs : HasRow(s) => HasRow(s)',
         plan' \in [Workspaces -> {"FREE", "PRO"}],
         HookWritten(h),
         ProHasSubscription', EndIsGenuine',
         pc \in {"createSub", "upgrade"} => Now(h).type = "checkout.session.completed",
         pc = "syncSub" => Now(h).type = "customer.subscription.deleted",
         pc \in {"upgrade", "updateSub", "downgrade"} => row'[Now(h).sub].status # "NONE",
         pc = "downgrade" => Lapsing(Now(h).status)
  PROVE  Consistent'
<1>1. /\ hd' \in [Handlers -> Work]
      /\ hd'[h].pc = pc /\ hd'[h].ev = hd[h].ev
      /\ \A g \in Handlers \ {h} : hd'[g] = hd[g]
  BY GotoTyped DEF Consistent, TypeOK
<1>2. hd[h].ev \in DOMAIN events
  BY DEF Consistent, HandlerFacts, HandlerFact
<1>3. Now(h)' = Now(h)
  BY <1>1 DEF Now
<1>4. HandlerFact(h)'
  BY <1>1, <1>2, <1>3 DEF HandlerFact, At, HasRow
<1>5. /\ faults' \in 0..MaxFaults /\ crashes' \in 0..MaxCrashes
      /\ acked' \subseteq DOMAIN events
  BY DEF Consistent, TypeOK
<1> QED BY <1>1, <1>2, <1>4, <1>5, HandlerFrame

\* A handler's call fails inside the try block.
LEMMA CatchKeeps ==
  ASSUME Consistent, NEW h \in Handlers, ~At(h, "idle"),
         NEW kind \in {"transient", "unknown"}, Catch(h, kind),
         UNCHANGED <<stripe, events, acked, row, plan, customer, hook, rq, rec, crashes>>,
         faults' \in 0..MaxFaults
  PROVE  Consistent'
<1>1. /\ hd' \in [Handlers -> Work]
      /\ hd'[h].pc = "markFailed" /\ hd'[h].ev = hd[h].ev
      /\ \A g \in Handlers \ {h} : hd'[g] = hd[g]
  BY CatchTyped DEF Consistent, TypeOK
<1>2. hd[h].ev \in DOMAIN events
  BY DEF Consistent, HandlerFacts, HandlerFact
<1>3. HandlerFact(h)'
  BY <1>1, <1>2 DEF HandlerFact, At
<1>4. ProHasSubscription' /\ EndIsGenuine'
  BY DEF Consistent, ProHasSubscription, EndIsGenuine, HasRow
<1> QED BY <1>1, <1>3, <1>4, HandlerFrame DEF Consistent, TypeOK, HasRow, HookWritten

\* A handler leaves processStripeEvent.
LEMMA LeaveKeeps ==
  ASSUME Consistent, NEW h \in Handlers, ~At(h, "idle"), Return(h) \/ Throw(h),
         UNCHANGED <<stripe, events, row, plan, customer, rq, rec, crashes>>,
         HookWritten(h),
         faults' \in 0..MaxFaults
  PROVE  Consistent'
<1>1. hd[h].ev \in DOMAIN events
  BY DEF Consistent, HandlerFacts, HandlerFact
<1>2. /\ hd' \in [Handlers -> Work]
      /\ acked' \subseteq DOMAIN events
      /\ hd'[h].pc \in {"idle", "replayed", "replayFailed"}
      /\ hd'[h].pc # "idle" => hd'[h].ev = hd[h].ev
      /\ \A g \in Handlers \ {h} : hd'[g] = hd[g]
  BY <1>1, ReturnTyped DEF Consistent, TypeOK
<1>3. HandlerFact(h)'
  BY <1>1, <1>2 DEF HandlerFact, At
<1>4. ProHasSubscription' /\ EndIsGenuine'
  BY DEF Consistent, ProHasSubscription, EndIsGenuine, HasRow
<1> QED BY <1>1, <1>2, <1>3, <1>4, HandlerFrame DEF Consistent, TypeOK, HasRow

LEMMA HandlerSteps ==
  ASSUME Consistent, NEW h \in Handlers, HandlerStep(h) PROVE Consistent'
<1> USE DEF stripeVars, dbVars, envVars
<1>0. /\ HandlerFact(h) /\ LogAgrees /\ ProHasSubscription /\ EndIsGenuine
      /\ row \in [Subs -> Row] /\ plan \in [Workspaces -> {"FREE", "PRO"}]
      /\ hook \in [EventIds -> {"NONE", "PROCESSING", "PROCESSED", "FAILED"}]
      /\ faults \in 0..MaxFaults /\ WorkspaceOf \in [Subs -> Workspaces]
      /\ events \in Seq(Event) /\ Len(events) <= MaxEvents /\ MaxEvents \in Nat
      /\ hd \in [Handlers -> Work]
  BY BillingAssumption DEF Consistent, HandlerFacts, TypeOK, BillingAssumption
<1>1. ~At(h, "idle")
  BY DEF HandlerStep, At, FindEvent, CreateEvent, CreateSubscription, Upgrade,
         FindSubscription, UpdateSubscription, Downgrade, SyncDeleted, InvoicePaid,
         MarkProcessed, MarkFailed, FinishReplay
<1>2. hd[h].ev \in DOMAIN events /\ hd[h].ev \in EventIds
  <2>1. hd[h].ev \in DOMAIN events
    BY <1>0, <1>1 DEF HandlerFact
  <2> QED BY <1>0, <2>1 DEF EventIds
<1>3. Now(h) \in Event /\ Now(h).sub \in Subs
  <2>1. Now(h) \in Event
    BY <1>0, <1>2 DEF Now
  <2> QED BY <2>1 DEF Event
<1>pc. {"create", "upgrade", "updateSub", "downgrade", "markProcessed"} \subseteq HandlerPC
  BY DEF HandlerPC
<1>same. ASSUME UNCHANGED <<row, plan>>
         PROVE  /\ row' \in [Subs -> Row] /\ plan' \in [Workspaces -> {"FREE", "PRO"}]
                /\ \A s \in Subs : HasRow(s)' <=> HasRow(s)
                /\ ProHasSubscription'
                /\ UNCHANGED <<stripe, events>> => EndIsGenuine'
  BY <1>0, <1>same DEF HasRow, ProHasSubscription, EndIsGenuine
<1>hook. hook' = hook => HookWritten(h)
  BY DEF HookWritten
<1>4. CASE FindEvent(h)
  <2>1. CASE Return(h)
    BY <1>0, <1>1, <1>hook, <1>4, <2>1, LeaveKeeps DEF FindEvent
  <2>2. CASE Goto(h, "create") /\ UNCHANGED acked
    BY <1>hook, <1>0, <1>1, <1>pc, <1>hook, <1>same, <1>4, <2>2, GotoKeeps DEF FindEvent
  <2>3. CASE Goto(h, FirstCall(Now(h).type)) /\ UNCHANGED acked
    BY <1>0, <1>1, <1>hook, <1>same, <1>4, <2>3, FirstCallFits, GotoKeeps DEF FindEvent
  <2> QED BY <1>4, <2>1, <2>2, <2>3 DEF FindEvent
<1>5. CASE CreateEvent(h)
  <2>1. CASE Throw(h) /\ UNCHANGED hook
    BY <1>0, <1>1, <1>hook, <1>5, <2>1, LeaveKeeps DEF CreateEvent
  <2>2. CASE /\ hook' = [hook EXCEPT ![hd[h].ev] = "PROCESSING"]
             /\ Goto(h, FirstCall(Now(h).type)) /\ UNCHANGED acked
    <3>1. HookWritten(h)
      BY <2>2 DEF HookWritten
    <3> QED BY <1>0, <1>1, <1>same, <1>5, <2>2, <3>1, FirstCallFits, GotoKeeps DEF CreateEvent
  <2> QED BY <1>5, <2>1, <2>2 DEF CreateEvent
<1>6. CASE FindSubscription(h)
  <2>1. CASE Goto(h, "markProcessed")
    BY <1>hook, <1>0, <1>1, <1>pc, <1>hook, <1>same, <1>6, <2>1, GotoKeeps DEF FindSubscription
  <2>2. CASE Goto(h, "updateSub") /\ Fresh(Now(h).sub, Now(h).created)
    BY <1>hook, <1>0, <1>1, <1>3, <1>pc, <1>hook, <1>same, <1>6, <2>2, GotoKeeps DEF FindSubscription, Fresh, HasRow
  <2> QED BY <1>6, <2>1, <2>2 DEF FindSubscription
<1>7. CASE InvoicePaid(h)
  <2>1. CASE Goto(h, "markProcessed")
    BY <1>hook, <1>0, <1>1, <1>pc, <1>hook, <1>same, <1>7, <2>1, GotoKeeps DEF InvoicePaid
  <2>2. CASE Catch(h, "unknown")
    BY <1>0, <1>1, <1>hook, <1>7, <2>2, CatchKeeps DEF InvoicePaid
  <2> QED BY <1>7, <2>1, <2>2 DEF InvoicePaid
<1>8. CASE MarkProcessed(h)
  <2>1. HookWritten(h)
    BY <1>8 DEF HookWritten, MarkProcessed
  <2> QED BY <1>0, <1>1, <1>8, <2>1, LeaveKeeps DEF MarkProcessed
<1>9. CASE MarkFailed(h)
  <2>1. HookWritten(h)
    BY <1>9 DEF HookWritten, MarkFailed
  <2>2. Return(h) \/ Throw(h)
    BY <1>9 DEF MarkFailed
  <2>3. UNCHANGED <<stripe, events, row, plan, customer, rq, rec, faults, crashes>>
    BY <1>9 DEF MarkFailed
  <2> QED BY <1>0, <1>1, <2>1, <2>2, <2>3, LeaveKeeps
<1>10. CASE FinishReplay(h)
  <2>1. HookWritten(h)
    BY <1>10 DEF HookWritten, FinishReplay
  <2>2. /\ hd' \in [Handlers -> Work] /\ hd'[h].pc = "idle"
        /\ \A g \in Handlers \ {h} : hd'[g] = hd[g]
    BY <1>0, <1>10, EmptyRecords DEF FinishReplay
  <2>3. HandlerFact(h)'
    BY <2>2 DEF HandlerFact, At
  <2> QED BY <1>0, <1>2, <1>same, <1>10, <2>1, <2>2, <2>3, HandlerFrame
          DEF FinishReplay, Consistent, TypeOK
<1>11. CASE CreateSubscription(h)
  <2>1. CASE Catch(h, "unknown") /\ UNCHANGED row
    BY <1>0, <1>1, <1>hook, <1>11, <2>1, CatchKeeps DEF CreateSubscription
  <2>2. CASE row' = [row EXCEPT ![Now(h).sub] = [NoRow EXCEPT !.status = "ACTIVE"]]
             /\ Goto(h, "upgrade") /\ ~Taken(Now(h).sub)
    <3>1. /\ row' \in [Subs -> Row] /\ row'[Now(h).sub].status = "ACTIVE"
          /\ \A s \in Subs \ {Now(h).sub} : row'[s] = row[s]
      BY <1>0, <1>3, <2>2, EmptyRecords
    <3>2. \A s \in Subs : HasRow(s) => HasRow(s)'
      BY <3>1 DEF HasRow
    <3>3. row'[Now(h).sub].status # "NONE"
      BY <3>1
    <3>4. ProHasSubscription' /\ EndIsGenuine'
      BY <1>0, <1>11, <3>1, <3>2 DEF CreateSubscription, ProHasSubscription, EndIsGenuine
    <3>5. Now(h).type = "checkout.session.completed"
      BY <1>0, <1>1, <1>11 DEF CreateSubscription, HandlerFact, At
    <3> QED BY <1>hook, <1>0, <1>1, <1>3, <1>pc, <1>11, <2>2, <3>1, <3>2, <3>3, <3>4, <3>5, GotoKeeps
            DEF CreateSubscription
  <2> QED BY <1>11, <2>1, <2>2 DEF CreateSubscription
<1>12. CASE Upgrade(h)
  <2>1. HasRow(Now(h).sub)
    BY <1>0, <1>1, <1>12 DEF Upgrade, HandlerFact, At
  <2>2. plan' \in [Workspaces -> {"FREE", "PRO"}]
    BY <1>0, <1>12 DEF Upgrade
  <2>3. /\ row' \in [Subs -> Row] /\ EndIsGenuine'
        /\ \A s \in Subs : HasRow(s)' <=> HasRow(s)
    BY <1>0, <1>12 DEF Upgrade, HasRow, EndIsGenuine
  <2>4. ProHasSubscription'
    BY <1>0, <1>3, <1>12, <2>1, <2>3 DEF Upgrade, ProHasSubscription
  <2> QED BY <1>hook, <1>0, <1>1, <1>pc, <1>12, <2>2, <2>3, <2>4, GotoKeeps DEF Upgrade
<1>13. CASE Downgrade(h)
  <2>1. plan' \in [Workspaces -> {"FREE", "PRO"}]
    BY <1>0, <1>13 DEF Downgrade
  <2>2. /\ row' \in [Subs -> Row] /\ EndIsGenuine'
        /\ \A s \in Subs : HasRow(s)' <=> HasRow(s)
    BY <1>0, <1>13 DEF Downgrade, HasRow, EndIsGenuine
  <2>3. ProHasSubscription'
    BY <1>0, <1>13, <2>2 DEF Downgrade, ProHasSubscription
  <2> QED BY <1>hook, <1>0, <1>1, <1>pc, <1>13, <2>1, <2>2, <2>3, GotoKeeps DEF Downgrade
<1>14. CASE UpdateSubscription(h)
  <2> DEFINE e == Now(h)
  <2> DEFINE new == NewStatus(e.status, row[e.sub].status)
  <2>1. HasRow(e.sub)
    BY <1>0, <1>1, <1>14 DEF UpdateSubscription, HandlerFact, At
  <2>2. /\ e.status \in StripeStatuses \cup {"canceled"} /\ e.cancelAt \in BOOLEAN
        /\ e.created \in Nat /\ row[e.sub].status \in SubscriptionStatus \cup {"NONE"}
    BY <1>0, <1>3 DEF Event, Row
  <2>3. /\ new \in SubscriptionStatus \cup {"NONE"} /\ new # "NONE"
        /\ new = "CANCELLED" => e.status = "canceled" \/ row[e.sub].status = "CANCELLED"
        /\ new = "EXPIRED" => e.status = "unpaid" \/ row[e.sub].status = "EXPIRED"
    BY <2>1, <2>2, StatusTables DEF HasRow
  <2>4. row' = [row EXCEPT ![e.sub] = [status |-> new, cancelAt |-> e.cancelAt,
                                       last |-> e.created]]
    BY <1>14 DEF UpdateSubscription
  <2> HIDE DEF new
  <2>5. /\ row' \in [Subs -> Row] /\ row'[e.sub].status = new
        /\ \A s \in Subs \ {e.sub} : row'[s] = row[s]
    BY <1>0, <1>3, <2>2, <2>3, <2>4 DEF Row
  <2>6. \A s \in Subs : HasRow(s) => HasRow(s)'
    BY <2>3, <2>5 DEF HasRow
  <2>7. ProHasSubscription'
    BY <1>0, <1>14, <2>6 DEF UpdateSubscription, ProHasSubscription
  <2>8. EndIsGenuine'
    <3>1. /\ e.status = "canceled" => stripe[e.sub].status = "canceled"
          /\ \E i \in DOMAIN events : events[i].sub = e.sub /\ events[i].status = e.status
      BY <1>0, <1>2 DEF LogAgrees, Now
    <3> QED BY <1>0, <1>14, <2>3, <2>5, <3>1 DEF UpdateSubscription, EndIsGenuine
  <2>11. row'[e.sub].status # "NONE"
    BY <2>3, <2>5
  <2>9. CASE Goto(h, "downgrade") /\ Lapsing(e.status)
    BY <1>hook, <1>0, <1>1, <1>3, <1>pc, <1>14, <2>1, <2>5, <2>6, <2>7, <2>8, <2>9, <2>11, GotoKeeps
       DEF UpdateSubscription
  <2>10. CASE Goto(h, "markProcessed")
    BY <1>hook, <1>0, <1>1, <1>pc, <1>14, <2>5, <2>6, <2>7, <2>8, <2>10, GotoKeeps
       DEF UpdateSubscription
  <2> QED BY <1>14, <2>9, <2>10 DEF UpdateSubscription
<1>15. CASE SyncDeleted(h)
  <2>1. CASE Catch(h, "unknown") /\ UNCHANGED row
    BY <1>0, <1>1, <1>hook, <1>15, <2>1, CatchKeeps DEF SyncDeleted
  <2>2. CASE /\ HasRow(Now(h).sub) /\ Goto(h, "downgrade")
             /\ row' = [row EXCEPT ![Now(h).sub].status = "CANCELLED"]
    <3>1. row' = [row EXCEPT ![Now(h).sub] = [row[Now(h).sub] EXCEPT !.status = "CANCELLED"]]
      BY <2>2
    <3>2. /\ row' \in [Subs -> Row] /\ row'[Now(h).sub].status = "CANCELLED"
          /\ \A s \in Subs \ {Now(h).sub} : row'[s] = row[s]
      <4>1. /\ [row[Now(h).sub] EXCEPT !.status = "CANCELLED"] \in Row
            /\ [row[Now(h).sub] EXCEPT !.status = "CANCELLED"].status = "CANCELLED"
        <5>1. row[Now(h).sub] \in Row /\ "CANCELLED" \in SubscriptionStatus
          BY <1>0, <1>3 DEF SubscriptionStatus
        <5> QED BY <5>1, RowUpdates
      <4> QED BY <1>0, <1>3, <3>1, <4>1
    <3>3. \A s \in Subs : HasRow(s) => HasRow(s)'
      BY <3>2 DEF HasRow
    <3>4. Now(h).status = "canceled" /\ stripe[Now(h).sub].status = "canceled"
      BY <1>0, <1>1, <1>2, <1>15 DEF SyncDeleted, HandlerFact, At, LogAgrees, Now
    <3>5. ProHasSubscription' /\ EndIsGenuine'
      BY <1>0, <1>15, <3>2, <3>3, <3>4 DEF SyncDeleted, ProHasSubscription, EndIsGenuine
    <3> QED BY <1>hook, <1>0, <1>1, <1>3, <1>pc, <1>15, <2>2, <3>2, <3>3, <3>4, <3>5, GotoKeeps
            DEF SyncDeleted, Lapsing
  <2> QED BY <1>15, <2>1, <2>2 DEF SyncDeleted
<1> QED BY <1>4, <1>5, <1>6, <1>7, <1>8, <1>9, <1>10, <1>11, <1>12, <1>13, <1>14, <1>15
        DEF HandlerStep

\* Stripe's deliveries, the administrator's replays and the failures of a call.
LEMMA HandlerInputs ==
  ASSUME Consistent, NEW h \in Handlers,
         \/ Fault(h)
         \/ \E i \in EventIds : Deliver(h, i) \/ Replay(h, i)
  PROVE  Consistent'
<1> USE DEF stripeVars, dbVars, envVars
<1>0. /\ HandlerFact(h) /\ hd \in [Handlers -> Work]
      /\ faults \in 0..MaxFaults /\ MaxFaults \in Nat
      /\ ("replayFailed" \in HandlerPC) /\ HookLogged
  BY BillingAssumption DEF Consistent, HandlerFacts, TypeOK, BillingAssumption, HandlerPC
<1>1. ASSUME UNCHANGED <<row, plan, hook, stripe, events>>
      PROVE  /\ \A s \in Subs : HasRow(s)' <=> HasRow(s)
             /\ ProHasSubscription' /\ EndIsGenuine' /\ HookWritten(h)
  BY <1>1 DEF Consistent, HasRow, ProHasSubscription, EndIsGenuine, HookWritten
<1>2. ASSUME NEW i \in EventIds, Deliver(h, i) \/ Replay(h, i) PROVE Consistent'
  <2>1. PICK replay \in BOOLEAN :
          hd' = [hd EXCEPT ![h] = [pc |-> "find", ev |-> i, kind |-> "unknown",
                                   replay |-> replay]]
    BY <1>2 DEF Deliver, Replay, Handle
  <2>2. i \in DOMAIN events
    BY <1>0, <1>2 DEF Deliver, Replay, HookLogged
  <2>3. [pc |-> "find", ev |-> i, kind |-> "unknown", replay |-> replay] \in Work
    <3>1. "find" \in HandlerPC
      BY DEF HandlerPC
    <3>2. i \in EventIds \cup {0} /\ "unknown" \in {"transient", "unknown"}
      OBVIOUS
    <3> QED BY <2>1, <3>1, <3>2 DEF Work
  <2>4. /\ hd' \in [Handlers -> Work] /\ hd'[h].pc = "find" /\ hd'[h].ev = i
        /\ \A g \in Handlers \ {h} : hd'[g] = hd[g]
    BY <1>0, <2>1, <2>3
  <2>5. HandlerFact(h)'
    BY <1>2, <2>2, <2>4 DEF HandlerFact, At, Deliver, Replay
  <2>6. UNCHANGED <<stripe, events, acked, row, plan, customer, hook, rq, rec, faults, crashes>>
    BY <1>2 DEF Deliver, Replay
  <2> QED BY <1>1, <2>4, <2>5, <2>6, HandlerFrame DEF Consistent, TypeOK
<1>3. CASE Fault(h)
  <2>1. faults' \in 0..MaxFaults
    BY <1>0, <1>3 DEF Fault
  <2>2. UNCHANGED <<stripe, events, row, plan, customer, hook, rq, rec, crashes>>
    BY <1>3 DEF Fault
  <2>3. ~At(h, "idle") /\ hd[h].ev \in DOMAIN events
    BY <1>0, <1>3 DEF Fault, At, HandlerFact
  <2>4. CASE Throw(h)
    BY <1>1, <2>1, <2>2, <2>3, <2>4, LeaveKeeps
  <2>5. CASE \E kind \in {"transient", "unknown"} : Catch(h, kind) /\ UNCHANGED acked
    BY <1>1, <2>1, <2>2, <2>3, <2>5, CatchKeeps
  <2>6. CASE Goto(h, "replayFailed") /\ UNCHANGED acked
    <3>1. /\ hd' \in [Handlers -> Work] /\ hd'[h].pc = "replayFailed"
          /\ hd'[h].ev = hd[h].ev
          /\ \A g \in Handlers \ {h} : hd'[g] = hd[g]
      BY <1>0, <2>6, GotoTyped
    <3>2. HandlerFact(h)'
      BY <2>2, <2>3, <3>1 DEF HandlerFact, At
    <3> QED BY <1>1, <2>1, <2>2, <2>6, <3>1, <3>2, HandlerFrame DEF Consistent, TypeOK
  <2>7. CASE hd' = [hd EXCEPT ![h] = NoWork] /\ UNCHANGED acked
    <3>1. /\ hd' \in [Handlers -> Work] /\ hd'[h].pc = "idle"
          /\ \A g \in Handlers \ {h} : hd'[g] = hd[g]
      BY <1>0, <2>7, EmptyRecords
    <3>2. HandlerFact(h)'
      BY <3>1 DEF HandlerFact, At
    <3> QED BY <1>1, <2>1, <2>2, <2>7, <3>1, <3>2, HandlerFrame DEF Consistent, TypeOK
  <2> QED BY <1>3, <2>4, <2>5, <2>6, <2>7 DEF Fault
<1> QED BY <1>2, <1>3

-----------------------------------------------------------------------------
(* Stripe's own steps: each appends one event of a subscription in its new status. *)

LEMMA LogGrows ==
  ASSUME Consistent, NEW s \in Subs,
         NEW type \in {"checkout.session.completed", "customer.subscription.updated",
                       "customer.subscription.deleted", "invoice.paid", "other"},
         NEW st \in StripeStatuses \cup {"canceled"}, NEW ca \in BOOLEAN,
         Emit(type, s, st, ca),
         stripe' \in [Subs -> StripeSub],
         stripe'[s].status = st,
         \A t \in Subs \ {s} : stripe'[t] = stripe[t],
         stripe[s].status \notin {"none", "canceled"},
         type = "checkout.session.completed" <=> stripe[s].status = "session",
         type = "customer.subscription.deleted" <=> st = "canceled",
         rq' \in [Requests -> Call],
         UNCHANGED <<acked, dbVars, hd, rec, envVars>>
  PROVE  Consistent'
<1> USE DEF dbVars, envVars
<1>0. /\ TypeOK /\ LogAgrees /\ HookLogged /\ HandlerFacts /\ JobFacts
      /\ ProHasSubscription /\ EndIsGenuine
      /\ events \in Seq(Event) /\ Len(events) \in Nat
  BY DEF Consistent, TypeOK
<1> DEFINE n == Len(events')
<1>1. /\ events' \in Seq(Event) /\ n = Len(events) + 1 /\ n <= MaxEvents
      /\ \A i \in DOMAIN events : i \in DOMAIN events' /\ events'[i] = events[i]
      /\ events'[n].type = type /\ events'[n].sub = s /\ events'[n].status = st
  <2>1. events \in Seq(Event)
    BY <1>0
  <2>2. Appended(type, s, st)
    BY <2>1, EmitAppends, Zenon
  <2> QED BY <1>0, <2>2 DEF Appended
<1>2. DOMAIN events' = DOMAIN events \cup {n}
  BY <1>0, <1>1
<1> HIDE DEF n
<1>3. TypeOK'
  BY <1>0, <1>1, <1>2 DEF TypeOK, n
<1>4. Bought' = Bought \cup (IF type = "checkout.session.completed" THEN {s} ELSE {})
  BY <1>1, <1>2 DEF Bought
<1>5. LogAgrees'
  <2>1. ASSUME NEW i \in DOMAIN events'
        PROVE  /\ events'[i].type = "customer.subscription.deleted" => events'[i].status = "canceled"
               /\ events'[i].status = "canceled" => stripe'[events'[i].sub].status = "canceled"
    <3>1. CASE i = n
      BY <1>1, <3>1
    <3>2. CASE i \in DOMAIN events
      <4>1. events[i] \in Event
        BY <1>0, <3>2
      <4>2. events[i].sub \in Subs
        BY <4>1 DEF Event
      <4> QED BY <1>0, <1>1, <3>2, <4>2 DEF LogAgrees
    <3> QED BY <1>2, <2>1, <3>1, <3>2
  <2>2. ASSUME NEW t \in Subs
        PROVE  /\ stripe'[t].status \in {"none", "session"} <=> t \notin Bought'
               /\ Lapsing(stripe'[t].status) =>
                    \E i \in DOMAIN events' :
                      events'[i].sub = t /\ events'[i].status = stripe'[t].status
    <3>1. CASE t = s
      <4>1. st \notin {"none", "session"}
        BY BillingAssumption DEF BillingAssumption
      <4> QED BY <1>0, <1>1, <1>2, <1>4, <3>1, <4>1 DEF LogAgrees
    <3>2. CASE t # s
      BY <1>0, <1>1, <1>2, <1>4, <3>2 DEF LogAgrees
    <3> QED BY <3>1, <3>2
  <2> QED BY <2>1, <2>2 DEF LogAgrees
<1>6. HookLogged'
  BY <1>0, <1>1 DEF HookLogged
<1>7. HandlerFacts'
  <2>1. ASSUME NEW h \in Handlers PROVE HandlerFact(h)'
    <3>1. HandlerFact(h)
      BY <1>0 DEF HandlerFacts
    <3>2. ~At(h, "idle") => Now(h)' = Now(h)
      BY <1>1, <3>1 DEF HandlerFact, Now
    <3> QED BY <1>1, <3>1, <3>2 DEF HandlerFact, At, HasRow
  <2> QED BY <2>1 DEF HandlerFacts
<1>8. JobFacts'
  BY <1>0, <1>1 DEF JobFacts, HasRow
<1>9. ProHasSubscription' /\ EndIsGenuine'
  BY <1>0, <1>1 DEF ProHasSubscription, EndIsGenuine, HasRow
<1> QED BY <1>3, <1>5, <1>6, <1>7, <1>8, <1>9 DEF Consistent

LEMMA StripeSteps == ASSUME Consistent, Stripe PROVE Consistent'
<1>0. /\ stripe \in [Subs -> StripeSub] /\ rq \in [Requests -> Call]
      /\ StripeStatuses \subseteq {"active", "trialing", "past_due", "unpaid", "paused"}
      /\ "active" \in StripeStatuses /\ Notices \subseteq {"invoice.paid", "other"}
  BY BillingAssumption DEF Consistent, TypeOK, BillingAssumption
<1>1. ASSUME NEW s \in Subs, NEW st \in StripeStatuses \cup {"canceled"}
      PROVE  /\ stripe[s].cancelAt \in BOOLEAN
             /\ [stripe EXCEPT ![s].status = st] \in [Subs -> StripeSub]
             /\ [stripe EXCEPT ![s].status = st][s].status = st
             /\ \A t \in Subs \ {s} : [stripe EXCEPT ![s].status = st][t] = stripe[t]
  <2>1. stripe[s] \in StripeSub /\ stripe[s].cancelAt \in BOOLEAN
    BY <1>0 DEF StripeSub
  <2>2. [stripe[s] EXCEPT !.status = st] \in StripeSub /\ [stripe[s] EXCEPT !.status = st].status = st
    BY <2>1 DEF StripeSub
  <2>3. [stripe EXCEPT ![s].status = st] = [stripe EXCEPT ![s] = [stripe[s] EXCEPT !.status = st]]
    BY <1>0
  <2> QED BY <1>0, <2>1, <2>2, <2>3
<1>2. ASSUME NEW s \in Subs, Pay(s) PROVE Consistent'
  <2>1. /\ stripe' = [stripe EXCEPT ![s].status = "active"] /\ stripe[s].status = "session"
        /\ Emit("checkout.session.completed", s, "active", FALSE)
        /\ UNCHANGED <<acked, dbVars, procVars, envVars>>
    BY <1>2 DEF Pay
  <2>2. "active" \in StripeStatuses \cup {"canceled"}
    BY <1>0
  <2>3. /\ stripe' \in [Subs -> StripeSub] /\ stripe'[s].status = "active"
        /\ \A t \in Subs \ {s} : stripe'[t] = stripe[t]
    BY <1>1, <2>1, <2>2
  <2> QED BY <1>0, <2>1, <2>2, <2>3, LogGrows DEF procVars
<1>3. ASSUME NEW s \in Subs, NEW st \in StripeStatuses, ChangeStatus(s, st) PROVE Consistent'
  <2>1. /\ stripe' = [stripe EXCEPT ![s].status = st] /\ stripe[s].status \in StripeStatuses
        /\ Emit("customer.subscription.updated", s, st, stripe[s].cancelAt)
        /\ UNCHANGED <<acked, dbVars, procVars, envVars>>
    BY <1>3 DEF ChangeStatus, Alive
  <2> QED BY <1>0, <1>1, <2>1, LogGrows DEF procVars
<1>4. ASSUME NEW s \in Subs, EndSubscription(s) PROVE Consistent'
  <2>1. /\ stripe' = [stripe EXCEPT ![s].status = "canceled"]
        /\ stripe[s].status \in StripeStatuses
        /\ Emit("customer.subscription.deleted", s, "canceled", stripe[s].cancelAt)
        /\ UNCHANGED <<acked, dbVars, procVars, envVars>>
    BY <1>4 DEF EndSubscription, Alive
  <2> QED BY <1>0, <1>1, <2>1, LogGrows DEF procVars
<1>5. ASSUME NEW s \in Subs, NEW type \in Notices, Notify(s, type) PROVE Consistent'
  <2>1. /\ stripe' = stripe /\ stripe[s].status = "active"
        /\ Emit(type, s, "active", stripe[s].cancelAt)
        /\ UNCHANGED <<acked, dbVars, procVars, envVars>>
    BY <1>5 DEF Notify
  <2>2. /\ stripe[s].cancelAt \in BOOLEAN /\ type \in {"invoice.paid", "other"}
    BY <1>0 DEF StripeSub
  <2> QED BY <1>0, <2>1, <2>2, LogGrows DEF procVars
<1> QED BY <1>2, <1>3, <1>4, <1>5 DEF Stripe

-----------------------------------------------------------------------------
(* The owner's requests, the nightly job and crashes. *)

\* A step that leaves the log, the handlers, the plans and the existence and status of
\* every row as they are.
LEMMA QuietFrame ==
  ASSUME Consistent, UNCHANGED <<events, acked, plan, hook, hd>>,
         \A s \in Subs : \/ stripe'[s].status = stripe[s].status
                          \/ /\ stripe[s].status \in {"none", "session"}
                             /\ stripe'[s].status \in {"none", "session"},
         stripe' \in [Subs -> StripeSub],
         row' \in [Subs -> Row],
         \A s \in Subs : row'[s].status = row[s].status,
         customer' \in [Workspaces -> BOOLEAN],
         rq' \in [Requests -> Call], rec' \in Job,
         faults' \in 0..MaxFaults, crashes' \in 0..MaxCrashes,
         JobFacts'
  PROVE  Consistent'
<1>1. TypeOK'
  BY DEF Consistent, TypeOK
<1>2. \A i \in DOMAIN events : events[i].sub \in Subs
  <2>1. ASSUME NEW i \in DOMAIN events PROVE events[i] \in Event
    BY DEF Consistent, TypeOK
  <2> QED BY <2>1 DEF Event
<1>3. LogAgrees'
  <2>1. Bought' = Bought /\ LogAgrees
    BY DEF Bought, Consistent
  <2>2. \A s \in Subs : stripe[s].status \in {"none", "session"} =>
          ~Lapsing(stripe[s].status) /\ ~Lapsing(stripe'[s].status)
    BY DEF Lapsing
  <2> QED BY <1>2, <2>1, <2>2 DEF LogAgrees
<1>4. HandlerFacts'
  <2>1. ASSUME NEW h \in Handlers PROVE HandlerFact(h)'
    <3>1. HandlerFact(h)
      BY DEF Consistent, HandlerFacts
    <3>2. ~At(h, "idle") => Now(h)' = Now(h) /\ Now(h).sub \in Subs
      BY <1>2, <3>1 DEF HandlerFact, Now
    <3> QED BY <3>1, <3>2 DEF HandlerFact, At, HasRow
  <2> QED BY <2>1 DEF HandlerFacts
<1>5. ProHasSubscription' /\ EndIsGenuine' /\ HookLogged'
  BY DEF Consistent, ProHasSubscription, EndIsGenuine, HasRow, HookLogged
<1> QED BY <1>1, <1>3, <1>4, <1>5 DEF Consistent

\* What a request's program counter says of its arguments.
LEMMA CallCases ==
  ASSUME NEW r \in Call
  PROVE  /\ r.pc \in {"readSub", "customer", "session"} => r.ws \in Workspaces
         /\ r.pc \in {"cancelStripe", "cancelLocal"} => r.sub \in Subs
         /\ r.pc \in {"readSub", "customer"} =>
              \A pc \in {"customer", "session"} : [r EXCEPT !.pc = pc] \in Call
         /\ r.pc = "cancelStripe" => [r EXCEPT !.pc = "cancelLocal"] \in Call
<1>1. CASE r = NoCall
  BY <1>1 DEF NoCall
<1>2. CASE r \in [pc: {"readSub", "customer", "session"}, ws: Workspaces, sub: {None},
                  pro: BOOLEAN, known: BOOLEAN]
  BY <1>2 DEF Call
<1>3. CASE r \in [pc: {"cancelStripe", "cancelLocal"}, ws: {None}, sub: Subs,
                  pro: {FALSE}, known: {FALSE}]
  BY <1>3 DEF Call
<1> QED BY <1>1, <1>2, <1>3 DEF Call

LEMMA RequestSteps ==
  ASSUME Consistent, NEW r \in Requests,
         \/ RequestStep(r) \/ RequestFault(r)
         \/ \E w \in Workspaces : StartCheckout(r, w)
         \/ \E s \in Subs : StartCancel(r, s)
  PROVE  Consistent'
<1> USE DEF stripeVars, dbVars, envVars
<1>0. /\ stripe \in [Subs -> StripeSub] /\ row \in [Subs -> Row]
      /\ rq \in [Requests -> Call] /\ rec \in Job /\ customer \in [Workspaces -> BOOLEAN]
      /\ faults \in 0..MaxFaults /\ crashes \in 0..MaxCrashes /\ MaxFaults \in Nat
      /\ plan \in [Workspaces -> {"FREE", "PRO"}] /\ JobFacts
  BY BillingAssumption DEF Consistent, TypeOK, BillingAssumption
<1>1. ASSUME UNCHANGED <<stripe, events, rec, row>> PROVE JobFacts'
  BY <1>0, <1>1 DEF JobFacts, HasRow
<1>2. rq[r] \in Call
  BY <1>0
<1>3. ASSUME NEW w \in Workspaces, StartCheckout(r, w) PROVE Consistent'
  <2>1. rq' \in [Requests -> Call]
    BY <1>0, <1>3 DEF StartCheckout, Call, NoCall
  <2> QED BY <1>0, <1>1, <1>3, <2>1, QuietFrame DEF StartCheckout
<1>4. ASSUME NEW s \in Subs, StartCancel(r, s) PROVE Consistent'
  <2>1. rq' \in [Requests -> Call]
    BY <1>0, <1>4, BillingAssumption DEF StartCancel, Call, NoCall
  <2> QED BY <1>0, <1>1, <1>4, <2>1, QuietFrame DEF StartCancel
<1>5. CASE ReadSubscription(r)
  <2>1. rq' \in [Requests -> Call]
    BY <1>0, <1>2, <1>5, EmptyRecords DEF ReadSubscription, Call
  <2> QED BY <1>0, <1>1, <1>5, <2>1, QuietFrame DEF ReadSubscription
<1>6. CASE CreateCustomer(r)
  <2>0. rq[r].pc = "customer" /\ rq' = [rq EXCEPT ![r] = [rq[r] EXCEPT !.pc = "session"]]
    BY <1>6 DEF CreateCustomer
  <2>a. [rq[r] EXCEPT !.pc = "session"] \in Call
    BY <1>2, <2>0, CallCases
  <2>1. rq' \in [Requests -> Call]
    BY <1>0, <2>0, <2>a
  <2>2. customer' \in [Workspaces -> BOOLEAN]
    BY <1>0, <1>6 DEF CreateCustomer
  <2> QED BY <1>0, <1>1, <1>6, <2>1, <2>2, QuietFrame DEF CreateCustomer
<1>7. CASE CreateSession(r)
  <2>1. rq' \in [Requests -> Call]
    BY <1>0, <1>7, EmptyRecords DEF CreateSession
  <2>2. \/ UNCHANGED stripe
        \/ \E s \in Subs : /\ stripe[s].status = "none"
                            /\ stripe' = [stripe EXCEPT ![s].status = "session"]
    BY <1>7 DEF CreateSession
  <2>3. CASE UNCHANGED stripe
    BY <1>0, <1>1, <1>7, <2>1, <2>3, QuietFrame DEF CreateSession
  <2>4. ASSUME NEW s \in Subs, stripe[s].status = "none",
               stripe' = [stripe EXCEPT ![s].status = "session"]
        PROVE  Consistent'
    <3>1. /\ stripe' \in [Subs -> StripeSub] /\ stripe'[s].status = "session"
          /\ \A t \in Subs \ {s} : stripe'[t] = stripe[t]
      BY <1>0, <2>4 DEF StripeSub
    <3>2. UNCHANGED <<events, acked, row, plan, customer, hook, hd, rec, faults, crashes>>
      BY <1>7 DEF CreateSession
    <3>3. JobFacts'
      BY <1>0, <2>4, <3>1, <3>2 DEF JobFacts, HasRow
    <3> QED BY <1>0, <2>1, <2>4, <3>1, <3>2, <3>3, QuietFrame
  <2> QED BY <2>2, <2>3, <2>4
<1>8. CASE CancelStripe(r)
  <2>1. rq' \in [Requests -> Call]
    <3>0. rq[r].pc = "cancelStripe"
      BY <1>8 DEF CancelStripe
    <3>1. [rq[r] EXCEPT !.pc = "cancelLocal"] \in Call
      BY <1>2, <3>0, CallCases
    <3>2. \/ rq' = [rq EXCEPT ![r] = [rq[r] EXCEPT !.pc = "cancelLocal"]]
          \/ rq' = [rq EXCEPT ![r] = NoCall]
      BY <1>8 DEF CancelStripe
    <3> QED BY <1>0, <3>1, <3>2, EmptyRecords
  <2>2. CASE ~Alive(rq[r].sub) /\ UNCHANGED <<stripe, events>>
    BY <1>0, <1>1, <1>8, <2>1, <2>2, QuietFrame DEF CancelStripe
  <2>3. CASE /\ Alive(rq[r].sub)
             /\ stripe' = [stripe EXCEPT ![rq[r].sub].cancelAt = TRUE]
             /\ Emit("customer.subscription.updated", rq[r].sub, stripe[rq[r].sub].status, TRUE)
    <3> DEFINE s == rq[r].sub
    <3>1. s \in Subs /\ stripe[s] \in StripeSub
      <4>1. rq[r].pc = "cancelStripe"
        BY <1>8 DEF CancelStripe
      <4>2. s \in Subs
        BY <1>2, <4>1, CallCases
      <4> QED BY <1>0, <4>2
    <3>2. /\ stripe' \in [Subs -> StripeSub] /\ stripe'[s].status = stripe[s].status
          /\ \A t \in Subs \ {s} : stripe'[t] = stripe[t]
      BY <1>0, <2>3, <3>1 DEF StripeSub
    <3>3. stripe[s].status \in StripeStatuses
      BY <2>3 DEF Alive
    <3>4. stripe[s].status \notin {"none", "session", "canceled"}
      BY <3>3, BillingAssumption DEF BillingAssumption
    <3>5. UNCHANGED <<acked, dbVars, hd, rec, envVars>>
      BY <1>8 DEF CancelStripe
    <3> HIDE DEF s
    <3>6. Emit("customer.subscription.updated", s, stripe[s].status, TRUE)
      BY <2>3 DEF s
    <3> QED BY <2>1, <3>1, <3>2, <3>3, <3>4, <3>5, <3>6, LogGrows
  <2> QED BY <1>8, <2>2, <2>3 DEF CancelStripe
<1>9. CASE CancelLocal(r)
  <2>1. rq' \in [Requests -> Call]
    BY <1>0, <1>9, EmptyRecords DEF CancelLocal
  <2>2. rq[r].sub \in Subs
    <3>1. rq[r].pc = "cancelLocal"
      BY <1>9 DEF CancelLocal
    <3> QED BY <1>2, <3>1, CallCases
  <2>3. /\ row' \in [Subs -> Row]
        /\ \A s \in Subs : row'[s].status = row[s].status
    BY <1>0, <1>9, <2>2 DEF CancelLocal, Row
  <2>4. JobFacts'
    BY <1>0, <1>9, <2>3 DEF CancelLocal, JobFacts, HasRow, Job
  <2> QED BY <1>0, <1>9, <2>1, <2>3, <2>4, QuietFrame DEF CancelLocal
<1>10. CASE RequestFault(r)
  <2>1. rq' \in [Requests -> Call] /\ faults' \in 0..MaxFaults
    BY <1>0, <1>10, EmptyRecords DEF RequestFault
  <2> QED BY <1>0, <1>1, <1>10, <2>1, QuietFrame DEF RequestFault
<1> QED BY <1>3, <1>4, <1>5, <1>6, <1>7, <1>8, <1>9, <1>10 DEF RequestStep

\* A step of the job that writes a row or a plan.
LEMMA JobFrame ==
  ASSUME Consistent,
         UNCHANGED <<stripe, events, acked, customer, hook, hd, rq, faults, crashes>>,
         row' \in [Subs -> Row],
         \A s \in Subs : HasRow(s) => HasRow(s)',
         plan' \in [Workspaces -> {"FREE", "PRO"}],
         rec' \in Job, JobFacts', ProHasSubscription', EndIsGenuine'
  PROVE  Consistent'
<1>1. TypeOK'
  BY DEF Consistent, TypeOK
<1>2. LogAgrees' /\ HookLogged'
  BY DEF Consistent, LogAgrees, Bought, HookLogged
<1>3. ASSUME NEW h \in Handlers PROVE HandlerFact(h)'
  <2>1. HandlerFact(h)
    BY DEF Consistent, HandlerFacts
  <2>2. ~At(h, "idle") => Now(h) \in Event /\ Now(h)' = Now(h)
    BY <2>1 DEF Consistent, TypeOK, HandlerFact, Now
  <2>3. ~At(h, "idle") => Now(h).sub \in Subs
    BY <2>2 DEF Event
  <2> QED BY <2>1, <2>2, <2>3 DEF HandlerFact, At
<1> QED BY <1>1, <1>2, <1>3 DEF Consistent, HandlerFacts

LEMMA JobSteps == ASSUME Consistent, Worker PROVE Consistent'
<1> USE DEF stripeVars, dbVars, envVars
<1>0. /\ stripe \in [Subs -> StripeSub] /\ row \in [Subs -> Row]
      /\ rq \in [Requests -> Call] /\ rec \in Job /\ customer \in [Workspaces -> BOOLEAN]
      /\ faults \in 0..MaxFaults /\ crashes \in 0..MaxCrashes /\ MaxFaults \in Nat
      /\ plan \in [Workspaces -> {"FREE", "PRO"}] /\ JobFacts /\ LogAgrees
      /\ hd \in [Handlers -> Work] /\ HandlerFacts /\ ProHasSubscription /\ EndIsGenuine
  BY BillingAssumption DEF Consistent, TypeOK, BillingAssumption
<1>1. NextRow \in Job /\ NextRow.pc \in {"idle", "retrieve"} /\ NextRow.todo = rec.todo
  BY <1>0, EmptyRecords DEF NextRow, NoJob, Job
<1>2. ASSUME UNCHANGED <<stripe, events>>, \A s \in Subs : HasRow(s) => HasRow(s)',
             rec' = NextRow
      PROVE  JobFacts'
  BY <1>0, <1>1, <1>2 DEF JobFacts, Job
<1>3. CASE StartJob
  <2>1. rec' \in Job /\ rec'.pc = "retrieve"
        /\ rec'.todo = {s \in Subs : row[s].status \in Reconcilable}
    BY <1>0, <1>3, BillingAssumption DEF StartJob, NoJob, Job, BillingAssumption
  <2>2. JobFacts'
    BY <1>3, <2>1 DEF StartJob, JobFacts, HasRow, Reconcilable
  <2> QED BY <1>0, <1>3, <2>1, <2>2, QuietFrame DEF StartJob
<1>4. ASSUME NEW s \in Subs, JobRetrieve(s) PROVE Consistent'
  <2>1. stripe[s] \in StripeSub /\ rec.todo \subseteq Subs /\ s \in rec.todo
    BY <1>0, <1>4 DEF Job, JobRetrieve
  <2>2. rec' = [pc |-> "update", todo |-> rec.todo \ {s}, sub |-> s,
                seen |-> stripe[s].status, cancelAt |-> stripe[s].cancelAt]
    BY <1>4 DEF JobRetrieve
  <2>3. rec' \in Job
    BY <2>1, <2>2 DEF Job, StripeSub
  <2>4. UNCHANGED <<stripeVars, dbVars, hd, rq, envVars>>
    BY <1>4 DEF JobRetrieve
  <2>5. JobFacts'
    BY <1>0, <2>1, <2>2, <2>4 DEF JobFacts, LogAgrees, HasRow
  <2> QED BY <1>0, <2>3, <2>4, <2>5, QuietFrame
<1>5. CASE JobFault
  <2>1. rec' \in Job /\ rec'.pc \in {"idle", "retrieve"} /\ rec'.todo \subseteq rec.todo
    <3>1. CASE rec' = NextRow
      BY <1>1, <3>1
    <3>2. CASE rec' = NoJob
      BY <3>2, EmptyRecords
    <3>3. CASE \E s \in rec.todo : rec.pc = "retrieve" /\ rec' = [rec EXCEPT !.todo = @ \ {s}]
      BY <1>0, <3>3 DEF Job
    <3> QED BY <1>5, <3>1, <3>2, <3>3 DEF JobFault
  <2>2. JobFacts'
    BY <1>0, <1>5, <2>1 DEF JobFault, JobFacts, HasRow
  <2>3. faults' \in 0..MaxFaults
    BY <1>0, <1>5 DEF JobFault
  <2> QED BY <1>0, <1>5, <2>1, <2>2, <2>3, QuietFrame DEF JobFault
<1>6. CASE JobUpdate
  <2> DEFINE s == rec.sub
  <2> DEFINE new == MapStripeStatus(rec.seen)
  <2>1. rec.pc = "update" /\ row' = [row EXCEPT ![s] = [row[s] EXCEPT !.status = new,
                                                               !.cancelAt = rec.cancelAt]]
    BY <1>6 DEF JobUpdate
  <2>2. /\ s \in Subs /\ HasRow(s)
        /\ rec.seen = "canceled" => stripe[s].status = "canceled"
        /\ Lapsing(rec.seen) =>
             \E i \in DOMAIN events : events[i].sub = s /\ events[i].status = rec.seen
    BY <1>0, <2>1 DEF JobFacts
  <2>3. rec.cancelAt \in BOOLEAN /\ row[s] \in Row
        /\ rec.seen \in StripeStatuses \cup {"none", "session", "canceled"}
    BY <1>0, <2>2 DEF Job
  <2>4. /\ new \in SubscriptionStatus
        /\ new \in {"CANCELLED", "EXPIRED"} => Lapsing(rec.seen)
        /\ new = "CANCELLED" => rec.seen = "canceled"
        /\ new = "EXPIRED" => rec.seen = "unpaid"
    <3>1. "NONE" \in SubscriptionStatus \cup {"NONE"}
      OBVIOUS
    <3> QED BY <2>3, <3>1, StatusTables
  <2> HIDE DEF new
  <2>5. [row[s] EXCEPT !.status = new, !.cancelAt = rec.cancelAt] \in Row
        /\ [row[s] EXCEPT !.status = new, !.cancelAt = rec.cancelAt].status = new
    <3>1. row[s] \in Row /\ new \in SubscriptionStatus /\ rec.cancelAt \in BOOLEAN
      BY <2>3, <2>4
    <3> HIDE DEF s
    <3> QED BY <3>1 DEF Row
  <2> HIDE DEF s
  <2>6. /\ row' \in [Subs -> Row] /\ row'[s].status = new
        /\ \A t \in Subs \ {s} : row'[t] = row[t]
    BY <1>0, <2>1, <2>2, <2>5
  <2>7. \A t \in Subs : HasRow(t) => HasRow(t)'
    BY <2>4, <2>6 DEF HasRow, SubscriptionStatus
  <2>8. UNCHANGED <<stripe, events, acked, plan, customer, hook, hd, rq, faults, crashes>>
    BY <1>6 DEF JobUpdate
  <2>9. ProHasSubscription'
    BY <1>0, <2>7, <2>8 DEF ProHasSubscription
  <2>10. EndIsGenuine'
    <3>1. ASSUME NEW t \in Subs
          PROVE  /\ row'[t].status = "CANCELLED" => stripe[t].status = "canceled"
                 /\ row'[t].status = "EXPIRED" => \E i \in DOMAIN events :
                      events[i].sub = t /\ events[i].status = "unpaid"
      <4>1. CASE t = s
        BY <2>2, <2>4, <2>6, <4>1 DEF Lapsing
      <4>2. CASE t # s
        BY <1>0, <2>6, <4>2 DEF EndIsGenuine
      <4> QED BY <4>1, <4>2
    <3> QED BY <2>8, <3>1 DEF EndIsGenuine
  <2>11. CASE rec' = NextRow
    BY <1>0, <1>1, <1>2, <2>6, <2>7, <2>8, <2>9, <2>10, <2>11, JobFrame
  <2>12. CASE new \in {"CANCELLED", "EXPIRED"} /\ rec' = [rec EXCEPT !.pc = "downgrade"]
    <3>1. /\ rec' \in Job /\ rec'.pc = "downgrade" /\ rec'.sub = s
          /\ rec'.todo = rec.todo /\ rec'.seen = rec.seen
      BY <1>0, <2>12 DEF Job, s
    <3>2. rec.todo \subseteq Subs
      BY <1>0 DEF Job
    <3>3. JobFacts'
      BY <1>0, <2>2, <2>4, <2>7, <2>8, <2>12, <3>1, <3>2 DEF JobFacts
    <3> QED BY <1>0, <2>6, <2>7, <2>8, <2>9, <2>10, <3>1, <3>3, JobFrame
  <2> QED BY <1>6, <2>11, <2>12 DEF JobUpdate, new
<1>7. CASE JobDowngrade
  <2>1. plan' \in [Workspaces -> {"FREE", "PRO"}]
    BY <1>0, <1>7 DEF JobDowngrade
  <2>2. UNCHANGED <<stripe, events, acked, row, customer, hook, hd, rq, faults, crashes>>
    BY <1>7 DEF JobDowngrade
  <2>3. \A s \in Subs : HasRow(s)' <=> HasRow(s)
    BY <2>2 DEF HasRow
  <2>4. ProHasSubscription'
    BY <1>0, <1>7, <2>3 DEF JobDowngrade, ProHasSubscription
  <2>5. EndIsGenuine'
    BY <1>0, <2>2 DEF EndIsGenuine
  <2>6. rec' = NextRow
    BY <1>7 DEF JobDowngrade
  <2> QED BY <1>0, <1>1, <1>2, <2>1, <2>2, <2>3, <2>4, <2>5, <2>6, JobFrame
<1> QED BY <1>3, <1>4, <1>5, <1>6, <1>7 DEF Worker, JobStep

LEMMA CrashSteps == ASSUME Consistent, CrashServer \/ CrashWorker PROVE Consistent'
<1> USE DEF stripeVars, dbVars, envVars
<1>0. /\ TypeOK /\ LogAgrees /\ HookLogged /\ JobFacts /\ ProHasSubscription /\ EndIsGenuine
      /\ MaxCrashes \in Nat /\ rec \in Job
  BY BillingAssumption DEF Consistent, BillingAssumption, TypeOK
<1>1. CASE CrashServer
  <2>1. /\ hd' \in [Handlers -> Work] /\ \A h \in Handlers : hd'[h].pc = "idle"
        /\ rq' \in [Requests -> Call] /\ crashes' \in 0..MaxCrashes
    BY <1>0, <1>1, EmptyRecords DEF CrashServer, TypeOK
  <2>2. UNCHANGED <<stripe, events, acked, row, plan, customer, hook, rec, faults>>
    BY <1>1 DEF CrashServer
  <2>3. TypeOK' /\ LogAgrees' /\ HookLogged' /\ ProHasSubscription' /\ EndIsGenuine'
    BY <1>0, <2>1, <2>2 DEF TypeOK, LogAgrees, HookLogged, Bought, ProHasSubscription,
                            EndIsGenuine, HasRow
  <2>4. JobFacts' /\ HandlerFacts'
    BY <1>0, <2>1, <2>2 DEF JobFacts, HasRow, HandlerFacts, HandlerFact, At
  <2> QED BY <2>3, <2>4 DEF Consistent
<1>2. CASE CrashWorker
  <2>1. rec' \in Job /\ rec'.pc = "idle" /\ rec'.todo = {} /\ crashes' \in 0..MaxCrashes
    BY <1>0, <1>2, EmptyRecords DEF CrashWorker, TypeOK
  <2>2. JobFacts'
    BY <2>1 DEF JobFacts
  <2> QED BY <1>0, <1>2, <2>1, <2>2, QuietFrame DEF CrashWorker, TypeOK
<1> QED BY <1>1, <1>2

-----------------------------------------------------------------------------
(* The theorems. *)

LEMMA ConsistentInit == Init => Consistent
<1> SUFFICES ASSUME Init PROVE Consistent
  OBVIOUS
<1>1. TypeOK
  BY EmptyRecords, BillingAssumption
  DEF BillingAssumption, Init, TypeOK, StripeSub
<1>2. LogAgrees
  BY DEF Init, LogAgrees, Bought, Lapsing
<1>3. HookLogged /\ HandlerFacts /\ JobFacts
  BY EmptyRecords DEF Init, HookLogged, HandlerFacts, HandlerFact, At, JobFacts
<1>4. ProHasSubscription /\ EndIsGenuine
  BY DEF Init, ProHasSubscription, EndIsGenuine, NoRow
<1> QED BY <1>1, <1>2, <1>3, <1>4 DEF Consistent

LEMMA ConsistentNext == Consistent /\ [Next]_vars => Consistent'
<1> SUFFICES ASSUME Consistent, [Next]_vars PROVE Consistent'
  OBVIOUS
<1>1. CASE Stripe
  BY <1>1, StripeSteps
<1>2. CASE Server
  BY <1>2, HandlerSteps, HandlerInputs, RequestSteps DEF Server
<1>3. CASE Worker
  BY <1>3, JobSteps
<1>4. CASE CrashServer \/ CrashWorker
  BY <1>4, CrashSteps
<1>5. CASE UNCHANGED vars
  BY <1>5 DEF vars, stripeVars, dbVars, procVars, envVars, Consistent, TypeOK, LogAgrees,
              Bought, HookLogged, HandlerFacts, HandlerFact, At, Now, HasRow, JobFacts,
              ProHasSubscription, EndIsGenuine
<1> QED BY <1>1, <1>2, <1>3, <1>4, <1>5 DEF Next

\* The inductive invariant: types, the log, and what handlers and job rely on.
THEOREM BillingConsistent == Spec => []Consistent
  BY ConsistentInit, ConsistentNext, PTL DEF Spec

\* Every reachable state is type correct.
THEOREM BillingTypes == Spec => []TypeOK
<1>1. Consistent => TypeOK
  BY DEF Consistent
<1> QED BY <1>1, BillingConsistent, PTL

\* For any number of workspaces, subscriptions, handlers, faults and crashes, a
\* workspace that is PRO has a Subscription row.
THEOREM ProAlwaysHasSubscription == Spec => []ProHasSubscription
<1>1. Consistent => ProHasSubscription
  BY DEF Consistent
<1> QED BY <1>1, BillingConsistent, PTL

\* A row in CANCELLED or EXPIRED is one of a subscription that Stripe ended.
THEOREM EndAlwaysGenuine == Spec => []EndIsGenuine
<1>1. Consistent => EndIsGenuine
  BY DEF Consistent
<1> QED BY <1>1, BillingConsistent, PTL

\* Whoever takes PRO away, the subscription on the workspace's row has lapsed.
THEOREM DowngradesJustified == Spec => DowngradeJustified
<1>1. ASSUME Consistent, [Next]_vars, NEW w \in Workspaces,
             plan[w] = "PRO", plan'[w] = "FREE"
      PROVE  \E s \in Subs : WorkspaceOf[s] = w /\ HasRow(s) /\ Lapsed(s)
  <2>1. ASSUME NEW h \in Handlers, Downgrade(h)
        PROVE  \E s \in Subs : WorkspaceOf[s] = w /\ HasRow(s) /\ Lapsed(s)
    <3>1. /\ hd[h].ev \in DOMAIN events /\ HasRow(Now(h).sub) /\ Lapsing(Now(h).status)
      BY <1>1, <2>1 DEF Consistent, HandlerFacts, HandlerFact, Downgrade, At
    <3>2. Now(h) \in Event
      BY <1>1, <3>1 DEF Consistent, TypeOK, Now
    <3>3. Now(h).sub \in Subs
      BY <3>2 DEF Event
    <3>4. WorkspaceOf[Now(h).sub] = w
      BY <1>1, <2>1 DEF Downgrade, Consistent, TypeOK
    <3> QED BY <3>1, <3>3, <3>4 DEF Lapsed, Now
  <2>2. ASSUME JobDowngrade
        PROVE  \E s \in Subs : WorkspaceOf[s] = w /\ HasRow(s) /\ Lapsed(s)
    <3>1. /\ rec.sub \in Subs /\ HasRow(rec.sub) /\ Lapsing(rec.seen)
          /\ \E i \in DOMAIN events : events[i].sub = rec.sub /\ events[i].status = rec.seen
      BY <1>1, <2>2 DEF Consistent, JobFacts, JobDowngrade
    <3>2. WorkspaceOf[rec.sub] = w
      BY <1>1, <2>2 DEF JobDowngrade, Consistent, TypeOK
    <3> QED BY <3>1, <3>2 DEF Lapsed
  <2>3. ASSUME NEW h \in Handlers, Upgrade(h) PROVE FALSE
    BY <1>1, <2>3 DEF Upgrade, Consistent, TypeOK
  <2>4. CASE plan' = plan
    BY <1>1, <2>4
  <2> QED
    BY <1>1, <2>1, <2>2, <2>3, <2>4
    DEF Next, Stripe, Pay, ChangeStatus, EndSubscription, Notify, Server, HandlerStep,
        FindEvent, CreateEvent, CreateSubscription, FindSubscription, UpdateSubscription,
        SyncDeleted, InvoicePaid, MarkProcessed, MarkFailed, FinishReplay, Fault, Deliver,
        Replay, RequestStep, RequestFault, StartCheckout, StartCancel, ReadSubscription,
        CreateCustomer, CreateSession, CancelStripe, CancelLocal, Worker, JobStep, JobFault,
        StartJob, JobRetrieve, JobUpdate, CrashServer, CrashWorker,
        vars, stripeVars, dbVars, procVars, envVars
<1>2. Consistent /\ [Next]_vars =>
        [\A w \in Workspaces : plan[w] = "PRO" /\ plan'[w] = "FREE" =>
           \E s \in Subs : WorkspaceOf[s] = w /\ HasRow(s) /\ Lapsed(s)]_vars
  BY <1>1
<1> QED BY <1>2, BillingConsistent, PTL DEF Spec, DowngradeJustified

-----------------------------------------------------------------------------
(* Billing implements Entitlement. *)

\* What one more event means for the sets the abstract specification talks about.
Recorded(type, s, st) ==
  /\ Bought' = Bought \cup (IF type = "checkout.session.completed" THEN {s} ELSE {})
  /\ LapsedSubs' = LapsedSubs \cup (IF Lapsing(st) THEN {s} ELSE {})

LEMMA EmitSets ==
  ASSUME events \in Seq(Event),
         NEW type \in {"checkout.session.completed", "customer.subscription.updated",
                       "customer.subscription.deleted", "invoice.paid", "other"},
         NEW s \in Subs, NEW st \in StripeStatuses \cup {"canceled"}, NEW ca \in BOOLEAN,
         Emit(type, s, st, ca)
  PROVE  Recorded(type, s, st)
<1> DEFINE n == Len(events')
<1>1. /\ events' \in Seq(Event) /\ n = Len(events) + 1
      /\ \A i \in DOMAIN events : i \in DOMAIN events' /\ events'[i] = events[i]
      /\ events'[n].type = type /\ events'[n].sub = s /\ events'[n].status = st
  <2>1. Appended(type, s, st)
    BY EmitAppends, Zenon
  <2> QED BY <2>1 DEF Appended
<1>2. DOMAIN events' = DOMAIN events \cup {n}
  BY <1>1
<1> HIDE DEF n
<1> QED BY <1>1, <1>2 DEF Recorded, Bought, LapsedSubs, Lapsed

LEMMA EntitlementInit == Init => Ent!EntInit
  BY DEF Init, Ent!EntInit, Bought, LapsedSubs, Lapsed

LEMMA EntitlementNext ==
  ASSUME Consistent, [Next]_vars PROVE [Ent!EntNext]_(Ent!entVars)
<1> USE DEF Ent!EntNext, Ent!entVars
<1>0. /\ TypeOK /\ LogAgrees /\ HandlerFacts /\ JobFacts /\ events \in Seq(Event)
      /\ stripe \in [Subs -> StripeSub] /\ WorkspaceOf \in [Subs -> Workspaces]
      /\ StripeStatuses \subseteq {"active", "trialing", "past_due", "unpaid", "paused"}
      /\ "active" \in StripeStatuses /\ Notices \subseteq {"invoice.paid", "other"}
      /\ hd \in [Handlers -> Work] /\ plan \in [Workspaces -> {"FREE", "PRO"}]
  BY BillingAssumption DEF Consistent, TypeOK, BillingAssumption
<1>1. \A s \in Subs : stripe[s].cancelAt \in BOOLEAN
  BY <1>0 DEF StripeSub
<1>2. ASSUME UNCHANGED <<plan, events>> PROVE UNCHANGED Ent!entVars
  BY <1>2 DEF Bought, LapsedSubs, Lapsed
\* An event of a status s has already had, or that lapses a subscription once bought.
<1>3. ASSUME NEW s \in Subs, Bought' = Bought, s \in Bought, UNCHANGED plan,
             LapsedSubs' = LapsedSubs \/ LapsedSubs' = LapsedSubs \cup {s}
      PROVE  [Ent!EntNext]_(Ent!entVars)
  BY <1>3 DEF Ent!Lapse
<1>4. ASSUME NEW s \in Subs, Pay(s) PROVE [Ent!EntNext]_(Ent!entVars)
  <2>1. /\ stripe[s].status = "session" /\ UNCHANGED plan
        /\ Emit("checkout.session.completed", s, "active", FALSE)
    BY <1>4 DEF Pay, dbVars
  <2>2. Bought' = Bought \cup {s} /\ LapsedSubs' = LapsedSubs
    <3>1. "active" \in StripeStatuses \cup {"canceled"} /\ FALSE \in BOOLEAN /\ ~Lapsing("active")
      BY <1>0 DEF Lapsing
    <3>2. Recorded("checkout.session.completed", s, "active")
      BY <1>0, <2>1, <3>1, EmitSets, Zenon
    <3> QED BY <3>1, <3>2 DEF Recorded
  <2>3. s \notin Bought
    BY <1>0, <2>1 DEF LogAgrees
  <2> QED BY <2>1, <2>2, <2>3 DEF Ent!Buy
<1>5. ASSUME NEW s \in Subs, NEW st \in StripeStatuses \cup {"canceled"},
             NEW type \in {"customer.subscription.updated", "customer.subscription.deleted",
                           "invoice.paid", "other"},
             NEW ca \in BOOLEAN,
             stripe[s].status \in StripeStatuses, Emit(type, s, st, ca), UNCHANGED plan
      PROVE  [Ent!EntNext]_(Ent!entVars)
  <2>1. Bought' = Bought /\ (LapsedSubs' = LapsedSubs \/ LapsedSubs' = LapsedSubs \cup {s})
    <3>1. type \in {"checkout.session.completed", "customer.subscription.updated",
                     "customer.subscription.deleted", "invoice.paid", "other"}
      OBVIOUS
    <3>2. Recorded(type, s, st)
      BY <1>0, <1>5, <3>1, EmitSets, Zenon
    <3> QED BY <1>5, <3>2 DEF Recorded
  <2>2. stripe[s].status \notin {"none", "session"}
    BY <1>0, <1>5
  <2>3. s \in Bought
    BY <1>0, <2>2 DEF LogAgrees
  <2> QED BY <1>3, <1>5, <2>1, <2>3
<1>6. ASSUME NEW h \in Handlers, Upgrade(h) PROVE [Ent!EntNext]_(Ent!entVars)
  <2>1. hd[h].ev \in DOMAIN events /\ Now(h).type = "checkout.session.completed"
    BY <1>0, <1>6 DEF HandlerFacts, HandlerFact, Upgrade, At
  <2>2. Now(h) \in Event
    BY <1>0, <2>1 DEF Now
  <2>3. Now(h).sub \in Bought
    BY <2>1, <2>2 DEF Bought, Now, Event
  <2>4. /\ plan' = [plan EXCEPT ![WorkspaceOf[Now(h).sub]] = "PRO"]
        /\ Bought' = Bought /\ LapsedSubs' = LapsedSubs
    BY <1>6 DEF Upgrade, stripeVars, Bought, LapsedSubs, Lapsed
  <2>5. WorkspaceOf[Now(h).sub] \in Workspaces
    BY <1>0, <2>2 DEF Event
  <2> QED BY <2>3, <2>4, <2>5 DEF Ent!Enable
<1>7. ASSUME NEW s \in Subs, Lapsed(s), plan' = [plan EXCEPT ![WorkspaceOf[s]] = "FREE"],
             UNCHANGED events
      PROVE  [Ent!EntNext]_(Ent!entVars)
  <2>1. s \in LapsedSubs /\ Bought' = Bought /\ LapsedSubs' = LapsedSubs
    BY <1>7 DEF Bought, LapsedSubs, Lapsed
  <2>2. WorkspaceOf[s] \in Workspaces
    BY <1>0
  <2> QED BY <1>7, <2>1, <2>2 DEF Ent!Disable
<1>8. ASSUME NEW h \in Handlers, Downgrade(h) PROVE [Ent!EntNext]_(Ent!entVars)
  <2>1. hd[h].ev \in DOMAIN events /\ Lapsing(Now(h).status)
    BY <1>0, <1>8 DEF HandlerFacts, HandlerFact, Downgrade, At
  <2>2. Now(h) \in Event
    BY <1>0, <2>1 DEF Now
  <2>3. Now(h).sub \in Subs /\ Lapsed(Now(h).sub)
    BY <2>1, <2>2 DEF Lapsed, Now, Event
  <2> QED BY <1>7, <1>8, <2>3 DEF Downgrade, stripeVars
<1>9. ASSUME JobDowngrade PROVE [Ent!EntNext]_(Ent!entVars)
  <2>1. rec.sub \in Subs /\ Lapsed(rec.sub)
    BY <1>0, <1>9 DEF JobFacts, JobDowngrade, Lapsed
  <2> QED BY <1>7, <1>9, <2>1 DEF JobDowngrade, stripeVars
<1>10. CASE Stripe
  <2>1. ASSUME NEW s \in Subs, NEW st \in StripeStatuses, ChangeStatus(s, st)
        PROVE  [Ent!EntNext]_(Ent!entVars)
    BY <1>1, <1>5, <2>1 DEF ChangeStatus, Alive, dbVars
  <2>2. ASSUME NEW s \in Subs, EndSubscription(s) PROVE [Ent!EntNext]_(Ent!entVars)
    BY <1>1, <1>5, <2>2 DEF EndSubscription, Alive, dbVars
  <2>3. ASSUME NEW s \in Subs, NEW type \in Notices, Notify(s, type)
        PROVE  [Ent!EntNext]_(Ent!entVars)
    BY <1>0, <1>1, <1>5, <2>3 DEF Notify, dbVars
  <2> QED BY <1>4, <1>10, <2>1, <2>2, <2>3 DEF Stripe
<1>11. ASSUME NEW r \in Requests, CancelStripe(r) PROVE [Ent!EntNext]_(Ent!entVars)
  <2>1. CASE UNCHANGED events
    BY <1>2, <1>11, <2>1 DEF CancelStripe, dbVars
  <2>2. CASE /\ Alive(rq[r].sub)
             /\ Emit("customer.subscription.updated", rq[r].sub, stripe[rq[r].sub].status, TRUE)
    <3>1. rq[r] \in Call /\ rq[r].pc = "cancelStripe"
      BY <1>0, <1>11 DEF CancelStripe, TypeOK
    <3>2. rq[r].sub \in Subs
      BY <3>1, CallCases
    <3> QED BY <1>5, <1>11, <2>2, <3>2 DEF CancelStripe, Alive, dbVars
  <2> QED BY <1>11, <2>1, <2>2 DEF CancelStripe
<1>12. CASE Server
  <2>1. CASE UNCHANGED <<plan, events>>
    BY <1>2, <2>1
  <2> QED
    BY <1>6, <1>8, <1>11, <1>12, <2>1
    DEF Server, HandlerStep, FindEvent, CreateEvent, CreateSubscription, FindSubscription,
        UpdateSubscription, SyncDeleted, InvoicePaid, MarkProcessed, MarkFailed, FinishReplay,
        Fault, Deliver, Replay, RequestStep, RequestFault, StartCheckout, StartCancel,
        ReadSubscription, CreateCustomer, CreateSession, CancelLocal, stripeVars, dbVars
<1>13. CASE Worker
  BY <1>2, <1>9, <1>13 DEF Worker, JobStep, JobFault, StartJob, JobRetrieve, JobUpdate,
                           stripeVars, dbVars
<1>14. CASE CrashServer \/ CrashWorker \/ UNCHANGED vars
  BY <1>2, <1>14 DEF CrashServer, CrashWorker, vars, stripeVars, dbVars
<1> QED BY <1>10, <1>12, <1>13, <1>14 DEF Next

\* Every behaviour of the handlers, the requests, the job and their crashes is one
\* that the abstract specification of plans allows.
THEOREM BillingImplementsEntitlement == Spec => ImplementsEntitlement
  BY EntitlementInit, EntitlementNext, BillingConsistent, PTL
  DEF Spec, ImplementsEntitlement, Ent!EntSpec
-----------------------------------------------------------------------------
(* What keeps the timestamps of a row, as long as handlers do not meet. *)

LEMMA EmitKeeps ==
  ASSUME events \in Seq(Event), NEW type, NEW s, NEW st, NEW ca, Emit(type, s, st, ca)
  PROVE  \A i \in DOMAIN events : events'[i] = events[i]
<1>1. PICK e : events' = Append(events, e)
  BY DEF Emit
<1> QED BY <1>1

\* No step changes the event a handler is working on.
LEMMA EventsStay ==
  ASSUME Consistent, [Next]_vars PROVE \A i \in DOMAIN events : events'[i] = events[i]
<1>0. events \in Seq(Event)
  BY DEF Consistent, TypeOK
<1>1. CASE events' = events
  BY <1>1
<1>2. CASE \E type, s, st, ca : Emit(type, s, st, ca)
  BY <1>0, <1>2, EmitKeeps
<1>3. CASE Stripe
  BY <1>2, <1>3 DEF Stripe, Pay, ChangeStatus, EndSubscription, Notify
<1>4. CASE Server
  BY <1>1, <1>2, <1>4
  DEF Server, HandlerStep, FindEvent, CreateEvent, CreateSubscription, Upgrade,
      FindSubscription, UpdateSubscription, Downgrade, SyncDeleted, InvoicePaid, MarkProcessed,
      MarkFailed, FinishReplay, Fault, Deliver, Replay, RequestStep, RequestFault, StartCheckout,
      StartCancel, ReadSubscription, CreateCustomer, CreateSession, CancelStripe, CancelLocal,
      stripeVars
<1>5. CASE Worker \/ CrashServer \/ CrashWorker \/ UNCHANGED vars
  BY <1>1, <1>5
  DEF Worker, JobStep, JobFault, StartJob, JobRetrieve, JobUpdate, JobDowngrade, CrashServer,
      CrashWorker, vars, stripeVars
<1> QED BY <1>3, <1>4, <1>5 DEF Next

\* The steps of one handler.
HandlerActs(h) ==
  HandlerStep(h) \/ Fault(h) \/ \E i \in EventIds : Deliver(h, i) \/ Replay(h, i)

\* How a handler moves on: it keeps its event unless it takes up a new one, and only the
\* check of the timestamp leads to the update.
Moved(h) ==
  /\ \A g \in Handlers \ {h} : hd'[g] = hd[g]
  /\ hd'[h].pc \notin {"idle", "find"} => hd'[h].ev = hd[h].ev
  /\ hd'[h].pc = "updateSub" => FindSubscription(h) /\ Fresh(Now(h).sub, Now(h).created)

LEMMA HandlerMoves == ASSUME Consistent, NEW h \in Handlers, HandlerActs(h) PROVE Moved(h)
<1>0. hd \in [Handlers -> Work] /\ acked \subseteq DOMAIN events
  BY DEF Consistent, TypeOK
<1>1. ~At(h, "idle") => hd[h].ev \in DOMAIN events
  BY DEF Consistent, HandlerFacts, HandlerFact
<1>2. ASSUME NEW pc \in HandlerPC \ {"updateSub"}, Goto(h, pc) PROVE Moved(h)
  BY <1>0, <1>2, GotoTyped DEF Moved
<1>3. ASSUME NEW kind \in {"transient", "unknown"}, Catch(h, kind) PROVE Moved(h)
  BY <1>0, <1>3, CatchTyped DEF Moved
<1>4. ASSUME ~At(h, "idle"), Return(h) \/ Throw(h) PROVE Moved(h)
  <2>1. /\ hd'[h].pc \in {"idle", "replayed", "replayFailed"}
        /\ hd'[h].pc # "idle" => hd'[h].ev = hd[h].ev
        /\ \A g \in Handlers \ {h} : hd'[g] = hd[g]
    BY <1>0, <1>1, <1>4, ReturnTyped
  <2> QED BY <2>1 DEF Moved
<1>5. ASSUME hd' = [hd EXCEPT ![h] = NoWork] PROVE Moved(h)
  BY <1>0, <1>5, EmptyRecords DEF Moved
<1>6. ASSUME NEW i \in EventIds, Deliver(h, i) \/ Replay(h, i) PROVE Moved(h)
  <2>1. PICK replay \in BOOLEAN :
          hd' = [hd EXCEPT ![h] = [pc |-> "find", ev |-> i, kind |-> "unknown",
                                   replay |-> replay]]
    BY <1>6 DEF Deliver, Replay, Handle
  <2> QED BY <1>0, <2>1 DEF Moved
<1>pc. {"create", "upgrade", "downgrade", "markProcessed", "replayFailed"}
         \in SUBSET (HandlerPC \ {"updateSub"})
  BY DEF HandlerPC
<1>first. FirstCall(Now(h).type) \in HandlerPC \ {"updateSub"}
  BY FirstCallFits
<1>7. CASE FindEvent(h)
  BY <1>2, <1>4, <1>7, <1>pc, <1>first DEF FindEvent, At
<1>8. CASE CreateEvent(h)
  BY <1>2, <1>4, <1>8, <1>first DEF CreateEvent, At
<1>9. CASE CreateSubscription(h)
  BY <1>2, <1>3, <1>9, <1>pc DEF CreateSubscription
<1>10. CASE Upgrade(h) \/ Downgrade(h)
  BY <1>2, <1>10, <1>pc DEF Upgrade, Downgrade
<1>11. CASE FindSubscription(h)
  <2>1. CASE Fresh(Now(h).sub, Now(h).created)
    <3>1. Goto(h, "updateSub") /\ "updateSub" \in HandlerPC
      BY <1>11, <2>1 DEF FindSubscription, HandlerPC
    <3> QED BY <1>0, <1>11, <2>1, <3>1, GotoTyped DEF Moved
  <2>2. CASE ~Fresh(Now(h).sub, Now(h).created)
    BY <1>2, <1>11, <1>pc, <2>2 DEF FindSubscription
  <2> QED BY <2>1, <2>2
<1>12. CASE UpdateSubscription(h) \/ SyncDeleted(h) \/ InvoicePaid(h)
  BY <1>2, <1>3, <1>12, <1>pc DEF UpdateSubscription, SyncDeleted, InvoicePaid
<1>13. CASE MarkProcessed(h) \/ MarkFailed(h)
  BY <1>4, <1>13 DEF MarkProcessed, MarkFailed, At
<1>14. CASE FinishReplay(h)
  BY <1>5, <1>14 DEF FinishReplay
<1>15. CASE Fault(h)
  BY <1>2, <1>3, <1>4, <1>5, <1>15, <1>pc DEF Fault, At
<1> QED BY <1>6, <1>7, <1>8, <1>9, <1>10, <1>11, <1>12, <1>13, <1>14, <1>15
        DEF HandlerActs, HandlerStep

\* A row is stamped by updates alone, and a handler that is about to update still has the
\* newer event.
Guarded ==
  /\ \A s \in Subs : ~HasRow(s) => row[s].last = 0
  /\ \A h \in Handlers : At(h, "updateSub") => Fresh(Now(h).sub, Now(h).created)

Advanced == \A s \in Subs : row'[s].last >= row[s].last

LEMMA GuardedStep ==
  Consistent /\ Guarded /\ UpdatesApart /\ [Next]_vars => Guarded' /\ Advanced
<1> SUFFICES ASSUME Consistent, Guarded, UpdatesApart, [Next]_vars PROVE Guarded' /\ Advanced
  OBVIOUS
<1>0. /\ row \in [Subs -> Row] /\ hd \in [Handlers -> Work] /\ events \in Seq(Event)
      /\ \A s \in Subs : row[s].last \in Nat
      /\ \A h \in Handlers : ~At(h, "idle") => hd[h].ev \in DOMAIN events /\ Now(h) \in Event
  BY DEF Consistent, TypeOK, Row, HandlerFacts, HandlerFact, Now
<1>1. \A h \in Handlers : ~At(h, "idle") => Now(h).sub \in Subs /\ Now(h).created \in Nat
  BY <1>0 DEF Event
<1>2. \A i \in DOMAIN events : events'[i] = events[i]
  BY EventsStay
\* Steps that neither stamp a row nor bring a handler to its update.
<1>3. ASSUME \A s \in Subs : row'[s].last = row[s].last /\ (HasRow(s)' <=> HasRow(s)),
             \A h \in Handlers : hd'[h].pc = "updateSub" =>
                                 hd[h].pc = "updateSub" /\ hd'[h].ev = hd[h].ev
      PROVE  Guarded' /\ Advanced
  <2>1. ASSUME NEW h \in Handlers, At(h, "updateSub")' PROVE Fresh(Now(h).sub, Now(h).created)'
    <3>1. At(h, "updateSub") /\ Now(h)' = Now(h) /\ Now(h).sub \in Subs
      BY <1>0, <1>1, <1>2, <1>3, <2>1 DEF At, Now
    <3>2. Fresh(Now(h).sub, Now(h).created)
      BY <3>1 DEF Guarded
    <3>3. HasRow(Now(h).sub)' /\ row'[Now(h).sub].last = row[Now(h).sub].last
      BY <1>3, <3>1, <3>2 DEF Fresh, HasRow
    <3> QED BY <3>1, <3>2, <3>3 DEF Fresh, HasRow
  <2>2. \A s \in Subs : ~HasRow(s)' => row'[s].last = 0
    BY <1>3 DEF Guarded
  <2>3. Advanced
    BY <1>0, <1>3 DEF Advanced
  <2> QED BY <2>1, <2>2, <2>3 DEF Guarded
<1>4. ASSUME row' = row PROVE \A s \in Subs : row'[s].last = row[s].last /\ (HasRow(s)' <=> HasRow(s))
  BY <1>4 DEF HasRow
\* Steps of a handler h.
<1>5. ASSUME NEW h \in Handlers, HandlerActs(h) PROVE Guarded' /\ Advanced
  <2>1. Moved(h)
    BY <1>5, HandlerMoves
  <2>2. \A g \in Handlers : hd'[g].pc = "updateSub" =>
          (hd[g].pc = "updateSub" /\ hd'[g].ev = hd[g].ev) \/ (g = h /\ FindSubscription(h))
    BY <2>1 DEF Moved
  <2>3. CASE FindSubscription(h)
    <3>1. row' = row /\ At(h, "findSub")
      BY <2>3 DEF FindSubscription, dbVars
    <3>2. ASSUME NEW g \in Handlers, At(g, "updateSub")' PROVE Fresh(Now(g).sub, Now(g).created)'
      <4>1. Fresh(Now(g).sub, Now(g).created) /\ Now(g)' = Now(g)
        <5>1. CASE g = h
          <6>1. /\ hd'[h].ev = hd[h].ev /\ hd[h].ev \in DOMAIN events
                /\ Fresh(Now(h).sub, Now(h).created)
            BY <1>0, <2>1, <3>1, <3>2, <5>1 DEF Moved, At
          <6> QED BY <1>2, <5>1, <6>1 DEF Now
        <5>2. CASE g # h
          <6>1. hd'[g] = hd[g] /\ At(g, "updateSub") /\ hd[g].ev \in DOMAIN events
            BY <1>0, <2>1, <3>2, <5>2 DEF Moved, At
          <6> QED BY <1>2, <6>1 DEF Now, Guarded
        <5> QED BY <5>1, <5>2
      <4> QED BY <3>1, <4>1 DEF Fresh, HasRow
    <3>3. \A s \in Subs : ~HasRow(s)' => row'[s].last = 0
      BY <3>1 DEF Guarded, HasRow
    <3> QED BY <1>0, <3>1, <3>2, <3>3 DEF Guarded, Advanced
  <2>4. CASE UpdateSubscription(h)
    <3> DEFINE e == Now(h)
    <3>1. /\ At(h, "updateSub") /\ e.sub \in Subs /\ e.created \in Nat
          /\ row' = [row EXCEPT ![e.sub] = [status |-> NewStatus(e.status, row[e.sub].status),
                                            cancelAt |-> e.cancelAt, last |-> e.created]]
          /\ hd' = [hd EXCEPT ![h].pc = IF Lapsing(e.status) THEN "downgrade" ELSE "markProcessed"]
      BY <1>1, <2>4 DEF UpdateSubscription, At, Goto
    <3>2. Fresh(e.sub, e.created)
      BY <3>1 DEF Guarded
    <3>3. row'[e.sub].last = e.created /\ \A s \in Subs \ {e.sub} : row'[s] = row[s]
      BY <1>0, <3>1
    <3>4. e.created >= row[e.sub].last
      BY <1>0, <3>1, <3>2 DEF Fresh
    <3>5. Advanced
      <4>1. \A s \in Subs : row[s].last >= row[s].last
        BY <1>0
      <4> QED BY <3>3, <3>4, <4>1 DEF Advanced
    <3>6. row'[e.sub].status # "NONE"
      <4>1. row'[e.sub].status = NewStatus(e.status, row[e.sub].status)
        BY <1>0, <3>1
      <4>2. /\ e.status \in StripeStatuses \cup {"canceled"}
            /\ row[e.sub].status \in SubscriptionStatus \cup {"NONE"} /\ row[e.sub].status # "NONE"
        BY <1>0, <3>1, <3>2 DEF Event, Row, Fresh, HasRow, At
      <4> QED BY <4>1, <4>2, StatusTables
    <3> HIDE DEF e
    <3>7. ASSUME NEW g \in Handlers, At(g, "updateSub")' PROVE Fresh(Now(g).sub, Now(g).created)'
      <4>1. g # h
        BY <1>0, <3>1, <3>7 DEF At
      <4>2. hd'[g] = hd[g] /\ At(g, "updateSub") /\ Now(g)' = Now(g) /\ Now(g).sub \in Subs
        BY <1>0, <1>1, <1>2, <2>1, <3>7, <4>1 DEF Moved, At, Now
      <4>3. Now(g).sub # e.sub
        BY <3>1, <4>1, <4>2 DEF UpdatesApart, e
      <4>4. Fresh(Now(g).sub, Now(g).created)
        BY <4>2 DEF Guarded
      <4> QED BY <3>3, <4>2, <4>3, <4>4 DEF Fresh, HasRow
    <3>8. \A s \in Subs : ~HasRow(s)' => row'[s].last = 0
      BY <3>3, <3>6 DEF Guarded, HasRow
    <3> QED BY <3>5, <3>7, <3>8 DEF Guarded
  <2>5. ASSUME ~FindSubscription(h),
               \A s \in Subs : row'[s].last = row[s].last
               /\ (HasRow(s)' <=> HasRow(s)) PROVE Guarded' /\ Advanced
    BY <1>3, <2>2, <2>5
  <2>6. CASE SyncDeleted(h)
    <3>1. row' = row \/ (HasRow(Now(h).sub) /\ row' = [row EXCEPT ![Now(h).sub].status = "CANCELLED"])
      BY <2>6 DEF SyncDeleted
    <3>2. ASSUME NEW s \in Subs PROVE row'[s].last = row[s].last /\ (HasRow(s)' <=> HasRow(s))
      <4>1. CASE row' = row
        BY <4>1 DEF HasRow
      <4>2. CASE /\ HasRow(Now(h).sub)
                 /\ row' = [row EXCEPT ![Now(h).sub].status = "CANCELLED"]
        <5>1. CASE s = Now(h).sub
          <6>1. row'[s] = [row[s] EXCEPT !.status = "CANCELLED"]
            BY <1>0, <4>2, <5>1
          <6>2. row'[s].status = "CANCELLED" /\ row'[s].last = row[s].last
            BY <1>0, <6>1 DEF Row
          <6> QED BY <4>2, <5>1, <6>2 DEF HasRow
        <5>2. CASE s # Now(h).sub
          <6>1. row'[s] = row[s]
            BY <1>0, <4>2, <5>2
          <6> QED BY <6>1 DEF HasRow
        <5> QED BY <5>1, <5>2
      <4> QED BY <3>1, <4>1, <4>2
    <3>3. ~FindSubscription(h)
      BY <2>6 DEF SyncDeleted, FindSubscription, At
    <3> QED BY <2>5, <3>2, <3>3
  <2>7. CASE CreateSubscription(h)
    <3>1. \/ row' = row
          \/ ~Taken(Now(h).sub) /\ row' = [row EXCEPT ![Now(h).sub] = [NoRow EXCEPT !.status = "ACTIVE"]]
      BY <2>7 DEF CreateSubscription
    <3>2. At(h, "createSub") /\ Now(h).sub \in Subs /\ ~FindSubscription(h)
      BY <1>1, <2>7 DEF CreateSubscription, At, FindSubscription
    <3>3. CASE row' = row
      BY <1>4, <2>5, <3>2, <3>3
    <3>4. CASE ~Taken(Now(h).sub) /\ row' = [row EXCEPT ![Now(h).sub] = [NoRow EXCEPT !.status = "ACTIVE"]]
      <4> DEFINE s0 == Now(h).sub
      <4>1. ~HasRow(s0) /\ row[s0].last = 0
        BY <3>2, <3>4 DEF Taken, Guarded
      <4>2. row'[s0].last = 0 /\ row'[s0].status = "ACTIVE" /\ \A s \in Subs \ {s0} : row'[s] = row[s]
        BY <1>0, <3>2, <3>4 DEF NoRow
      <4>3. Advanced
        <5>1. \A s \in Subs : row'[s].last = row[s].last
          BY <4>1, <4>2
        <5> QED BY <1>0, <5>1 DEF Advanced
      <4>4. ASSUME NEW g \in Handlers, At(g, "updateSub")' PROVE Fresh(Now(g).sub, Now(g).created)'
        <5>1. At(g, "updateSub") /\ Now(g)' = Now(g) /\ Now(g).sub \in Subs
          BY <1>0, <1>1, <1>2, <2>2, <3>2, <4>4 DEF At, Now
        <5>2. Fresh(Now(g).sub, Now(g).created)
          BY <5>1 DEF Guarded
        <5>3. Now(g).sub # s0
          BY <4>1, <5>2 DEF Fresh
        <5> QED BY <4>2, <5>1, <5>2, <5>3 DEF Fresh, HasRow
      <4>5. \A s \in Subs : ~HasRow(s)' => row'[s].last = 0
        BY <4>2 DEF Guarded, HasRow
      <4> QED BY <4>3, <4>4, <4>5 DEF Guarded
    <3> QED BY <3>1, <3>3, <3>4
  <2>8. CASE row' = row /\ ~FindSubscription(h)
    BY <1>4, <2>5, <2>8
  <2>9. CASE \/ FindEvent(h) \/ CreateEvent(h) \/ Upgrade(h) \/ Downgrade(h) \/ InvoicePaid(h)
             \/ MarkProcessed(h) \/ MarkFailed(h) \/ FinishReplay(h) \/ Fault(h)
             \/ \E i \in EventIds : Deliver(h, i) \/ Replay(h, i)
    <3>1. row' = row
      BY <2>9 DEF FindEvent, CreateEvent, Upgrade, Downgrade, InvoicePaid, MarkProcessed, MarkFailed,
         FinishReplay, Fault, Deliver, Replay, dbVars
    <3> QED BY <2>3, <2>8, <3>1
  <2> QED BY <1>5, <2>3, <2>4, <2>6, <2>7, <2>9 DEF HandlerActs, HandlerStep
\* Everything else.
<1>6. ASSUME hd' = hd, row' = row PROVE Guarded' /\ Advanced
  BY <1>3, <1>4, <1>6
<1>7. ASSUME NEW r \in Requests, CancelLocal(r) PROVE Guarded' /\ Advanced
  <2>1. row' = [row EXCEPT ![rq[r].sub] = [row[rq[r].sub] EXCEPT !.cancelAt = TRUE]] /\ hd' = hd
    BY <1>7 DEF CancelLocal
  <2>2. \A s \in Subs : row'[s].last = row[s].last /\ row'[s].status = row[s].status
    BY <1>0, <2>1 DEF Row
  <2> QED BY <1>3, <2>1, <2>2 DEF HasRow
<1>8. CASE JobUpdate
  <2>1. /\ row' = [row EXCEPT ![rec.sub] = [row[rec.sub] EXCEPT !.status = MapStripeStatus(rec.seen),
                                                                !.cancelAt = rec.cancelAt]]
        /\ hd' = hd /\ rec.pc = "update"
    BY <1>8 DEF JobUpdate
  <2>2. rec.sub \in Subs /\ HasRow(rec.sub) /\ MapStripeStatus(rec.seen) # "NONE"
    <3>1. rec.seen \in StripeStatuses \cup {"none", "session", "canceled"}
      BY DEF Consistent, TypeOK, Job
    <3>2. "NONE" \in SubscriptionStatus \cup {"NONE"} /\ "NONE" \notin SubscriptionStatus
      BY DEF SubscriptionStatus
    <3>3. MapStripeStatus(rec.seen) \in SubscriptionStatus
      BY <3>1, <3>2, StatusTables
    <3> QED BY <2>1, <3>2, <3>3 DEF Consistent, JobFacts
  <2>3. \A s \in Subs : row'[s].last = row[s].last /\ (HasRow(s)' <=> HasRow(s))
    <3>1. \A s \in Subs \ {rec.sub} : row'[s] = row[s]
      BY <1>0, <2>1
    <3>2. row'[rec.sub].last = row[rec.sub].last /\ row'[rec.sub].status = MapStripeStatus(rec.seen)
      BY <1>0, <2>1, <2>2 DEF Row
    <3> QED BY <2>2, <3>1, <3>2 DEF HasRow
  <2> QED BY <1>3, <2>1, <2>3
<1>9. CASE CrashServer
  <2>1. row' = row /\ \A h \in Handlers : hd'[h].pc = "idle"
    BY <1>9, EmptyRecords DEF CrashServer, dbVars
  <2> QED BY <1>3, <1>4, <2>1
<1>10. CASE Stripe \/ CrashWorker \/ UNCHANGED vars
  BY <1>6, <1>10 DEF Stripe, Pay, ChangeStatus, EndSubscription, Notify, CrashWorker, vars, dbVars, procVars
<1>11. CASE Worker
  BY <1>6, <1>8, <1>11 DEF Worker, JobStep, JobFault, StartJob, JobRetrieve, JobDowngrade, dbVars
<1>12. CASE \E r \in Requests :
             \/ RequestStep(r) \/ RequestFault(r)
             \/ \E w \in Workspaces : StartCheckout(r, w)
             \/ \E s \in Subs : StartCancel(r, s)
  BY <1>6, <1>7, <1>12 DEF RequestStep, RequestFault, StartCheckout, StartCancel, ReadSubscription,
     CreateCustomer, CreateSession, CancelStripe, dbVars
<1>13. CASE \E h \in Handlers : HandlerActs(h)
  BY <1>5, <1>13
<1> QED BY <1>9, <1>10, <1>11, <1>12, <1>13 DEF Next, Server, HandlerActs

\* The check of Subscription.lastEventTimestamp (billing.service.ts:247) keeps the newer of
\* two events whatever their order, as long as no two handlers pass it for one subscription
\* at once: then a timestamp may go back, which the run billing_stale shows.
THEOREM TimestampsGuarded == Spec /\ []UpdatesApart => TimestampsAdvance
<1>1. Init => Guarded
  BY EmptyRecords DEF Init, Guarded, At, HasRow, NoRow
<1>2. Consistent /\ Guarded /\ UpdatesApart /\ [Next]_vars =>
        [\A s \in Subs : row'[s].last >= row[s].last]_vars
  BY GuardedStep DEF Advanced
<1> QED BY <1>1, <1>2, GuardedStep, BillingConsistent, PTL DEF Spec, TimestampsAdvance

=============================================================================

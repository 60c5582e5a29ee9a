# DevDesk: a formal model

TLA+ modules, TLC configurations and TLAPS proofs for the DevDesk backend, the
multi-tenant workspace and task API under `src/` (TypeScript, Express, Prisma on
PostgreSQL, BullMQ on Redis, Stripe). `PROJECT.json` lists the components, the
runs, the mutants, the hazards, the findings, the theorems, and for every
definition the source lines it stands for. Paths below omit the leading
`src/src/` of the repository where no confusion is possible.

Contents: [1 the system](#1-the-system) · [2 what can go wrong](#2-what-can-go-wrong) ·
[3 the plan](#3-the-plan) · [4 the modules](#4-the-modules) · [5 the runs](#5-the-runs) ·
[6 fairness](#6-fairness) · [7 the proofs](#7-the-proofs) · [8 disagreements](#8-disagreements-with-the-repositorys-own-words) ·
[9 abstractions](#9-abstractions-and-assumptions) · [10 what is not modelled](#10-what-is-not-modelled)

How to run them, in this directory:

    tlc -workers 2 -config billing_serial.cfg MCBilling
    tlapm BillingProofs.tla

## 1 The system

Two processes share one PostgreSQL database and one Redis:

* the **API process** (`app.ts`, `server.ts`) serves HTTP. Node runs one handler at a
  time, but every `await` lets another one in, so a handler is a process whose steps
  are its awaited calls. Services emit domain events on an in-process **event bus**
  (`events/eventBus.ts`), which calls the listeners synchronously and logs what they
  throw;
* the **worker process** (`worker.ts`) runs BullMQ workers: email, dead letters,
  invite expiry, and the nightly reconciliation of subscriptions. The worker for
  outbound webhooks exists and is never started.

Prisma is used almost without transactions: only `createWithOwner`, and
`removeMember`, use `$transaction`. What keeps two requests apart everywhere else is
a unique key, a version check, or nothing.

| component | state | operations | talks to |
|---|---|---|---|
| **Billing** (`modules/billing`, `job/processer/reconcile.ts`) | tables `Subscription`, `StripeWebhookEvent`, `BillingHistory`; `Workspace.plan`, limits, `stripeCustomerId` | Stripe's webhook (four event handlers), replay, checkout, cancel; nightly `reconcileSubscriptions` | Stripe (calls both ways), the workspace table |
| **Members and invites** (`modules/workspace`, `job/processer/invite.ts`) | `WorkspaceMember`, `WorkspaceInvite`, the delayed expiry job, its idempotency key in Redis | create, revoke, accept, resend invite; change role, remove; the expiry job | event bus (mail of the token), BullMQ, `User` |
| **Tasks and projects** (`modules/task`, `modules/project`) | `Task` with a version, `Project` with a status | create, update, change status, assign, delete; create, archive, activate, delete; lists | event bus, the member table |
| **Authentication** (`modules/authentication`) | `User`, its refresh token, verification and reset tokens; cooldown keys in Redis | register, verify, resend, login, refresh, logout, forget and reset password | event bus (mails), `createWithOwner` |
| **Outbound webhooks** (`modules/webhook`, `job/processer/webhook.ts`) | `WebhookEndpoint`, `WebhookDelivery`, delivery jobs | manage endpoints, dispatch, ping, deliver with retries | event bus, BullMQ, customers' servers |
| **Email jobs, dead letters** (`job/processer/email.ts`, `dlq.ts`) | email jobs, idempotency keys, dead-letter rows | send once, replay a transient failure | every mail listener |
| **Event bus and listeners** (`events`) | none | emit; notify, audit, mail, dispatch | everything above |
| **Notifications** (`modules/notification`) | `Notification.isRead` | list, mark read | event bus |
| **Repositories** (`shared/repository`) | none | one database call each; cursor pagination | all services |
| **HTTP shell** (`app.ts`, `middlewares`) | rate-limit counters | route, authenticate, validate, render errors | the services |

Interactions that matter most: Stripe's events and the nightly job write the same
rows; `acceptInvite`, `revokeInvite` and the expiry job write the same invite;
`removeMember` writes tasks behind the back of their version; `register` and
`acceptInvite` create the same user.

## 2 What can go wrong

The hazards, each with its line, are in `PROJECT.json`. In short, and with what makes
each component correct:

* **Billing.** Stripe delivers at least once, out of order, with times in whole
  seconds; two deliveries may be handled at once; each handler makes up to five
  separate writes and may fail or crash between any two; the job acts on what it
  retrieved before. Correct means: events are settled, a processed event is not run
  again, newer state is not overwritten by older, drift is repaired, PRO is given and
  taken for a reason, a cancellation is not forgotten.
* **Members and invites.** Read-then-write everywhere, a second write of PENDING by
  `createInvite`, a job that may expire what is being accepted, an acceptance in five
  separate writes. Correct means: always exactly the one owner, no member that is still
  "invited" (but for an invite accepted while it was being created), no invite that stays open for ever.
* **Tasks and projects.** Optimistic locking, events that carry a value read before
  the versioned write and are emitted after it, deletes that cascade, a client's version that nothing
  compares with the row that was read. Correct means: no
  lost update, no event that claims what never was, no orphan, no change that goes unreported.
* **Outbound webhooks.** A row and its job stored one after the other, an answer that is
  received and not recorded, an endpoint deleted under its deliveries, a last attempt
  recognised by a literal. Correct means: no success that was not, no failure before the
  last attempt, no outcome overwritten, no row left PENDING with no job to settle it unless a failure hit
  that very delivery, no endpoint called without end.
* **Authentication.** A registration in separate calls (user, slug, workspace, mail) that
  nothing undoes, a slug search that loops, tokens that overwrite each other, a session
  stored by the user's id on the strength of a token read before. Correct means: no two
  workspaces with one slug or one registered owner, no user without a workspace and no
  stored token without a mail except for a reason that can be named, no session that
  comes back except through a request then under way, and every request ends.
* **Events and mail.** Four listeners of one event that fail by themselves, a queue that
  retries, a key that is cleared under another name, dead letters that are replayed, crashes
  between any two of these. Correct means: no mail twice, no failure that nobody hears
  of, no failure that takes something else with it, and an end to all of it.
* **Lists.** Pages of a list that changes while it is read. Correct means: no row twice, none
  that stayed missed; for pages by number, at most one for each change.

## 3 The plan

Modules in the order of what they matter to the product: money, access, data, and what
follows from them. All of it is done: `Billing` with the abstract specification
`Entitlement`, `Membership`, `Tasks`, `Delivery` with the abstract specification `Courier`,
`Accounts`, `Activity`, `Pages`, and a module of proofs beside each of the seven. Every safety and
action property that a run expects to hold is also a theorem, but for `ProcessedIsFinal`; one of them
(`TimestampsAdvance`) under a stated hypothesis.

Runs are few and each answers one question: the smallest instance in which every action and
each hazard occurs (section 5).

What could follow, in this order:

1. the deletion of a workspace, which takes every row of it along while Stripe, the queues
   and the requests under way go on (section 10);
2. an abstract specification of `Activity`, as `Courier` is of `Delivery`: one output of each kind for
   every event, unless something failed that was its own;
3. the composition of `Membership` with `Accounts`, which share `User`: today each has the
   other's writes as actions of its own.

## 4 The modules

In all of them a request is a process with a program counter, an action is one awaited
call together with all the synchronous code that follows it, and what a request read
earlier is kept in its record and used later, stale or not. A call may fail
(`Fault`, `RequestFault`, `JobFault`), and a process may crash
(`Crash`, `CrashServer`, `CrashWorker`), which loses what it was doing
and nothing that is stored. `Billing` and `Delivery` bound the two separately (`MaxFaults`, `MaxCrashes`),
the other modules together (`MaxFaults`, `MaxFailures`). A call whose effect is stored and whose answer is lost is a
crash after the step.

Some definitions stand directly below a variant of themselves whose name says what is
broken (`ThrowAnswering200` above `Throw`). The variants are used by no
specification; `PROJECT.json` ("mutants") pairs each property with a variant that TLC
finds it to reject, so that no property is checked in vain.

### Billing (`Billing.tla`, instances in `MCBilling.tla`)

| state | in the code |
|---|---|
| `stripe`, `events`, `acked` | Stripe's records, the events it emitted with `created` in seconds, those answered 200 (environment) |
| `row` | `Subscription` by `stripeSubscriptionId`: status, `cancelAtPeriodEnd`, `lastEventTimestamp` (0 is null) |
| `plan`, `customer` | `Workspace.plan` (limits and `webhooksEnabled` are always written with it), `stripeCustomerId` set |
| `hook` | `StripeWebhookEvent.status` by `stripeEventId` |
| `hd`, `rq`, `rec` | webhook handlers, checkout and cancel requests, the nightly job |

`Deliver` → `FindEvent` → `CreateEvent` → the handler of the event type → `MarkProcessed`,
or the catch block: `MarkFailed`, then 500 for a transient error and 200 for any other,
as `processStripeEvent` does. `CreateSubscription`/`Upgrade` are
`handleCheckOutCompleted` (both unique keys are in `Taken`);
`FindSubscription`/`UpdateSubscription`/`Downgrade` are `handleSubscriptionUpdate`, whose
staleness check is made on the row as it was read; `SyncDeleted`/`Downgrade` are
`handleSubscriptionDeleted`; `InvoicePaid` always ends in the catch block when there is a
row, because the insert into `BillingHistory` passes a column the table lacks. `StatusMap` and `NewStatus` keep the
difference between the two status tables: the webhook leaves the column alone on a
status the table lacks (`undefined`), the job takes it for ACTIVE. `StartJob` …
`JobDowngrade` are `reconcileSubscriptions`, one row after the other, each error logged
and skipped. `Replay`/`FinishReplay` are `replyWebhookEvent`; whether a request can reach it is the
constant `ReplayWired`: the route `/admin/webhook/replay` has no `:eventId` parameter
(`billing.routes.ts:49`), so that the controller passes `undefined` on and no event is found; the properties
are meant to survive its repair.

`Entitlement.tla` is what billing promises of a plan, with no handler or table in it: a
workspace becomes PRO only after one of its subscriptions was bought, FREE only after one
has lapsed. Under `bought <- Bought`, `lapsed <- LapsedSubs` (read off Stripe's events) every
step of `Billing` is a step of `Entitlement` or a stutter.

### Members and invites (`Membership.tla`, `MCMembership.tla`)

One workspace; a person is an email.

| state | in the code |
|---|---|
| `users`, `member` | `User` rows; `WorkspaceMember.role` |
| `invite`, `late` | `WorkspaceInvite` by email (one row each, never deleted): status, role, whether `expiryJobId` is set; `expiresAt` passed |
| `early` | history: whose invite somebody began to accept while the `createInvite` that stored it was still at work |
| `job`, `claimed`, `wk` | the delayed expiry job with its attempts; the idempotency key in Redis; the worker |
| `rq` | the requests |

`StartInvite` … `SaveJob` are `createInvite`, call by call, with the count of members
taken at the very start and PENDING written a second time at the end;
`StartRevoke`, `StartAccept`, `CancelJob`, `Revoke`, `Accept` … `Join` are `revokeInvite` and
`acceptInvite`. The token an acceptance needs is in the mail, and in the list of invites as soon as the row is
stored (`workspace.routes.ts:83`, `workspace.repository.ts:195`), so an acceptance may overtake the rest of
`createInvite`. `CancelJob` cannot remove a job a worker holds, nor one the dead-letter
worker has added under another id. `StartExpiry`/`ReadInvite`/`Expire`/`JobFault` are the
processor with its idempotency key: a failed attempt clears the email worker's key
instead of its own, so later attempts end at once. `Retried` includes the dead letters.

### Tasks and projects (`Tasks.tla`, `MCTasks.tla`)

| state | in the code |
|---|---|
| `project`, `task` | `Project.status`; `Task`: project, status, assignee, version |
| `members` | users with a membership that can be removed |
| `events` | `task.status_changed` and `task.assigned` that were emitted |
| `past` | history: what each version of a task was written with |
| `rq` | the requests; `read` is history: the version of the row that the request read |

`StartWrite` → `Write` → `Report` are `updateTask`, `updateTaskStatus` and `assignTask`: the
first read, the `updateWithVersionCheck` with the version the client names, the second
read and the event. The client may name any version, even one that does not exist yet: the schema asks for a
number that is not negative (`task.validation.ts:24`), and nothing compares it with the row that was read.
`assignTask` tests a promise it does not await, so the
guard on membership is absent, as in the code. `Remove` is the transaction of `removeMember`, which unassigns without counting a
version. `StartCreate`/`Insert`, `StartDelete`/`Delete`, and the project requests follow
their handlers; the foreign key makes `Insert` fail when the project is gone and
`DeleteProject` takes the tasks along.

### Outbound webhooks (`Delivery.tla`, `MCDelivery.tla`)

| state | in the code |
|---|---|
| `endpoint` | `WebhookEndpoint` (`isActive` is never set to false) |
| `delivery` | `WebhookDelivery`: status, endpoint, attempt; GONE when the cascade has taken it |
| `job` | the delivery's BullMQ job: attempts that are over (`attemptsMade`), and how often it stalled |
| `calls`, `accepted` | history: calls made, deliveries answered with success |
| `struck` | history: deliveries that a failed call, or a crash before their job was stored, has hit |
| `rq`, `run` | dispatches and test pings of the API process; jobs the worker runs |

`StartDispatch`, `StartPing`, `CreateDelivery`, `Enqueue` are `dispatchEvent` and `sendTestPing`:
a dispatch goes on with the next endpoint after an error, a ping ends. `Take` … `Fail`
are `WebhookProcessor` between BullMQ's hand-outs: an endpoint that is gone is only logged, after
which signing without a secret throws, outside the `try`; an error inside it is caught,
recorded as FAILED on the last attempt, and thrown on (`Catch`). `CrashWorker` gives a
stalled job back once and fails it the second time, as BullMQ does by default.

The processor is modelled as written. `worker.ts` never calls `createWebhookWorker`, so in
the program as deployed nothing takes the jobs and every row stays PENDING. For that reason `Delivery`
assumes no fairness and claims no liveness: its properties are safety properties, which hold whether or not
anybody starts the worker.

`Courier` is what a customer is promised of one delivery. `Decide` is the moment at which the endpoint's
row was read (`FindEndpoint`), `Call` the `fetch`: between the two the endpoint may be deleted, so a
deleted endpoint can still be called, but only by a call decided before, and no later one is. `Succeed` and
`GiveUp` are the two updates of the row, `Lose` is a run that dies. In `Delivery` the outcome is the row's
status, `Going` the deliveries whose run is at `post`, and `lost` the job's stalls.

### Accounts (`Accounts.tla`, `MCAccounts.tla`)

Tokens, passwords and sessions are numbers, each drawn fresh; all registrations ask for the
same workspace name, so that they compete for one series of slugs.

| state | in the code |
|---|---|
| `users`, `verified`, `password` | `User` rows, `emailVerified`, `passwordHash` |
| `token` | `emailVerificationToken`, `resetPasswordToken`, `profileSetupToken` |
| `session` | `refreshTokenHash`, with the login and the password it goes back to (history) |
| `workspaces` | `Workspace` with its owner's `WorkspaceMember`, one transaction |
| `cooling`, `mailed` | cooldown keys in Redis; tokens queued to be mailed |
| `guests`, `revoked`, `outlived` | history: users made by `acceptInvite`; logins and passwords that were ended; those that a request then under way had read |
| `found`, `cut` | history: slugs that were found free, with the email and token of the request; emails and tokens of the requests that a failure ended while they had a token to mail, and whether a workspace was still to be created |
| `rq` | the requests |

`StartRegister`, `CreateUser`, `FindSlug` (one turn of the loop in `generateUniqueSlug`), `CreateWorkspace`
and `Mail` are `register`; `CheckCooldown`, `StoreToken`, `SetCooldown`, `Mail` are `resendVerification` and
`forgetPassword`; `StartUse` with `Verify`, `Reset`, `SetUp` are `verifyEmail`, `resetPassword` and
`completeProfile`, which write to the row they found by its token, whatever has become of it.
`StartLogin`/`StoreSession` and `StartRefresh`/`Rotate` are `login` and `refreshToken`, each a read and a later
write by the user's id; `Logout` is one write. `StartAccept`, `CreateGuest` and `StoreSession`
are what `acceptInvite` writes to `User`. A cooldown key may have lapsed whenever it is looked
for.

### Events, listeners and mail (`Activity.tla`, `MCActivity.tla`)

An output is an event with one of its listeners: a mail, an audit row, a notification, a
dispatch of webhooks.

| state | in the code |
|---|---|
| `kind` | the type of each event that was emitted |
| `pending`, `happened` | listeners that were called and have not ended; what they stored |
| `job`, `keys`, `sent` | email jobs of BullMQ; idempotency keys in Redis; how often each mail left |
| `dead` | the dead letter of each job, and what has become of it |
| `struck` | history: outputs one of whose own calls failed or was cut off |

`Emit` calls every listener of the type (the table `Listens` is read off `events/listeners`), `Listen`
is the last call of one of them, `ListenFails` its error, which the listener or the bus logs.
`Take` → `Reserve` → `Send` → `Finish` are `EmailProcessor` between BullMQ's hand-outs; an error
goes through `Clear` (which deletes the key `email:…`, where `eamil:…` was set) to `Fail`, which
counts the attempt, and from the last one to `Bury` (`moveToDLQ`, in the handler of `failed`).
`Replay`, `Close` and `ReplayFails` are the dead-letter worker. `WorkerCrash` gives an active job back once
and fails it the second time, and adds an open dead letter again.

### Pages of lists (`Pages.tla`, `MCPages.tla`)

A row is the number of its creation. One client walks one list at a time while others
change it.

| state | in the code |
|---|---|
| `created`, `table`, `listed` | rows ever created, not deleted, matched by the `where` clause |
| `walk`, `seen` | the client: list, cursor or page, the query it waits for; rows it was shown |
| `steady`, `count`, `torn` | history: rows listed ever since the walk began; repeats, arrivals, departures; whether a page was asked for after a row no longer listed |

`CursorPage` is `findManyWithCursorPagination`: one query of a row more than the page, the last
record of the page as the next cursor. `FindFirst`/`CountSecond` and `CountFirst`/`FindSecond` are
`findManyWithOffsetPagination`, whose two queries run at once and see two states. `Create`, `Delete`,
`Leave` and `ComeBack` are what other requests do to the table. `From` is what Prisma
finds from a cursor on: nothing if its row is deleted, and if its row only left the filter, the
row in its place is the one that is skipped. The latter is an assumption (section 9).

## 5 The runs

Distinct states and times are of one machine with two workers; all runs check
deadlock but `delivery`, `accounts`, `activity` and `pages`, where ids, secrets or changes run out
and an idle system rests.

| run | instance | asks | answer |
|---|---|---|---|
| `billing_serial` | `FairSpec`; 1 subscription, 1 handler at a time, 3 events, active/past_due, 1 failed call | `EverySettled`, `DriftRepaired`, `TimestampsAdvance`, `ProcessedIsFinal` | whatever is redelivered in whatever order, every event is settled, a canceled subscription leaves the live statuses for good, timestamps only advance, a processed event is never run again |
| `billing_requests` | `FairSpec`; a request, a handler, the job, `invoice.paid`, active/unpaid, 2 events, 2 failed calls; 237,683 states, 44 s | `EndIsGenuine`, `CancellationKept` | a cancellation that reached Stripe reaches the row, although the local write or the event's handler may fail and the job may write back an older read; no end of a subscription is invented |
| `billing_concurrent` | 2 subscriptions of one workspace, 2 handlers (symmetric), replay reachable, 2 events, 1 crash | `Consistent`, `ProHasSubscription`, `DowngradeJustified`, `ImplementsEntitlement` | full concurrency and crashes never separate a PRO plan from a row, and never take PRO without a lapsed subscription |
| `billing_stale` | 2 handlers, 3 events | `TimestampsAdvance` | violated: see section 8 |
| `billing_paid` | 1 crash, 2 events | `PaidIsPro` | violated: see section 8 |
| `membership` | `FairSpec`; owner and one other person, 2 requests, limit 2, 2 attempts, 2 failed calls or crashes; 692,526 states, 108 s | `OneOwner`, `NoPendingMember`, `Consistent`, `LateInvitesSettle` | one owner for ever, no member is listed as invited unless the acceptance was begun before `createInvite` had ended, and an invite past its 48 hours does not stay PENDING if nothing fails |
| `membership_join` | `FairSpec`, 1 request | `AcceptanceJoins` | violated: see section 8 |
| `tasks` | `FairSpec`; 1 project, 1 task, 1 user, 2 statuses, 2 requests, 2 versions, 1 failed call or crash; 478,040 states, 70 s | `EventsTrue`, `NoOrphan`, `Consistent`, `NoLostUpdate`, `ChangesReported` | no write is lost to one that did not name what it replaces; an event tells what its version was written with, and as the previous value what the version its request read was written with; no orphan; every stored change is reported |
| `delivery` | `Spec`; 2 endpoints, 2 deliveries (both symmetric), 1 request and 1 run at a time, 2 attempts, 1 failed call, 2 crashes; 1,317,086 states, 77 s | `SuccessIsReal`, `FailedIsExhausted`, `Consistent`, `OutcomeIsFinal`, `ImplementsCourier`, `PendingPursued` | whatever is retried, deleted or cut short, a recorded success was one, a recorded failure was the last attempt, outcomes stay unless the delivery's own run died, calls are decided only while the endpoint exists and are bounded, and a row is PENDING without a job only if a failure hit that very delivery |
| `accounts` | `FairSpec`; 2 persons, 2 requests, 4 secrets, 1 failure or crash; 742,140 states, 123 s | `Consistent`, `WorkspacesApart`, `RegistrationComplete`, `TokenDelivered`, `RevokedStaysRevoked`, `RequestsEnd` | registrations that race for an email or a slug never share a workspace; a user without one, or a stored token that nobody was mailed, goes back to a failure of that very registration or request, or to a slug that it had found free and another person took; an ended session comes back only through a request then under way; the slug search ends |
| `activity` | `FairSpec`; 2 events of 3 types (all four listeners, mail with and without others), 2 attempts and 1 on replay, 4 jobs, 3 failures or crashes; 207,299 states, 58 s | `Consistent`, `SentOnce`, `DeadLettered`, `Isolated`, `OutputsSettle` | no job mails twice, a failed one is a dead letter, what fails in one listener or job costs nothing elsewhere, and all of it comes to an end |
| `pages` | 5 rows, pages of 2, 3 changes; 818,424 states, 10 s | `NoRepeats`, `CursorComplete`, `RepeatsBounded`, `MissesBounded` | by cursor no row twice, and none missed while the cursors stay in the list; by number at most one repeat for each arrival and one miss for each departure, or arrival between the two queries of the last page |

**Why the bounds are enough.** A safety property of these modules is broken, when it is,
by two actors and one stored row: a reader whose value grows stale and a writer in
between. Two handlers, two requests or a handler with the job give every such pair; a
third actor adds no new kind of read. Three events make an order that is not the emission order with a stale
one in the middle (a checkout, an update, and another update or a deletion); two subscriptions of one workspace make the unique
key on `workspaceId` bite. Two failed calls reach "failed, retried, failed
again", which for the invite job with two attempts exhausts it and reaches the dead
letters. The invite run uses 2 attempts in place of 3 to get there within two faults; `LateInvitesSettle`
speaks of the behaviours of that run in which nothing fails, where the first attempt decides. In `delivery` an event reaches two
endpoints, one of which may be deleted under its delivery, and two attempts (the code
has 5) make a first, a last and a repeated one; two crashes fail a job. That two runs never hold one job is covered by the
proofs, for any number of runs. Two versions let a write meet its own version, an older one, one it was
overtaken by, and one that was named before it existed. Two persons and two requests are every pair of requests of `Accounts` for one
row of `User`, and every race for one slug; four secrets are a password and a token of a registration and
two more, or a password, a login and two refreshes. In `activity` three failures are two attempts that
fail and a call of the dead-letter worker or a crash besides. In `pages` five rows make two full
pages and the extra row that tells that there is a third; one page less would never use a second
cursor. The theorems of section 7 hold without any of these bounds.

`billing_serial` handles one delivery at a time because `TimestampsAdvance` and
`ProcessedIsFinal` are false of two (the first is `billing_stale`; the second is
promised nowhere and is a hazard in `PROJECT.json`).

## 6 Fairness

* **Billing.** Running code goes on: weak fairness of `HandlerStep`, `RequestStep` and
  `JobStep`; the nightly job is a repeatable BullMQ job, so it starts again whenever there
  is a row to examine. Stripe redelivers what was not answered 200: *strong* fairness of
  `Redeliver`, since a handler slot kept busy by other deliveries is a bound of the model and
  not of an Express server, which would accept the request at once.
* **Membership.** Requests and the worker's running job go on (weak). The 48 hours pass
  (weak, `PassExpiry`). A waiting job whose time has come is started (*strong*,
  `StartExpiry`, since the one worker slot may be taken by other jobs, and BullMQ serves the queue in order).
  Nobody is obliged to send a request.
* **Tasks.** A request that was started runs on.
* **Accounts.** The same (weak, `RequestStep`). No more is needed for the loop of
  `generateUniqueSlug`: each turn moves on to the next slug.
* **Activity.** The API process goes on while a listener can (weak, `Api`), and so does the worker
  process while a job or a dead letter can (weak, `Worker`). Which of them goes on is left open, so that
  nothing rests on an order.
* **Pages.** None: it has no liveness property, and a client need not read on.
* **Delivery.** None: `worker.ts` starts no worker for these jobs, so the code justifies no fairness of it,
  and the module has no liveness property.

Faults, crashes and the moves of Stripe and of clients are never fair. `LateInvitesSettle` and
`ChangesReported` are stated for behaviours without faults and crashes, because the code
does lose an expiry (the idempotency key) and an event (the error is returned after the
write) to a failed call.

## 7 The proofs

`BillingProofs`, `MembershipProofs`, `TasksProofs`, `DeliveryProofs`, `AccountsProofs`, `ActivityProofs`
and `PagesProofs` are checked by TLAPS to the last
leaf, for every value of the constants allowed by the one named `ASSUME` of each
module (which TLC evaluates in every run): any number of workspaces, subscriptions,
people, tasks, deliveries, jobs, rows, attempts, handlers, runs and requests, any limit or page size,
and any bound on events, faults, crashes, secrets and versions.

Each follows one argument: none of the safety invariants is inductive, because a step
relies on what its process read earlier. `Consistent` adds what must be known of every process at each value of its
program counter, and is proved with one lemma per action (or family of actions) and one step per conjunct. TLC
checks `Consistent` in the runs first.

* **Billing.** `Consistent` adds: `LogAgrees` (the events agree with Stripe's records: an
  event that says canceled is of a canceled subscription, which never comes back);
  `HookLogged`; `HandlerFacts` (a handler about to write a plan or a row has seen the row,
  and rows are never deleted; one about to downgrade handles an event of a lapsing status); `JobFacts` (what the job
  retrieved was once true, and an end stays true). Theorems: `BillingTypes`,
  `ProAlwaysHasSubscription`, `EndAlwaysGenuine` (it is not enough that the webhook is
  right: the job writes a status that it may have read long ago),
  `DowngradesJustified` (an action property from the same invariant) and
  `BillingImplementsEntitlement`: the initial state maps to the initial state, and each step
  to `Buy`, `Lapse`, `Enable`, `Disable` or a stutter. One theorem has a hypothesis about the whole
  behaviour. `TimestampsGuarded` (`TimestampsAdvance` if `[]UpdatesApart`): as long as no two handlers are past
  the check of one subscription's timestamp at once; `Guarded` says that what the check found still holds
  when the row is written, and `billing_stale` shows that without the hypothesis it need not. The hypothesis
  holds when one handler runs at a time, as in `billing_serial`, and admits any number of handlers of
  different subscriptions.
* **Membership.** `Consistent` adds `RequestFacts` (an acceptance that is past its status write finds a settled
  invite, unless it was early), `CreatedAlone` (while the invite of an email is being created nobody answers
  it and nobody has joined by it, unless early), `OneCreator` (the unique key admits
  one creator per email) and `InviteFirst` (a member was invited). Together they show what the second write
  of PENDING can spoil: the invite of one whose acceptance was begun before that write, and of nobody
  else. Theorems: `MembershipTypes`, `AlwaysOneOwner`, `NeverPendingMember`.
* **Tasks.** `Consistent` adds `PastAgrees` (the row is what its version was written
  with, except for an unassignment), `RequestFacts` (what a request read is what the version it read was
  written with, and that version is not above the one it replaces; what it reports was written by it) and
  `FreshIds`. Theorems: `EventsAlwaysTrue`, `NeverOrphan`, and `NoUpdateLost`, which is
  optimistic locking: a write that succeeds replaces the content of the version the client named, but for the
  unassignment that carries no version.
* **Delivery.** `Consistent` adds `OneRun` (an active job has exactly one run), `OneJob` (one
  request creates the job of a row), `CallsCounted` (every call was made by an attempt that is
  over, by a run that stalled, or by the run that has the job), `RunFacts` (what a program counter says of
  the answer and of the attempt), `RowsWithEndpoint` (rows go with their endpoint) and `SettledOnce`
  (unless a run died under it, a settled delivery is held by a run that only has to report it, or by none).
  It speaks of the delivery's own stalls and not of crashes at large, so `OutcomesFinal` holds of a
  delivery whatever else crashes. Theorems: `SuccessAlwaysReal`, `FailedAlwaysExhausted`,
  `CallsAlwaysBounded` (`Attempts + 1`, for any number of crashes, because a job stalls at most once
  before it fails), `OutcomesFinal`, `PendingAlwaysPursued` (its invariant adds `RunsClose`: a run that ends for
  good has settled its row, unless a call of the database failed under it) and
  `DeliveryImplementsCourier`: each step maps to a step of `Courier`
  or a stutter, by how `Going` changes with one run's program counter (`GoingMoves`) and, at `Decide`, by
  `RowsWithEndpoint`, `SettledOnce` and the count of calls.
* **Accounts.** `Consistent` falls into four parts that are proved one after the other. *Sound*
  (`TypeOK`, `Bounded`): a secret that is drawn next is nobody's. *Tokens* (`UsersFirst`,
  `OneRegistration`, `OwnToken`, `FoundFree`, `WorkspacesApart`): the unique email admits one registration
  per person, who has no workspace until it is done, and a token under way is
  stored, if at all, for the person and kind it was drawn for. Most steps are *quiet*: they change nothing
  these facts speak of but a program counter, which one lemma settles for all of them. *Outcomes* (`RegistrationComplete`, `TokenDelivered`): a request that
  leaves the program counters at which it still sees to a token or a workspace has mailed or stored it, was
  cut, or was outrun on the slug it had found. *Sessions* (`Distinct`,
  `RevokedKnown`, `RevokedStaysRevoked`): logins and passwords of two persons differ, and what a request
  relies on was ended, if at all, while it was under way. Theorems: `WorkspacesAlwaysApart`,
  `RegistrationAlwaysComplete`, `TokenAlwaysDelivered`, `RevokedAlwaysStays`.
* **Activity.** `Consistent` adds `JobsKnown` (the event of a job), `Accounted` (where each
  output is), `SentWithKey` (the key is set before the mail leaves, and stays: the wrong name in
  `Clear` is what makes a mail at most one), `Counted` and `Unharmed` (a job nobody struck is on its
  first attempt). What a step does to the job it is about is proved once for any step that leaves
  the others alone. Theorems: `AlwaysSentOnce`, `AlwaysDeadLettered`, `AlwaysIsolated`.
* **Pages.** What OFFSET and LIMIT return is stated by ranks in a finite set, so the lemmas come
  first: a later row has the larger rank (`Ranks`), what is taken has no gap (`TakeDown`), skipping one row is
  skipping the first (`SkipOne`), and a page without an extra row is the rest of the list (`TakeAll`). They use the
  least element of a set of numbers (well-foundedness of `<`), which spares them an induction. The
  invariant adds to the two theorems `Walked`: what was shown lies up to the cursor, and what may still be
  missed behind it. Theorems: `NeverRepeats`, `CursorsComplete`. For the walk by number the invariant is an
  account (`NumberInv`): every row that came in has paid for one shown again, or for one above the offset
  that may be; every row that left for one of the steady rows that the next offset skips. A row that comes in
  or leaves moves all later rows by one rank (`RankMoves`, `RankLeaves`), and a page is a window of ranks
  (`Window`). Theorems: `RepeatsPaid`, `MissesPaid`.

**Only model-checked.** The liveness properties (`EverySettled`, `DriftRepaired`,
`CancellationKept`, `LateInvitesSettle`, `ChangesReported`, `RequestsEnd`,
`OutputsSettle`): reasoning with fairness and
`ENABLED` is out of this prover's reach. And `ProcessedIsFinal`, in the run with one handler at a time: of two
deliveries of one event at once the one that fails writes FAILED over the other's PROCESSED, and under a hypothesis
that excludes them the claim would be no more than the check at the start of the handler. Everything else
that a run expects to hold is a theorem, `TimestampsAdvance` under the hypothesis above, because the
module admits the behaviours in which it is false.

## 8 Disagreements with the repository's own words

Each of these three is a run that TLC finds violated, quoted in full in `PROJECT.json` ("findings").

1. **`billing_stale`**, `billing.service.ts:239`. Two updates are handled at once: both
   read the row, the newer is written, then the older. The timestamp goes back and the
   row keeps the older status, although the code announces "Ignoring stale out-of-order event".
2. **`billing_paid`**, `billing.service.ts:198`. A crash between the subscription row and
   the plan: the redelivered event fails on the unique key, is stored FAILED and answered
   200. The workspace has paid and stays FREE; the README claims "Full webhook handling with
   idempotency".
3. **`membership_join`**, `workspace.service.ts:403`. `acceptInvite` stores ACCEPTED before
   the account exists. If the invitee registers in between, it fails on the unique email and
   the member is never created; the schema says "ACCEPTED // recipient accepted,
   WorkspaceMember created".

Met while modelling, and without a run of their own: the model does what the code does, and a
property that says the other would only repeat one line.

* `workspace.service.ts:208`: a new invite in place of an expired one passes every check and fails on
  the unique key; the code tells the invitee "Please request a new one".
* `workspace.service.ts:229`: who accepts an invite, with the token from the list of invites, before
  `createInvite` has stored the job's id is a member whose invite says PENDING until the expiry job writes
  EXPIRED; `schema.prisma:29` says "waiting for recipient to accept".
* `task.service.ts:226`: if the client names the version after the stored one and another request writes it
  meanwhile, the event reports a previous value that its write did not replace.
* `task.service.ts:146`: the check of the assignee's membership tests a promise that nobody
  awaits, so a task can be assigned to one who is no member.
* `auth.service.ts:218` says that a login on one device ends the session of another; a refresh
  under way at that moment stores its token over the new one's. `RevokedStaysRevoked` names this exception.
* `auth.service.ts:198` refuses a login to the unverified; `acceptInvite` stores a session for
  one who registered and has not verified. `completeProfile` sets a password and leaves the session.
* `email.ts:28` clears the key of another name, so every attempt after the first returns at once and counts
  as completed: a mail that failed is never sent again, although the queue asks for five attempts.
  `workers/email.ts:19` logs "email has been sent" then.
* `src/README.md` says cursor pagination throughout; notifications are paged by number, and
  `MissesBounded` says what that costs.
* `src/README.md:46` says "BullMQ handles delivery with exponential backoff retry. Every attempt is
  logged in `WebhookDelivery`"; the worker is never started, and an attempt that gets no answer is written only
  if it is the last one.

## 9 Abstractions and assumptions

* A database call is atomic and, if it fails, has no effect. Redis keys do not expire while
  they matter: the 24 h of an idempotency key are longer than all retries of a job.
* Left out as data no property tells apart: names, titles, descriptions, due dates, prices,
  subscription periods, the attempt counter of `StripeWebhookEvent`, tokens as strings.
* Reads made by one `Promise`-free run of the code whose results are used together
  (an invite with its user and member rows, a project's name check with its count) are one step.
* `removeMember` runs in one transaction; at READ COMMITTED its outcome is that of its two
  writes at once.
* `createInvite` finishes within the 48 hours it gives (`PassExpiry`).
* Event times are whole seconds, so consecutive events may carry the same one.
* Stripe emits an update for each change, never revives a canceled subscription, and refuses to
  update one. Checkout sessions beyond the bound on subscriptions are never paid.
* A worker that dies gives its job back (BullMQ's stalled check); the limit on how often is part of
  `Delivery` and left out of `Membership`. Whether a workspace has `webhooksEnabled`, and which
  endpoints have subscribed to an event, is left open in `Delivery`: any choice may be met.
* Users, emails and ids are never reused; a secret drawn is new. A token refused for its age is as one
  that is not presented.
* Prisma goes on from a cursor row that only left the filter as if the row were still there (`Pages`).
  `CursorComplete` excludes the case, and `NoRepeats` needs no more of it than that no row before the cursor is
  found.
* Two rows of one list are never created at the same instant (`Pages`), and no list is walked backwards,
  which no caller does. The history variables of `Accounts`, `Activity` and `Pages` record what
  the properties speak of and are read by no action.
* No error that the email worker meets is an `AppError`, so that the dead-letter class "permanent" does
  not occur.

## 10 What is not modelled

* **`deleteWorkspace`** deletes every row of the workspace in one call; what remains is at Stripe, which goes
  on charging, in queues, whose jobs then find nothing, and in requests that had read the workspace. It is
  the one operation with a state change that matters and no model (`PROJECT.json` lists the hazard).
* Its name (`updateWorkspace`), and `activateWorkspace`, which stores the workspace used last, are
  plain writes that nothing else reads. `resendInvite` writes nothing but a mail, and to `invite.role`
  in place of the email at that. `getMe` and the detail views only read.
* `BillingHistory` has no row to model. The mails' text, and what audit rows and notifications say, are
  data; that they come about is in `Activity`.
* The other methods of the repositories are one database call each, which is the grain of the
  actions. Access tokens and their hours, and the hours after which a stored token is refused, are
  left to the choice of what is presented.
* The HTTP shell (routing, validation, rate limits, error rendering, health) is input and output around the
  services: what schemas and routes admit appears as guards of the `Start…` actions. The
  idempotency-key middleware that `src/README.md` describes has no code.

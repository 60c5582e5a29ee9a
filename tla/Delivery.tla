------------------------------ MODULE Delivery ------------------------------
(***************************************************************************)
(* Outbound webhooks of one workspace: its endpoints, the delivery rows    *)
(* and jobs that the API process stores for an event or a test ping        *)
(* (webhook.service.ts), and the processor that calls the endpoints        *)
(* (job/processer/webhook.ts).                                             *)
(*                                                                         *)
(* A request is a process and each awaited call of it an action; so is the *)
(* run of a job.  BullMQ, which gives a job its attempts, and the          *)
(* customer's server are the environment.  A definition directly above the *)
(* one it resembles is a deliberately broken variant of it, which the      *)
(* properties are shown to reject.                                         *)
(***************************************************************************)
EXTENDS Naturals

CONSTANTS
  Endpoints, Deliveries,   \* ids that may come to exist; none is used twice
  None,                    \* no endpoint, no delivery
  Requests,                \* pings and dispatches the API process serves at once
  Runners,                 \* jobs the worker process runs at once
  Attempts,                \* attempts of a delivery job
  MaxFaults,               \* bound: calls of the database or of Redis that fail
  MaxCrashes               \* bound: crashes of the API process and of the worker

ASSUME DeliveryAssumption ==
  /\ None \notin Endpoints \cup Deliveries
  /\ Attempts \in Nat \ {0}
  /\ MaxFaults \in Nat /\ MaxCrashes \in Nat

VARIABLES
  endpoint,   \* table WebhookEndpoint: NONE before and DELETED after the row
  delivery,   \* table WebhookDelivery: status (GONE after the row), endpoint, attempt
  job,        \* the job of each delivery: finished attempts, and how often it stalled
  calls,      \* history: calls each delivery made to its endpoint
  accepted,   \* history: deliveries that their endpoint answered with success
  struck,     \* history: deliveries whose job was not stored, because a call failed or the
              \* process crashed before, or under whose run a call of the database failed
  rq,         \* the requests
  run,        \* the runs of jobs
  faults, crashes

vars == <<endpoint, delivery, job, calls, accepted, struck, rq, run, faults, crashes>>

NoDelivery == [status |-> "NONE", endpoint |-> None, attempt |-> 0]
NoJob == [state |-> "none", made |-> 0, stalls |-> 0]
NoRequest == [pc |-> "idle", todo |-> {}, delivery |-> None, ping |-> FALSE]
NoRun == [pc |-> "idle", delivery |-> None]

Live(e) == endpoint[e] = "LIVE"
Stored(d) == delivery[d].status \notin {"NONE", "GONE"}

At(r, pc) == rq[r].pc = pc
Finish(r) == rq' = [rq EXCEPT ![r] = NoRequest]
Begin(r, pc, todo, ping) ==
  rq' = [rq EXCEPT ![r] = [pc |-> pc, todo |-> todo, delivery |-> None, ping |-> ping]]

-----------------------------------------------------------------------------
(* createEndpoint, deleteEndpoint.  What each reads before it writes decides *)
(* only whether it is refused.                                             *)

CreateEndpoint(e) ==
  /\ endpoint[e] = "NONE"
  /\ endpoint' = [endpoint EXCEPT ![e] = "LIVE"]
  /\ UNCHANGED <<delivery, job, calls, accepted, struck, rq, run, faults, crashes>>

\* The rows of the endpoint's deliveries go with it; their jobs stay.
DeleteEndpoint(e) ==
  /\ Live(e)
  /\ endpoint' = [endpoint EXCEPT ![e] = "DELETED"]
  /\ delivery' = [d \in Deliveries |->
                    IF Stored(d) /\ delivery[d].endpoint = e
                      THEN [status |-> "GONE", endpoint |-> e, attempt |-> delivery[d].attempt]
                      ELSE delivery[d]]
  /\ UNCHANGED <<job, calls, accepted, struck, rq, run, faults, crashes>>

-----------------------------------------------------------------------------
(* dispatchEvent, which a listener calls for an event, and sendTestPing. *)

\* The workspace has webhooksEnabled, and any of its live endpoints may have
\* subscribed to the event.
StartDispatch(r) ==
  /\ At(r, "idle")
  /\ \E todo \in (SUBSET {e \in Endpoints : Live(e)}) \ {{}} :
       Begin(r, "createDelivery", todo, FALSE)
  /\ UNCHANGED <<endpoint, delivery, job, calls, accepted, struck, run, faults, crashes>>

StartPing(r, e) ==
  /\ At(r, "idle") /\ Live(e)
  /\ Begin(r, "createDelivery", {e}, TRUE)
  /\ UNCHANGED <<endpoint, delivery, job, calls, accepted, struck, run, faults, crashes>>

\* On with the endpoints that are left.
Proceed(r, rest) == IF rest = {} THEN Finish(r) ELSE Begin(r, "createDelivery", rest, FALSE)

\* The foreign key refuses a row for an endpoint that has been deleted since; the
\* error ends a ping, and a dispatch goes on with the next endpoint.
CreateDelivery(r) ==
  /\ At(r, "createDelivery")
  /\ \E e \in rq[r].todo :
       \/ /\ Live(e)
          /\ \E d \in Deliveries :
               /\ delivery[d].status = "NONE"
               /\ delivery' = [delivery EXCEPT ![d] = [status |-> "PENDING", endpoint |-> e,
                                                       attempt |-> 1]]
               /\ rq' = [rq EXCEPT ![r] = [pc |-> "queue", todo |-> rq[r].todo \ {e},
                                           delivery |-> d, ping |-> rq[r].ping]]
       \/ ~Live(e) /\ Proceed(r, rq[r].todo \ {e}) /\ UNCHANGED delivery
  /\ UNCHANGED <<endpoint, job, calls, accepted, struck, run, faults, crashes>>

Enqueue(r) ==
  /\ At(r, "queue")
  /\ job' = [job EXCEPT ![rq[r].delivery] = [state |-> "waiting", made |-> 0, stalls |-> 0]]
  /\ Proceed(r, rq[r].todo)
  /\ UNCHANGED <<endpoint, delivery, calls, accepted, struck, run, faults, crashes>>

\* The row is stored, and its job is next.
Queues(r, d) == At(r, "queue") /\ rq[r].delivery = d

\* dispatchEvent logs a failed call for one endpoint and goes on with the next.
RequestFault(r) ==
  /\ faults < MaxFaults /\ faults' = faults + 1
  /\ \/ At(r, "queue") /\ ~rq[r].ping /\ Proceed(r, rq[r].todo)
     \/ /\ At(r, "createDelivery") /\ ~rq[r].ping
        /\ \E e \in rq[r].todo : Proceed(r, rq[r].todo \ {e})
     \/ ~At(r, "idle") /\ rq[r].ping /\ Finish(r)
  /\ struck' = struck \cup {d \in Deliveries : Queues(r, d)}
  /\ UNCHANGED <<endpoint, delivery, job, calls, accepted, run, crashes>>

-----------------------------------------------------------------------------
(* WebhookProcessor, and what BullMQ does with its outcome. *)

Running(w, pc) == run[w].pc = pc
Step(w, pc) == run' = [run EXCEPT ![w].pc = pc]

Take(w, d) ==
  /\ Running(w, "idle") /\ job[d].state = "waiting"
  /\ job' = [job EXCEPT ![d].state = "active"]
  /\ run' = [run EXCEPT ![w] = [pc |-> "findEndpoint", delivery |-> d]]
  /\ UNCHANGED <<endpoint, delivery, calls, accepted, struck, rq, faults, crashes>>

LastAttemptEarly(d) == job[d].made + 2 >= Attempts
\* job.attemptsMade >= 4: no attempt is left after this one.
LastAttempt(d) == job[d].made + 1 >= Attempts

CatchPostingAgain(w) ==
  Step(w, IF LastAttempt(run[w].delivery) THEN "storeFailed" ELSE "post")
\* The catch block, which throws the error on.
Catch(w) == Step(w, IF LastAttempt(run[w].delivery) THEN "storeFailed" ELSE "fail")

FindEndpointCatching(w) ==
  /\ Running(w, "findEndpoint")
  /\ Step(w, IF Live(delivery[run[w].delivery].endpoint) THEN "post" ELSE "storeFailed")
  /\ UNCHANGED <<endpoint, delivery, job, calls, accepted, struck, rq, faults, crashes>>
\* An endpoint that is gone is not skipped: signing without its secret throws, before
\* the try.
FindEndpoint(w) ==
  /\ Running(w, "findEndpoint")
  /\ Step(w, IF Live(delivery[run[w].delivery].endpoint) THEN "post" ELSE "fail")
  /\ UNCHANGED <<endpoint, delivery, job, calls, accepted, struck, rq, faults, crashes>>

\* The endpoint answers with success, with an error, or not in time.
Post(w) ==
  LET d == run[w].delivery IN
  /\ Running(w, "post")
  /\ calls' = [calls EXCEPT ![d] = @ + 1]
  /\ \/ Step(w, "storeSuccess") /\ accepted' = accepted \cup {d}
     \/ Step(w, "storeAnswer") /\ UNCHANGED accepted
     \/ Catch(w) /\ UNCHANGED accepted
  /\ UNCHANGED <<endpoint, delivery, job, struck, rq, faults, crashes>>

Record(d, status) ==
  delivery' = [delivery EXCEPT ![d] = [status |-> status, endpoint |-> delivery[d].endpoint,
                                       attempt |-> job[d].made + 1]]

StoreSuccessThrowing(w) ==
  LET d == run[w].delivery IN
  /\ Running(w, "storeSuccess")
  /\ Catch(w)
  /\ IF Stored(d) THEN Record(d, "SUCCESS") ELSE UNCHANGED delivery
  /\ UNCHANGED <<endpoint, job, calls, accepted, struck, rq, faults, crashes>>
\* Without the row the update throws, inside the try.
StoreSuccess(w) ==
  LET d == run[w].delivery IN
  /\ Running(w, "storeSuccess")
  /\ \/ Stored(d) /\ Record(d, "SUCCESS") /\ Step(w, "complete")
     \/ ~Stored(d) /\ Catch(w) /\ UNCHANGED delivery
  /\ UNCHANGED <<endpoint, job, calls, accepted, struck, rq, faults, crashes>>

StoreAnswerAsSuccess(w) ==
  LET d == run[w].delivery IN
  /\ Running(w, "storeAnswer")
  /\ Catch(w)
  /\ IF Stored(d) THEN Record(d, "SUCCESS") ELSE UNCHANGED delivery
  /\ UNCHANGED <<endpoint, job, calls, accepted, struck, rq, faults, crashes>>
StoreAnswerReturning(w) ==
  LET d == run[w].delivery IN
  /\ Running(w, "storeAnswer")
  /\ Step(w, "complete")
  /\ IF Stored(d) THEN Record(d, delivery[d].status) ELSE UNCHANGED delivery
  /\ UNCHANGED <<endpoint, job, calls, accepted, struck, rq, faults, crashes>>
\* An answer that is not ok: the row keeps its status, and an error is thrown.
StoreAnswer(w) ==
  LET d == run[w].delivery IN
  /\ Running(w, "storeAnswer")
  /\ Catch(w)
  /\ IF Stored(d) THEN Record(d, delivery[d].status) ELSE UNCHANGED delivery
  /\ UNCHANGED <<endpoint, job, calls, accepted, struck, rq, faults, crashes>>

StoreFailed(w) ==
  LET d == run[w].delivery IN
  /\ Running(w, "storeFailed")
  /\ Step(w, "fail")
  /\ IF Stored(d) THEN Record(d, "FAILED") ELSE UNCHANGED delivery
  /\ UNCHANGED <<endpoint, job, calls, accepted, struck, rq, faults, crashes>>

Return(d, state) ==
  job' = [job EXCEPT ![d] = [state |-> state, made |-> job[d].made + 1, stalls |-> job[d].stalls]]

\* The processor has returned.
Complete(w) ==
  LET d == run[w].delivery IN
  /\ Running(w, "complete")
  /\ Return(d, "completed")
  /\ run' = [run EXCEPT ![w] = NoRun]
  /\ UNCHANGED <<endpoint, delivery, calls, accepted, struck, rq, faults, crashes>>

\* The processor has thrown: the job waits for its next attempt, if it has one.
Fail(w) ==
  LET d == run[w].delivery IN
  /\ Running(w, "fail")
  /\ Return(d, IF job[d].made + 1 < Attempts THEN "waiting" ELSE "failed")
  /\ run' = [run EXCEPT ![w] = NoRun]
  /\ UNCHANGED <<endpoint, delivery, calls, accepted, struck, rq, faults, crashes>>

\* The database fails.  Only what is inside the try is caught.
RunFault(w) ==
  /\ faults < MaxFaults /\ faults' = faults + 1
  /\ \/ run[w].pc \in {"findEndpoint", "storeFailed"} /\ Step(w, "fail")
     \/ run[w].pc \in {"storeSuccess", "storeAnswer"} /\ Catch(w)
  /\ struck' = struck \cup {run[w].delivery}
  /\ UNCHANGED <<endpoint, delivery, job, calls, accepted, rq, crashes>>

-----------------------------------------------------------------------------
(* The rest of the world. *)

CrashServer ==
  /\ crashes < MaxCrashes /\ crashes' = crashes + 1
  /\ \E r \in Requests : ~At(r, "idle")
  /\ rq' = [r \in Requests |-> NoRequest]
  /\ struck' = struck \cup {d \in Deliveries : \E r \in Requests : Queues(r, d)}
  /\ UNCHANGED <<endpoint, delivery, job, calls, accepted, run, faults>>

\* BullMQ takes back the jobs whose lock nobody renews; one that stalls a second time
\* fails.  No attempt is counted.
CrashWorker ==
  /\ crashes < MaxCrashes /\ crashes' = crashes + 1
  /\ \E w \in Runners : ~Running(w, "idle")
  /\ job' = [d \in Deliveries |->
               IF job[d].state # "active" THEN job[d]
               ELSE [state |-> IF job[d].stalls = 0 THEN "waiting" ELSE "failed",
                     made |-> job[d].made, stalls |-> job[d].stalls + 1]]
  /\ run' = [w \in Runners |-> NoRun]
  /\ UNCHANGED <<endpoint, delivery, calls, accepted, struck, rq, faults>>

Init ==
  /\ endpoint = [e \in Endpoints |-> "NONE"]
  /\ delivery = [d \in Deliveries |-> NoDelivery]
  /\ job = [d \in Deliveries |-> NoJob]
  /\ calls = [d \in Deliveries |-> 0]
  /\ accepted = {} /\ struck = {}
  /\ rq = [r \in Requests |-> NoRequest]
  /\ run = [w \in Runners |-> NoRun]
  /\ faults = 0 /\ crashes = 0

Continue(r) == CreateDelivery(r) \/ Enqueue(r)

RunStep(w) ==
  \/ FindEndpoint(w) \/ Post(w) \/ StoreSuccess(w) \/ StoreAnswer(w) \/ StoreFailed(w)
  \/ Complete(w) \/ Fail(w)

Start(r) == StartDispatch(r) \/ \E e \in Endpoints : StartPing(r, e)

Next ==
  \/ \E r \in Requests : Start(r) \/ Continue(r) \/ RequestFault(r)
  \/ \E w \in Runners : RunStep(w) \/ RunFault(w) \/ \E d \in Deliveries : Take(w, d)
  \/ \E e \in Endpoints : CreateEndpoint(e) \/ DeleteEndpoint(e)
  \/ CrashServer \/ CrashWorker

Spec == Init /\ [][Next]_vars

-----------------------------------------------------------------------------
(* Properties. *)

Delivery ==
  [status: {"NONE", "PENDING", "SUCCESS", "FAILED", "GONE"}, endpoint: Endpoints \cup {None},
   attempt: Nat]
Job == [state: {"none", "waiting", "active", "completed", "failed"}, made: Nat, stalls: 0..2]
Request ==
  [pc: {"idle", "createDelivery", "queue"},
   todo: SUBSET Endpoints, delivery: Deliveries \cup {None}, ping: BOOLEAN]
Run ==
  {NoRun}
  \cup [pc: {"findEndpoint", "post", "storeSuccess", "storeAnswer", "storeFailed", "complete",
             "fail"}, delivery: Deliveries]

TypeOK ==
  /\ endpoint \in [Endpoints -> {"NONE", "LIVE", "DELETED"}]
  /\ delivery \in [Deliveries -> Delivery]
  /\ job \in [Deliveries -> Job]
  /\ calls \in [Deliveries -> Nat]
  /\ accepted \subseteq Deliveries /\ struck \subseteq Deliveries
  /\ rq \in [Requests -> Request]
  /\ run \in [Runners -> Run]
  /\ faults \in 0..MaxFaults /\ crashes \in 0..MaxCrashes

\* The delivery history never claims a success that the endpoint did not confirm,
\* whatever ran before it, was retried or cut short.
SuccessIsReal == \A d \in Deliveries : delivery[d].status = "SUCCESS" => d \in accepted

\* A delivery is called FAILED only when its job has no attempt left, so that nobody
\* is told of a failure that a retry may still mend.
FailedIsExhausted ==
  \A d \in Deliveries : delivery[d].status = "FAILED" => job[d].made + 1 >= Attempts

\* A delivery that was settled stays as it is until its endpoint is deleted, whatever else
\* fails or crashes: only a run that died under this very delivery lets a later attempt
\* overwrite it.
OutcomeIsFinal ==
  [][\A d \in Deliveries :
       delivery[d].status \in {"SUCCESS", "FAILED"} /\ job[d].stalls = 0 =>
         delivery'[d] = delivery[d] \/ delivery'[d].status = "GONE"]_vars

\* Every delivery follows Courier, whatever fails, crashes or is deleted: a call is decided
\* only while the endpoint exists and the delivery is not settled, at most once per attempt and
\* once more for a lost run, and an outcome is recorded only after a call, and only if true.
Going == {d \in Deliveries : \E w \in Runners : Running(w, "post") /\ run[w].delivery = d}
Outcomes == [d \in Deliveries |-> delivery[d].status]
Lost == [d \in Deliveries |-> job[d].stalls]
Cou == INSTANCE Courier WITH outcome <- Outcomes, going <- Going, lost <- Lost
ImplementsCourier == Cou!CouSpec

\* No row is left PENDING with nobody to settle it: while it is, its job waits, runs or is
\* about to be stored, unless a failed call or a crash has hit this very delivery, or two
\* crashes of the worker have used up its job.  Attempts, answers, deletions and the
\* failures of other deliveries never strand it.
PendingPursued ==
  \A d \in Deliveries : delivery[d].status = "PENDING" =>
    \/ job[d].state \in {"waiting", "active"}
    \/ \E r \in Requests : Queues(r, d)
    \/ job[d].state \in {"none", "failed"} /\ d \in struck
    \/ job[d].state = "failed" /\ job[d].stalls = 2

-----------------------------------------------------------------------------
(* What the steps rely on, as an inductive invariant. *)

\* One run at a time has a job, and while it does the job is active.
OneRun ==
  /\ \A w \in Runners : ~Running(w, "idle") => job[run[w].delivery].state = "active"
  /\ \A v, w \in Runners :
       ~Running(v, "idle") /\ ~Running(w, "idle") /\ run[v].delivery = run[w].delivery => v = w
  /\ \A d \in Deliveries : job[d].state = "active" =>
       \E w \in Runners : ~Running(w, "idle") /\ run[w].delivery = d

\* Only one request creates the job of a row, and only for a row.
OneJob ==
  /\ \A d \in Deliveries : delivery[d].status = "NONE" => job[d] = NoJob /\ calls[d] = 0
  /\ \A r \in Requests : At(r, "queue") =>
       /\ rq[r].delivery \in Deliveries /\ job[rq[r].delivery].state = "none"
       /\ delivery[rq[r].delivery].status # "NONE"
  /\ \A r, q \in Requests :
       At(r, "queue") /\ At(q, "queue") /\ rq[r].delivery = rq[q].delivery => r = q

\* Every call was made by an attempt that was counted, by a run that stalled, or by
\* the run that has the job.
Called(w) == run[w].pc \in {"storeSuccess", "storeAnswer", "storeFailed", "complete", "fail"}
CallsCounted ==
  \A d \in Deliveries :
    /\ calls[d] <= job[d].made + job[d].stalls + 1
    /\ (\A w \in Runners : Called(w) => run[w].delivery # d) => calls[d] <= job[d].made + job[d].stalls
    /\ job[d].state = "none" => job[d] = NoJob
    /\ job[d].state \in {"waiting", "active"} => job[d].made < Attempts /\ job[d].stalls < 2
    /\ job[d].stalls = 2 => job[d].made < Attempts
    /\ job[d].made <= Attempts

\* The rows of an endpoint are stored after it and go with it.
RowsWithEndpoint ==
  \A d \in Deliveries : delivery[d].status # "NONE" =>
    /\ delivery[d].endpoint \in Endpoints
    /\ endpoint[delivery[d].endpoint] = IF Stored(d) THEN "LIVE" ELSE "DELETED"

\* What a run's program counter says of its delivery.
RunFacts ==
  \A w \in Runners :
    /\ run[w].pc \in {"storeSuccess", "storeAnswer", "storeFailed"} => calls[run[w].delivery] > 0
    /\ Running(w, "storeSuccess") => run[w].delivery \in accepted
    /\ Running(w, "storeFailed") => LastAttempt(run[w].delivery)

\* Unless a run died under it, a delivery that was settled is in the hands of a run that
\* only has to report it, or of no run any more.
SettledOnce ==
  \A d \in Deliveries : job[d].stalls = 0 =>
    /\ delivery[d].status = "SUCCESS" =>
         /\ job[d].state \in {"active", "completed"}
         /\ \A w \in Runners : run[w].delivery = d => Running(w, "complete")
    /\ delivery[d].status = "FAILED" =>
         /\ job[d].state \in {"active", "failed"}
         /\ \A w \in Runners : run[w].delivery = d => Running(w, "fail")

Consistent ==
  /\ TypeOK /\ SuccessIsReal /\ FailedIsExhausted /\ OneRun /\ OneJob /\ CallsCounted
  /\ RowsWithEndpoint /\ RunFacts /\ SettledOnce
=============================================================================

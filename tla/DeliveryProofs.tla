--------------------------- MODULE DeliveryProofs ---------------------------
(***************************************************************************)
(* Proofs about Delivery: the inductive invariant Consistent, and from it  *)
(* that a recorded success is real, that a failure is recorded only after  *)
(* the last attempt, that the calls of a delivery are bounded, that an     *)
(* outcome is final unless a run was lost, that no row is left PENDING     *)
(* with nobody to settle it, and that Delivery implements Courier.         *)
(***************************************************************************)
EXTENDS Delivery, TLAPS

LEMMA InitConsistent == Init => Consistent
<1> SUFFICES ASSUME Init PROVE Consistent
  OBVIOUS
<1>1. TypeOK
  BY DeliveryAssumption
  DEF DeliveryAssumption, Init, TypeOK, NoDelivery, Delivery, NoJob, Job, NoRequest, Request,
      NoRun, Run
<1>2. SuccessIsReal /\ FailedIsExhausted /\ SettledOnce
  BY DEF Init, SuccessIsReal, FailedIsExhausted, SettledOnce, NoDelivery
<1>3. OneRun /\ RunFacts
  BY DEF Init, OneRun, RunFacts, Running, NoRun, NoJob
<1>4. OneJob /\ RowsWithEndpoint
  BY DEF Init, OneJob, RowsWithEndpoint, At, NoRequest, NoDelivery
<1>5. CallsCounted
  BY DeliveryAssumption DEF DeliveryAssumption, Init, CallsCounted, NoJob
<1> QED BY <1>1, <1>2, <1>3, <1>4, <1>5 DEF Consistent

-----------------------------------------------------------------------------
(* The API process. *)

\* Nothing but the requests changes, and no request comes to the point where it
\* creates a job.
NoneQueues ==
  /\ rq' \in [Requests -> Request]
  /\ \A r \in Requests : rq'[r].pc = "queue" => rq'[r] = rq[r]

LEMMA RequestsOnly ==
  ASSUME Consistent, NoneQueues, UNCHANGED <<endpoint, delivery, job, calls, accepted, run>>,
         faults' \in 0..MaxFaults, crashes' \in 0..MaxCrashes, struck' \subseteq Deliveries
  PROVE  Consistent'
<1> USE DEF Consistent
<1>1. TypeOK'
  BY DEF TypeOK, NoneQueues
<1>2. SuccessIsReal' /\ FailedIsExhausted' /\ OneRun' /\ CallsCounted' /\ RunFacts'
  BY DEF SuccessIsReal, FailedIsExhausted, OneRun, CallsCounted, RunFacts, Running, Called, LastAttempt
<1>3. OneJob'
  BY DEF OneJob, NoneQueues, At
<1>4. RowsWithEndpoint' /\ SettledOnce'
  BY DEF RowsWithEndpoint, SettledOnce, Stored, Running
<1> QED BY <1>1, <1>2, <1>3, <1>4

LEMMA BeginsQuietly ==
  ASSUME TypeOK, NEW r \in Requests, NEW todo \in SUBSET Endpoints, NEW ping \in BOOLEAN,
         Begin(r, "createDelivery", todo, ping) \/ Finish(r)
  PROVE  NoneQueues
<1> DEFINE new == [pc |-> "createDelivery", todo |-> todo, delivery |-> None, ping |-> ping]
<1>1. new \in Request /\ NoRequest \in Request
  BY DEF Request, NoRequest
<1>2. rq' = [rq EXCEPT ![r] = new] \/ rq' = [rq EXCEPT ![r] = NoRequest]
  BY DEF Begin, Finish
<1>3. new.pc # "queue" /\ NoRequest.pc # "queue"
  BY DEF NoRequest
<1> HIDE DEF new
<1> QED BY <1>1, <1>2, <1>3 DEF NoneQueues, TypeOK

LEMMA ProceedsQuietly ==
  ASSUME TypeOK, NEW r \in Requests, NEW rest \in SUBSET Endpoints, Proceed(r, rest)
  PROVE  NoneQueues
BY BeginsQuietly DEF Proceed

LEMMA StartKeeps ==
  ASSUME Consistent, NEW r \in Requests, Start(r) PROVE Consistent'
<1> USE DEF Consistent
<1>1. NoneQueues
  <2>1. CASE StartDispatch(r)
    BY <2>1, BeginsQuietly DEF StartDispatch
  <2>2. CASE \E e \in Endpoints : StartPing(r, e)
    BY <2>2, BeginsQuietly DEF StartPing
  <2> QED BY <2>1, <2>2 DEF Start
<1>2. UNCHANGED <<endpoint, delivery, job, calls, accepted, struck, run, faults, crashes>>
  BY DEF Start, StartDispatch, StartPing
<1>3. faults' \in 0..MaxFaults /\ crashes' \in 0..MaxCrashes /\ struck' \subseteq Deliveries
  BY <1>2, DeliveryAssumption DEF TypeOK, DeliveryAssumption
<1> QED BY <1>1, <1>2, <1>3, RequestsOnly

LEMMA RequestFaultKeeps ==
  ASSUME Consistent, NEW r \in Requests, RequestFault(r) PROVE Consistent'
<1> USE DEF Consistent
<1>1. rq[r].todo \in SUBSET Endpoints
  BY DEF TypeOK, Request
<1>2. NoneQueues
  <2>1. CASE Finish(r)
    BY <2>1, BeginsQuietly
  <2>2. CASE Proceed(r, rq[r].todo)
    BY <2>2, <1>1, ProceedsQuietly
  <2>3. CASE \E e \in rq[r].todo : Proceed(r, rq[r].todo \ {e})
    BY <2>3, <1>1, ProceedsQuietly
  <2> QED BY <2>1, <2>2, <2>3 DEF RequestFault
<1>3. /\ UNCHANGED <<endpoint, delivery, job, calls, accepted, run, crashes>>
      /\ struck' \subseteq Deliveries
      /\ faults < MaxFaults /\ faults' = faults + 1
  BY DEF RequestFault, TypeOK
<1>4. /\ faults' \in 0..MaxFaults /\ crashes' \in 0..MaxCrashes
  BY <1>3, DeliveryAssumption DEF TypeOK, DeliveryAssumption
<1> QED BY <1>2, <1>3, <1>4, RequestsOnly

LEMMA CrashServerKeeps ==
  ASSUME Consistent, CrashServer PROVE Consistent'
<1> USE DEF Consistent
<1>1. NoneQueues
  BY DEF CrashServer, NoneQueues, NoRequest, Request
<1>2. faults' \in 0..MaxFaults /\ crashes' \in 0..MaxCrashes /\ struck' \subseteq Deliveries
  BY DeliveryAssumption DEF CrashServer, TypeOK, DeliveryAssumption
<1> QED BY <1>1, <1>2, RequestsOnly DEF CrashServer

LEMMA CreateEndpointKeeps ==
  ASSUME Consistent, NEW e \in Endpoints, CreateEndpoint(e) PROVE Consistent'
<1> USE DEF Consistent, CreateEndpoint
<1>1. TypeOK'
  BY DEF TypeOK
<1>2. SuccessIsReal' /\ FailedIsExhausted' /\ SettledOnce'
  BY DEF SuccessIsReal, FailedIsExhausted, SettledOnce, Running
<1>3. OneRun' /\ OneJob' /\ CallsCounted' /\ RunFacts'
  BY DEF OneRun, OneJob, CallsCounted, RunFacts, Running, At, Called, LastAttempt
<1>4. RowsWithEndpoint'
  BY DEF TypeOK, RowsWithEndpoint, Stored
<1> QED BY <1>1, <1>2, <1>3, <1>4

LEMMA DeleteEndpointKeeps ==
  ASSUME Consistent, NEW e \in Endpoints, DeleteEndpoint(e) PROVE Consistent'
<1> USE DEF Consistent
<1>1. UNCHANGED <<job, calls, accepted, struck, rq, run, faults, crashes>>
  BY DEF DeleteEndpoint
<1>2. TypeOK'
  BY DEF DeleteEndpoint, TypeOK, Delivery
<1>3. ASSUME NEW d \in Deliveries
      PROVE  /\ delivery'[d].status \in {delivery[d].status, "GONE"}
             /\ delivery[d].status = "NONE" => delivery'[d].status = "NONE"
             /\ delivery[d].status # "NONE" => delivery'[d].status # "NONE"
  BY DEF DeleteEndpoint, TypeOK, Delivery, Stored
<1>4. SuccessIsReal' /\ FailedIsExhausted' /\ SettledOnce'
  BY <1>1, <1>3 DEF SuccessIsReal, FailedIsExhausted, SettledOnce, Running
<1>5. OneJob'
  BY <1>1, <1>3 DEF OneJob, At
<1>6. OneRun' /\ CallsCounted' /\ RunFacts'
  BY <1>1 DEF OneRun, CallsCounted, RunFacts, Running, Called, LastAttempt
<1>7. RowsWithEndpoint'
  <2>1. /\ endpoint'[e] = "DELETED"
        /\ \A c \in Endpoints \ {e} : endpoint'[c] = endpoint[c]
    BY DEF DeleteEndpoint, TypeOK
  <2>2. ASSUME NEW d \in Deliveries, Stored(d), delivery[d].endpoint = e
        PROVE  delivery'[d].status = "GONE" /\ delivery'[d].endpoint = e
    BY <2>2 DEF DeleteEndpoint
  <2>3. ASSUME NEW d \in Deliveries, ~(Stored(d) /\ delivery[d].endpoint = e)
        PROVE  delivery'[d] = delivery[d]
    BY <2>3 DEF DeleteEndpoint
  <2>4. endpoint[e] = "LIVE"
    BY DEF DeleteEndpoint, Live
  <2> QED BY <2>1, <2>2, <2>3, <2>4 DEF RowsWithEndpoint, Stored
<1> QED BY <1>2, <1>4, <1>5, <1>6, <1>7

LEMMA CreateDeliveryKeeps ==
  ASSUME Consistent, NEW r \in Requests, CreateDelivery(r) PROVE Consistent'
<1> USE DEF Consistent
<1>1. UNCHANGED <<endpoint, job, calls, accepted, struck, run, faults, crashes>>
  BY DEF CreateDelivery
<1>2. rq[r].todo \in SUBSET Endpoints /\ rq[r] \in Request
  BY DEF TypeOK, Request
<1>3. CASE \E e \in rq[r].todo : Proceed(r, rq[r].todo \ {e}) /\ UNCHANGED delivery
  <2>1. NoneQueues
    BY <1>2, <1>3, ProceedsQuietly DEF Request
  <2>2. faults' \in 0..MaxFaults /\ crashes' \in 0..MaxCrashes /\ struck' \subseteq Deliveries
    BY <1>1, DeliveryAssumption DEF TypeOK, DeliveryAssumption
  <2> QED BY <1>1, <1>3, <2>1, <2>2, RequestsOnly
<1>4. ASSUME NEW e \in rq[r].todo, NEW d \in Deliveries, delivery[d].status = "NONE", Live(e),
             delivery' = [delivery EXCEPT ![d] = [status |-> "PENDING", endpoint |-> e,
                                                  attempt |-> 1]],
             rq' = [rq EXCEPT ![r] = [pc |-> "queue", todo |-> rq[r].todo \ {e},
                                      delivery |-> d, ping |-> rq[r].ping]]
      PROVE  Consistent'
  <2>1. [status |-> "PENDING", endpoint |-> e, attempt |-> 1] \in Delivery
    BY <1>2 DEF Delivery, Request
  <2>2. [pc |-> "queue", todo |-> rq[r].todo \ {e}, delivery |-> d, ping |-> rq[r].ping]
          \in Request
    BY <1>2 DEF Request
  <2>3. TypeOK'
    BY <1>1, <1>4, <2>1, <2>2 DEF TypeOK
  <2>4. /\ delivery'[d].status = "PENDING"
        /\ \A c \in Deliveries \ {d} : delivery'[c] = delivery[c]
    BY <1>4 DEF TypeOK
  <2>5. /\ rq'[r].pc = "queue" /\ rq'[r].delivery = d
        /\ \A q \in Requests \ {r} : rq'[q] = rq[q]
    BY <1>2, <1>4 DEF TypeOK, Request
  <2>6. job[d] = NoJob /\ job[d].state = "none"
    BY <1>4 DEF OneJob, NoJob
  <2>7. OneJob'
    BY <1>1, <1>4, <2>4, <2>5, <2>6 DEF OneJob, At
  <2>8. SuccessIsReal' /\ FailedIsExhausted' /\ SettledOnce'
    BY <1>1, <2>4 DEF SuccessIsReal, FailedIsExhausted, SettledOnce, Running
  <2>9. OneRun' /\ CallsCounted' /\ RunFacts'
    BY <1>1 DEF OneRun, CallsCounted, RunFacts, Running, Called, LastAttempt
  <2>10. RowsWithEndpoint'
    <3>1. delivery'[d].endpoint = e /\ e \in Endpoints /\ endpoint'[e] = "LIVE"
      BY <1>1, <1>2, <1>4 DEF TypeOK, Live
    <3> QED BY <1>1, <2>4, <3>1 DEF RowsWithEndpoint, Stored
  <2> QED BY <2>3, <2>7, <2>8, <2>9, <2>10
<1> QED BY <1>3, <1>4 DEF CreateDelivery

LEMMA EnqueueKeeps ==
  ASSUME Consistent, NEW r \in Requests, Enqueue(r) PROVE Consistent'
<1> USE DEF Consistent
<1> DEFINE d == rq[r].delivery
<1>1. UNCHANGED <<endpoint, delivery, calls, accepted, struck, run, faults, crashes>>
  BY DEF Enqueue
<1>2. d \in Deliveries /\ job[d].state = "none" /\ delivery[d].status # "NONE"
  BY DEF Enqueue, OneJob
<1>3. job[d] = NoJob
  BY <1>2 DEF CallsCounted
<1>4. NoneQueues
  <2>1. rq[r].todo \in SUBSET Endpoints
    BY DEF TypeOK, Request
  <2> QED BY <2>1, ProceedsQuietly DEF Enqueue
<1>5. job' = [job EXCEPT ![d] = [state |-> "waiting", made |-> 0, stalls |-> 0]]
  BY DEF Enqueue
<1>6. [state |-> "waiting", made |-> 0, stalls |-> 0] \in Job
  BY DEF Job
<1>7. TypeOK'
  BY <1>1, <1>2, <1>4, <1>5, <1>6 DEF TypeOK, NoneQueues
<1>8. /\ job'[d] = [state |-> "waiting", made |-> 0, stalls |-> 0]
      /\ \A c \in Deliveries \ {d} : job'[c] = job[c]
  BY <1>2, <1>5 DEF TypeOK
<1>9. \A w \in Runners : run[w].delivery # d
  BY <1>2, DeliveryAssumption DEF OneRun, Running, TypeOK, Run, NoRun, DeliveryAssumption
<1>10. delivery[d].status \notin {"SUCCESS", "FAILED"}
  BY <1>2, <1>3 DEF SettledOnce, NoJob
<1>11. SuccessIsReal' /\ FailedIsExhausted'
  BY <1>1, <1>2, <1>3, <1>8 DEF SuccessIsReal, FailedIsExhausted, NoJob
<1>12. SettledOnce' /\ RowsWithEndpoint'
  BY <1>1, <1>2, <1>8, <1>10 DEF SettledOnce, RowsWithEndpoint, Stored, Running
<1> HIDE DEF d
<1>18. \A w \in Runners : ~Running(w, "idle") => run[w].delivery \in Deliveries \ {d}
  BY <1>9 DEF Running, TypeOK, Run, NoRun
<1>13. OneRun'
  BY <1>1, <1>2, <1>8, <1>9, <1>18 DEF OneRun, Running
<1>14. RunFacts'
  BY <1>1, <1>8, <1>18 DEF RunFacts, Running, LastAttempt
<1>15. rq'[r].pc # "queue"
  BY DEF Enqueue, Proceed, Finish, Begin, NoRequest, TypeOK
<1>19. At(r, "queue") /\ d = rq[r].delivery
  BY DEF Enqueue, d
<1>16. OneJob'
  BY <1>1, <1>2, <1>4, <1>8, <1>15, <1>19 DEF OneJob, At, NoneQueues
<1>17. CallsCounted'
  <2>1. calls[d] <= 0
    BY <1>2, <1>3, <1>9 DEF CallsCounted, NoJob
  <2>2. ASSUME NEW c \in Deliveries
        PROVE  /\ calls'[c] <= job'[c].made + job'[c].stalls + 1
               /\ (\A w \in Runners : Called(w)' => run'[w].delivery # c) =>
                    calls'[c] <= job'[c].made + job'[c].stalls
               /\ job'[c].state = "none" => job'[c] = NoJob
               /\ job'[c].state \in {"waiting", "active"} =>
                    job'[c].made < Attempts /\ job'[c].stalls < 2
               /\ job'[c].stalls = 2 => job'[c].made < Attempts
               /\ job'[c].made <= Attempts
    <3>1. CASE c = d
      BY <3>1, <1>1, <1>8, <2>1, DeliveryAssumption DEF DeliveryAssumption, TypeOK
    <3>2. CASE c # d
      BY <3>2, <1>1, <1>8 DEF CallsCounted, Called
    <3> QED BY <3>1, <3>2
  <2> QED BY <2>2 DEF CallsCounted
<1> QED BY <1>7, <1>11, <1>12, <1>13, <1>14, <1>16, <1>17
-----------------------------------------------------------------------------
(* The worker.  A run at w that goes on to pc, with the job left alone. *)

Pcs == {"findEndpoint", "post", "storeSuccess", "storeAnswer", "storeFailed", "complete", "fail"}
CalledPcs == {"storeSuccess", "storeAnswer", "storeFailed", "complete", "fail"}

LEMMA RunHasJob ==
  ASSUME Consistent, NEW w \in Runners, run[w].pc # "idle"
  PROVE  /\ run[w].delivery \in Deliveries /\ run[w].pc \in Pcs
         /\ job[run[w].delivery].state = "active"
         /\ delivery[run[w].delivery].status # "NONE"
         /\ \A v \in Runners \ {w} : run[v].delivery # run[w].delivery
<1> USE DEF Consistent
<1>1. run[w].delivery \in Deliveries /\ run[w].pc \in Pcs
  BY DEF TypeOK, Run, NoRun, Pcs
<1>2. job[run[w].delivery].state = "active"
  BY DEF OneRun, Running
<1>3. delivery[run[w].delivery].status # "NONE"
  BY <1>1, <1>2 DEF OneJob, NoJob
<1>4. ASSUME NEW v \in Runners \ {w}, run[v].delivery = run[w].delivery PROVE FALSE
  <2>1. run[v].pc # "idle"
    BY <1>1, <1>4, DeliveryAssumption DEF TypeOK, Run, NoRun, DeliveryAssumption
  <2> QED BY <1>4, <2>1 DEF OneRun, Running
<1> QED BY <1>1, <1>2, <1>3, <1>4

\* Unless an earlier run died under it, a run that has something to do has an unsettled delivery.
LEMMA UnsettledYet ==
  ASSUME Consistent, NEW w \in Runners, run[w].pc \notin {"idle", "complete", "fail"},
         job[run[w].delivery].stalls = 0
  PROVE  delivery[run[w].delivery].status \notin {"SUCCESS", "FAILED"}
BY RunHasJob DEF Consistent, SettledOnce, Running

\* What a step of a run may do to its delivery.
Calls(w, pc) ==
  \/ calls' = calls /\ (Called(w) => pc \in CalledPcs)
  \/ calls' = [calls EXCEPT ![run[w].delivery] = @ + 1] /\ ~Called(w) /\ pc \in CalledPcs
Rows(w) ==
  \/ delivery' = delivery
  \/ /\ Stored(run[w].delivery)
     /\ \E status \in {delivery[run[w].delivery].status, "SUCCESS", "FAILED"} :
          Record(run[w].delivery, status)
Outcome(w, pc) ==
  LET d == run[w].delivery IN
  /\ accepted \subseteq accepted' /\ accepted' \subseteq Deliveries
  /\ delivery'[d].status = "SUCCESS" => d \in accepted' /\ (job[d].stalls = 0 => pc = "complete")
  /\ delivery'[d].status = "FAILED" => LastAttempt(d) /\ (job[d].stalls = 0 => pc = "fail")
  /\ pc = "storeSuccess" => d \in accepted'
  /\ pc = "storeFailed" => LastAttempt(d)
  /\ pc \in {"storeSuccess", "storeAnswer", "storeFailed"} => calls'[d] > 0

LEMMA RunMoves ==
  ASSUME Consistent, NEW w \in Runners, run[w].pc # "idle", NEW pc \in Pcs, Step(w, pc),
         Calls(w, pc), Rows(w), Outcome(w, pc),
         UNCHANGED <<endpoint, job, rq, crashes>>, faults' \in 0..MaxFaults,
         struck' \subseteq Deliveries
  PROVE  Consistent'
<1> USE DEF Consistent
<1> DEFINE d == run[w].delivery
<1>1. /\ d \in Deliveries /\ run[w].pc \in Pcs /\ job[d].state = "active"
      /\ delivery[d].status # "NONE" /\ \A v \in Runners \ {w} : run[v].delivery # d
  BY RunHasJob
<1>2. run[w] \in [pc : Pcs, delivery : Deliveries]
  BY <1>1 DEF TypeOK, Run, NoRun, Pcs
<1>3. /\ run'[w].pc = pc /\ run'[w].delivery = d /\ run'[w] \in [pc : Pcs, delivery : Deliveries]
      /\ \A v \in Runners \ {w} : run'[v] = run[v]
      /\ run' \in [Runners -> Run]
  BY <1>2 DEF TypeOK, Step, Run, Pcs
<1>4. /\ delivery'[d].status \in {delivery[d].status, "SUCCESS", "FAILED"}
      /\ \A c \in Deliveries \ {d} : delivery'[c] = delivery[c]
      /\ delivery' \in [Deliveries -> Delivery]
      /\ delivery'[d].endpoint = delivery[d].endpoint
      /\ delivery'[d].status \in {"NONE", "GONE"} <=> delivery[d].status \in {"NONE", "GONE"}
  <2>1. CASE delivery' = delivery
    BY <2>1 DEF TypeOK, Stored
  <2>2. ASSUME NEW status \in {delivery[d].status, "SUCCESS", "FAILED"}, Stored(d), Record(d, status)
        PROVE  <1>4!1 /\ <1>4!2 /\ <1>4!3 /\ <1>4!4 /\ <1>4!5
    <3>1. delivery[d] \in Delivery /\ job[d] \in Job
      BY <1>1 DEF TypeOK
    <3>2. /\ status \in {"NONE", "PENDING", "SUCCESS", "FAILED", "GONE"}
          /\ delivery[d].endpoint \in Endpoints \cup {None} /\ job[d].made + 1 \in Nat
      BY <3>1 DEF Delivery, Job
    <3> DEFINE new == [status |-> status, endpoint |-> delivery[d].endpoint,
                       attempt |-> job[d].made + 1]
    <3>3. new \in Delivery /\ new.status = status /\ new.endpoint = delivery[d].endpoint
      BY <3>2 DEF Delivery
    <3>4. delivery' = [delivery EXCEPT ![d] = new]
      BY <2>2 DEF Record
    <3> HIDE DEF new
    <3> QED BY <1>1, <2>2, <3>3, <3>4 DEF TypeOK, Stored
  <2> QED BY <2>1, <2>2 DEF Rows
<1>5. /\ calls' \in [Deliveries -> Nat]
      /\ \A c \in Deliveries \ {d} : calls'[c] = calls[c]
  BY <1>1 DEF Calls, TypeOK
<1> HIDE DEF d
<1>6. TypeOK'
  BY <1>3, <1>4, <1>5 DEF TypeOK, Outcome
<1>7. SuccessIsReal'
  BY <1>4 DEF SuccessIsReal, Outcome, d
<1>8. FailedIsExhausted'
  BY <1>4 DEF FailedIsExhausted, Outcome, LastAttempt, d
<1>9. OneRun'
  BY <1>1, <1>3 DEF OneRun, Running, d, Pcs
<1>10. OneJob'
  BY <1>1, <1>4, <1>5 DEF OneJob, At
<1>11. RunFacts'
  <2>1. \A v \in Runners \ {w} : run'[v].pc # "idle" =>
          run'[v] = run[v] /\ calls'[run[v].delivery] = calls[run[v].delivery]
    BY <1>1, <1>3, <1>5, RunHasJob
  <2> QED BY <1>1, <1>3, <2>1 DEF RunFacts, Running, LastAttempt, Outcome, d
<1>12. SettledOnce'
  BY <1>1, <1>3, <1>4 DEF SettledOnce, Running, Outcome, d
<1>13. CallsCounted'
  <2>1. ASSUME NEW c \in Deliveries \ {d}
        PROVE  (\A v \in Runners : Called(v)' => run'[v].delivery # c) =>
                 (\A v \in Runners : Called(v) => run[v].delivery # c)
    BY <1>3 DEF Called, d
  <2>2. /\ calls[d] <= job[d].made + job[d].stalls + 1
        /\ ~Called(w) => calls[d] <= job[d].made + job[d].stalls
    BY <1>1 DEF CallsCounted, Called, d
  <2>3. calls'[d] <= job[d].made + job[d].stalls + 1
    <3>1. CASE calls' = calls
      BY <2>2, <3>1
    <3>2. CASE calls' = [calls EXCEPT ![d] = @ + 1] /\ ~Called(w)
      BY <1>1, <2>2, <3>2 DEF TypeOK, Job
    <3> QED BY <3>1, <3>2 DEF Calls, d
  <2>4. (\A v \in Runners : Called(v)' => run'[v].delivery # d) =>
          calls'[d] <= job[d].made + job[d].stalls
    <3> SUFFICES ASSUME \A v \in Runners : Called(v)' => run'[v].delivery # d
                 PROVE  calls'[d] <= job[d].made + job[d].stalls
      OBVIOUS
    <3>1. pc \notin CalledPcs
      BY <1>3 DEF Called, CalledPcs
    <3> QED BY <2>2, <3>1 DEF Calls
  <2> QED BY <1>1, <1>5, <2>1, <2>3, <2>4 DEF CallsCounted
<1>14. RowsWithEndpoint'
  <2>1. ASSUME NEW c \in Deliveries
        PROVE  /\ delivery'[c].endpoint = delivery[c].endpoint
               /\ delivery'[c].status \in {"NONE", "GONE"} <=> delivery[c].status \in {"NONE", "GONE"}
    BY <1>4
  <2>2. \A c \in Deliveries : delivery'[c].status = "NONE" => delivery[c].status = "NONE"
    BY <1>1, <1>4
  <2> QED BY <1>1, <1>4, <2>1, <2>2 DEF RowsWithEndpoint, Stored
<1> QED BY <1>6, <1>7, <1>8, <1>9, <1>10, <1>11, <1>12, <1>13, <1>14

LEMMA FindEndpointKeeps ==
  ASSUME Consistent, NEW w \in Runners, FindEndpoint(w) PROVE Consistent'
<1>1. run[w].pc = "findEndpoint"
  BY DEF FindEndpoint, Running
<1>2. PICK pc \in {"post", "fail"} : Step(w, pc)
  BY DEF FindEndpoint
<1>3. UNCHANGED <<endpoint, delivery, job, calls, accepted, struck, rq, faults, crashes>>
  BY DEF FindEndpoint
<1>4. Calls(w, pc) /\ Rows(w)
  BY <1>1, <1>3 DEF Calls, Rows, Called
<1>5. Outcome(w, pc)
  BY <1>1, <1>2, <1>3, UnsettledYet, RunHasJob
  DEF Outcome, Consistent, SuccessIsReal, FailedIsExhausted, LastAttempt, TypeOK
<1>6. pc \in Pcs /\ faults' \in 0..MaxFaults /\ struck' \subseteq Deliveries
  BY <1>3 DEF Pcs, Consistent, TypeOK
<1> QED BY <1>1, <1>2, <1>3, <1>4, <1>5, <1>6, RunMoves

\* The program counter that a caught error leads to.
LEMMA Caught ==
  ASSUME NEW w \in Runners, Catch(w)
  PROVE  \E pc \in {"storeFailed", "fail"} :
           Step(w, pc) /\ (pc = "storeFailed" => LastAttempt(run[w].delivery))
BY DEF Catch

LEMMA PostKeeps ==
  ASSUME Consistent, NEW w \in Runners, Post(w) PROVE Consistent'
<1> DEFINE d == run[w].delivery
<1>1. run[w].pc = "post" /\ d \in Deliveries
  BY RunHasJob DEF Post, Running
<1>2. UNCHANGED <<endpoint, delivery, job, struck, rq, faults, crashes>>
  BY DEF Post
<1>3. \E pc \in {"storeSuccess", "storeAnswer", "storeFailed", "fail"} :
        /\ Step(w, pc) /\ (pc = "storeFailed" => LastAttempt(d))
        /\ accepted' = IF pc = "storeSuccess" THEN accepted \cup {d} ELSE accepted
  BY Caught DEF Post
<1>4. PICK pc \in {"storeSuccess", "storeAnswer", "storeFailed", "fail"} :
        /\ Step(w, pc) /\ (pc = "storeFailed" => LastAttempt(d))
        /\ accepted' = IF pc = "storeSuccess" THEN accepted \cup {d} ELSE accepted
  BY <1>3
<1>5. Calls(w, pc) /\ Rows(w)
  BY <1>1, <1>2 DEF Post, Calls, Rows, Called, CalledPcs
<1>8. calls'[d] > 0
  BY <1>1 DEF Post, Consistent, TypeOK
<1>6. Outcome(w, pc)
  BY <1>1, <1>2, <1>4, <1>8, UnsettledYet
  DEF Outcome, Consistent, SuccessIsReal, FailedIsExhausted, LastAttempt, TypeOK
<1>7. pc \in Pcs /\ faults' \in 0..MaxFaults /\ struck' \subseteq Deliveries
  BY <1>2 DEF Pcs, Consistent, TypeOK
<1> QED BY <1>1, <1>2, <1>4, <1>5, <1>6, <1>7, RunMoves

\* A run that writes its row, or finds it gone, and goes on to pc.
LEMMA StoreMoves ==
  ASSUME Consistent, NEW w \in Runners, NEW pc \in CalledPcs,
         run[w].pc \in {"storeSuccess", "storeAnswer", "storeFailed"}, Step(w, pc),
         Rows(w), Outcome(w, pc),
         UNCHANGED <<endpoint, job, calls, accepted, struck, rq, faults, crashes>>
  PROVE  Consistent'
<1>1. Calls(w, pc)
  BY DEF Calls
<1>2. pc \in Pcs /\ faults' \in 0..MaxFaults /\ struck' \subseteq Deliveries
  BY DEF CalledPcs, Pcs, Consistent, TypeOK
<1> QED BY <1>1, <1>2, RunMoves

LEMMA StoreSuccessKeeps ==
  ASSUME Consistent, NEW w \in Runners, StoreSuccess(w) PROVE Consistent'
<1> DEFINE d == run[w].delivery
<1>1. run[w].pc = "storeSuccess" /\ d \in Deliveries /\ d \in accepted /\ calls[d] > 0
  BY RunHasJob DEF StoreSuccess, Running, Consistent, RunFacts
<1>2. UNCHANGED <<endpoint, job, calls, accepted, struck, rq, faults, crashes>>
  BY DEF StoreSuccess
<1>3. CASE Stored(d) /\ Record(d, "SUCCESS") /\ Step(w, "complete")
  <2>1. delivery'[d].status = "SUCCESS"
    BY <1>1, <1>3 DEF Record, Consistent, TypeOK
  <2>2. Rows(w) /\ Outcome(w, "complete")
    BY <1>1, <1>2, <1>3, <2>1 DEF Rows, Outcome, Consistent, TypeOK
  <2> QED BY <1>1, <1>2, <1>3, <2>2, StoreMoves DEF CalledPcs
<1>4. CASE Catch(w) /\ UNCHANGED delivery
  <2>1. PICK pc \in {"storeFailed", "fail"} : Step(w, pc) /\ (pc = "storeFailed" => LastAttempt(d))
    BY <1>4, Caught
  <2>2. Rows(w) /\ Outcome(w, pc)
    BY <1>1, <1>2, <1>4, <2>1, UnsettledYet
    DEF Rows, Outcome, Consistent, FailedIsExhausted, LastAttempt, TypeOK
  <2> QED BY <1>1, <1>2, <2>1, <2>2, StoreMoves DEF CalledPcs
<1> QED BY <1>3, <1>4 DEF StoreSuccess

LEMMA StoreAnswerKeeps ==
  ASSUME Consistent, NEW w \in Runners, StoreAnswer(w) PROVE Consistent'
<1> DEFINE d == run[w].delivery
<1>1. run[w].pc = "storeAnswer" /\ d \in Deliveries /\ calls[d] > 0
  BY RunHasJob DEF StoreAnswer, Running, Consistent, RunFacts
<1>2. UNCHANGED <<endpoint, job, calls, accepted, struck, rq, faults, crashes>>
  BY DEF StoreAnswer
<1>3. PICK pc \in {"storeFailed", "fail"} : Step(w, pc) /\ (pc = "storeFailed" => LastAttempt(d))
  BY Caught DEF StoreAnswer
<1>4. Rows(w)
  BY DEF StoreAnswer, Rows
<1>5. delivery'[d].status = delivery[d].status
  BY <1>1 DEF StoreAnswer, Record, Consistent, TypeOK
<1>6. Outcome(w, pc)
  BY <1>1, <1>2, <1>3, <1>5, UnsettledYet
  DEF Outcome, Consistent, SuccessIsReal, FailedIsExhausted, LastAttempt, TypeOK
<1> QED BY <1>1, <1>2, <1>3, <1>4, <1>6, StoreMoves DEF CalledPcs

LEMMA StoreFailedKeeps ==
  ASSUME Consistent, NEW w \in Runners, StoreFailed(w) PROVE Consistent'
<1> DEFINE d == run[w].delivery
<1>1. run[w].pc = "storeFailed" /\ d \in Deliveries /\ LastAttempt(d)
  BY RunHasJob DEF StoreFailed, Running, Consistent, RunFacts
<1>2. UNCHANGED <<endpoint, job, calls, accepted, struck, rq, faults, crashes>> /\ Step(w, "fail")
  BY DEF StoreFailed
<1>3. Rows(w)
  BY DEF StoreFailed, Rows
<1>4. delivery'[d].status \in {delivery[d].status, "FAILED"}
  BY <1>1 DEF StoreFailed, Record, Consistent, TypeOK
<1>5. Outcome(w, "fail")
  BY <1>1, <1>2, <1>4, UnsettledYet DEF Outcome, Consistent, SuccessIsReal, TypeOK
<1> QED BY <1>1, <1>2, <1>3, <1>5, StoreMoves DEF CalledPcs

LEMMA RunFaultKeeps ==
  ASSUME Consistent, NEW w \in Runners, RunFault(w) PROVE Consistent'
<1> DEFINE d == run[w].delivery
<1>1. /\ UNCHANGED <<endpoint, delivery, job, calls, accepted, rq, crashes>>
      /\ run[w].pc \in {"findEndpoint", "storeSuccess", "storeAnswer", "storeFailed"}
  BY DEF RunFault
<1>2. d \in Deliveries /\ (run[w].pc # "findEndpoint" => calls[d] > 0)
  BY <1>1, RunHasJob DEF Consistent, RunFacts
<1>3. PICK pc \in {"storeFailed", "fail"} :
        /\ Step(w, pc) /\ (pc = "storeFailed" => LastAttempt(d))
        /\ run[w].pc = "findEndpoint" => pc = "fail"
  BY <1>1, Caught DEF RunFault
<1>4. faults' \in 0..MaxFaults /\ struck' \subseteq Deliveries
  BY <1>2, DeliveryAssumption DEF RunFault, Consistent, TypeOK, DeliveryAssumption
<1>5. Calls(w, pc) /\ Rows(w)
  BY <1>1, <1>3 DEF Calls, Rows, CalledPcs
<1>6. Outcome(w, pc)
  BY <1>1, <1>2, <1>3, UnsettledYet
  DEF Outcome, Consistent, SuccessIsReal, FailedIsExhausted, LastAttempt, TypeOK
<1> QED BY <1>1, <1>3, <1>4, <1>5, <1>6, RunMoves DEF Pcs

-----------------------------------------------------------------------------
(* What BullMQ does with the jobs. *)

LEMMA TakeKeeps ==
  ASSUME Consistent, NEW w \in Runners, NEW d \in Deliveries, Take(w, d) PROVE Consistent'
<1> USE DEF Consistent
<1>1. /\ run[w].pc = "idle" /\ job[d].state = "waiting"
      /\ UNCHANGED <<endpoint, delivery, calls, accepted, struck, rq, faults, crashes>>
  BY DEF Take, Running
<1>2. /\ job' \in [Deliveries -> Job]
      /\ job'[d].state = "active" /\ job'[d].made = job[d].made /\ job'[d].stalls = job[d].stalls
      /\ \A c \in Deliveries \ {d} : job'[c] = job[c]
  BY DEF Take, TypeOK, Job
<1>3. /\ run' \in [Runners -> Run]
      /\ run'[w].pc = "findEndpoint" /\ run'[w].delivery = d
      /\ \A v \in Runners \ {w} : run'[v] = run[v]
  BY DEF Take, TypeOK, Run
<1>4. \A v \in Runners : run[v].pc # "idle" => run[v].delivery \in Deliveries \ {d}
  BY <1>1, RunHasJob
<1>5. job[d].stalls = 0 => delivery[d].status \notin {"SUCCESS", "FAILED"}
  BY <1>1 DEF SettledOnce
<1>6. TypeOK' /\ SuccessIsReal'
  BY <1>1, <1>2, <1>3 DEF TypeOK, SuccessIsReal
<1>7. FailedIsExhausted'
  BY <1>1, <1>2 DEF FailedIsExhausted
<1>8. OneRun'
  BY <1>1, <1>2, <1>3, <1>4 DEF OneRun, Running
<1>9. OneJob'
  <2>1. delivery[d].status # "NONE" /\ \A r \in Requests : At(r, "queue") => rq[r].delivery # d
    BY <1>1 DEF OneJob, NoJob
  <2> QED BY <1>1, <1>2, <2>1 DEF OneJob, At
<1>10. RunFacts'
  BY <1>1, <1>2, <1>3, <1>4 DEF RunFacts, Running, LastAttempt
<1>11. SettledOnce'
  BY <1>1, <1>2, <1>3, <1>5 DEF SettledOnce, Running
<1>12. CallsCounted'
  <2>1. calls[d] <= job[d].made + job[d].stalls
    BY <1>4 DEF CallsCounted, Called
  <2>2. calls[d] <= job[d].made + job[d].stalls + 1 /\ job[d].made < Attempts /\ job[d].stalls < 2
    BY <1>1 DEF CallsCounted
  <2>3. ASSUME NEW c \in Deliveries,
               \A v \in Runners : Called(v)' => run'[v].delivery # c
        PROVE  \A v \in Runners : Called(v) => run[v].delivery # c
    BY <1>1, <1>3, <2>3 DEF Called
  <2> QED BY <1>1, <1>2, <2>1, <2>2, <2>3 DEF CallsCounted, TypeOK, Job
<1>13. RowsWithEndpoint'
  BY <1>1 DEF RowsWithEndpoint, Stored
<1> QED BY <1>6, <1>7, <1>8, <1>9, <1>10, <1>11, <1>12, <1>13

\* The run at w is over, and its job goes on to state.
LEMMA ReturnKeeps ==
  ASSUME Consistent, NEW w \in Runners, run[w].pc \in {"complete", "fail"},
         NEW state \in {"waiting", "completed", "failed"}, Return(run[w].delivery, state),
         run' = [run EXCEPT ![w] = NoRun],
         state = "waiting" => job[run[w].delivery].made + 1 < Attempts,
         job[run[w].delivery].stalls = 0 =>
           /\ delivery[run[w].delivery].status = "SUCCESS" => state = "completed"
           /\ delivery[run[w].delivery].status = "FAILED" => state = "failed",
         UNCHANGED <<endpoint, delivery, calls, accepted, struck, rq, faults, crashes>>
  PROVE  Consistent'
<1> USE DEF Consistent
<1> DEFINE d == run[w].delivery
<1>1. /\ d \in Deliveries /\ job[d].state = "active" /\ delivery[d].status # "NONE"
      /\ \A v \in Runners \ {w} : run[v].delivery # d
  BY RunHasJob
<1>2. [state |-> state, made |-> job[d].made + 1, stalls |-> job[d].stalls] \in Job
  BY <1>1 DEF TypeOK, Job
<1>3. /\ job' \in [Deliveries -> Job] /\ job'[d].state = state
      /\ job'[d].made = job[d].made + 1 /\ job'[d].stalls = job[d].stalls
      /\ \A c \in Deliveries \ {d} : job'[c] = job[c]
  BY <1>1, <1>2 DEF Return, TypeOK
<1>4. /\ run' \in [Runners -> Run] /\ run'[w] = NoRun
      /\ run'[w].pc = "idle" /\ run'[w].delivery \notin Deliveries
      /\ \A v \in Runners \ {w} : run'[v] = run[v]
  BY DeliveryAssumption DEF TypeOK, Run, NoRun, DeliveryAssumption
<1>5. \A v \in Runners : run'[v].delivery # d
  BY <1>1, <1>4
<1>6. d = run[w].delivery
  OBVIOUS
<1> HIDE DEF d
<1>7. TypeOK' /\ SuccessIsReal'
  BY <1>3, <1>4 DEF TypeOK, SuccessIsReal
<1>8. FailedIsExhausted'
  BY <1>1, <1>3, DeliveryAssumption DEF FailedIsExhausted, TypeOK, Job, DeliveryAssumption
<1>9. OneRun'
  <2>1. \A v \in Runners : run'[v].pc # "idle" =>
          /\ v # w /\ run'[v] = run[v] /\ run[v].delivery \in Deliveries \ {d}
          /\ job'[run[v].delivery] = job[run[v].delivery]
    BY <1>1, <1>3, <1>4, RunHasJob
  <2>2. ASSUME NEW c \in Deliveries, job'[c].state = "active"
        PROVE  \E v \in Runners : run'[v].pc # "idle" /\ run'[v].delivery = c
    <3>1. c # d
      BY <1>3, <2>2
    <3>2. PICK v \in Runners : run[v].pc # "idle" /\ run[v].delivery = c
      BY <1>3, <2>2, <3>1 DEF OneRun, Running
    <3> QED BY <1>4, <1>6, <3>1, <3>2
  <2> QED BY <2>1, <2>2 DEF OneRun, Running
<1>10. OneJob'
  <2>1. \A r \in Requests : At(r, "queue") => rq[r].delivery # d
    BY <1>1 DEF OneJob
  <2> QED BY <1>1, <1>3, <2>1 DEF OneJob, At
<1>11. RunFacts'
  <2>1. ASSUME NEW v \in Runners, run'[v].pc # "idle"
        PROVE  run'[v] = run[v] /\ job'[run[v].delivery] = job[run[v].delivery]
    BY <1>1, <1>3, <1>4, <2>1, RunHasJob
  <2> QED BY <2>1 DEF RunFacts, Running, LastAttempt
<1>12. SettledOnce'
  BY <1>1, <1>3, <1>4, <1>5, <1>6 DEF SettledOnce, Running
<1>13. CallsCounted'
  <2>1. /\ calls[d] <= job[d].made + job[d].stalls + 1
        /\ job[d].made < Attempts /\ job[d].stalls < 2
    BY <1>1 DEF CallsCounted
  <2>2. ASSUME NEW c \in Deliveries \ {d},
               \A v \in Runners : Called(v)' => run'[v].delivery # c
        PROVE  \A v \in Runners : Called(v) => run[v].delivery # c
    BY <1>4, <1>6, <2>2 DEF Called
  <2>3. /\ calls[d] <= job'[d].made + job'[d].stalls
        /\ calls[d] <= job'[d].made + job'[d].stalls + 1
        /\ job'[d].state # "none" /\ job'[d].made <= Attempts /\ job'[d].stalls < 2
        /\ job'[d].state \in {"waiting", "active"} => job'[d].made < Attempts
    BY <1>1, <1>3, <1>6, <2>1, DeliveryAssumption DEF TypeOK, Job, DeliveryAssumption
  <2>4. job'[d].stalls # 2
    BY <1>1, <1>3, <2>3 DEF TypeOK, Job
  <2> QED BY <1>3, <2>2, <2>3, <2>4 DEF CallsCounted
<1>14. RowsWithEndpoint'
  BY DEF RowsWithEndpoint, Stored
<1> QED BY <1>7, <1>8, <1>9, <1>10, <1>11, <1>12, <1>13, <1>14

LEMMA CompleteKeeps ==
  ASSUME Consistent, NEW w \in Runners, Complete(w) PROVE Consistent'
<1>1. run[w].pc = "complete" /\ run[w].delivery \in Deliveries
  BY RunHasJob DEF Complete, Running
<1>2. job[run[w].delivery].stalls = 0 => delivery[run[w].delivery].status # "FAILED"
  BY <1>1 DEF Consistent, SettledOnce, Running
<1>3. /\ Return(run[w].delivery, "completed") /\ run' = [run EXCEPT ![w] = NoRun]
      /\ UNCHANGED <<endpoint, delivery, calls, accepted, struck, rq, faults, crashes>>
  BY DEF Complete
<1> QED BY <1>1, <1>2, <1>3, ReturnKeeps

LEMMA FailKeeps ==
  ASSUME Consistent, NEW w \in Runners, Fail(w) PROVE Consistent'
<1> DEFINE d == run[w].delivery
           state == IF job[d].made + 1 < Attempts THEN "waiting" ELSE "failed"
<1>1. run[w].pc = "fail" /\ d \in Deliveries
  BY RunHasJob DEF Fail, Running
<1>2. job[d].stalls = 0 => delivery[d].status # "SUCCESS"
  BY <1>1 DEF Consistent, SettledOnce, Running
<1>3. delivery[d].status = "FAILED" => state = "failed"
  BY <1>1, DeliveryAssumption
  DEF Consistent, FailedIsExhausted, TypeOK, Job, DeliveryAssumption
<1>4. /\ Return(d, state) /\ run' = [run EXCEPT ![w] = NoRun]
      /\ UNCHANGED <<endpoint, delivery, calls, accepted, struck, rq, faults, crashes>>
  BY DEF Fail
<1>5. state \in {"waiting", "completed", "failed"} /\ (state = "waiting" => job[d].made + 1 < Attempts)
  OBVIOUS
<1> HIDE DEF state
<1> QED BY <1>1, <1>2, <1>3, <1>4, <1>5, ReturnKeeps

LEMMA CrashWorkerKeeps ==
  ASSUME Consistent, CrashWorker PROVE Consistent'
<1> USE DEF Consistent
<1>1. /\ UNCHANGED <<endpoint, delivery, calls, accepted, struck, rq, faults>>
      /\ crashes' \in 0..MaxCrashes /\ crashes' # 0
  BY DeliveryAssumption DEF CrashWorker, TypeOK, DeliveryAssumption
<1>2. /\ run' \in [Runners -> Run]
      /\ \A w \in Runners : run'[w].pc = "idle" /\ run'[w].delivery \notin Deliveries
  BY DeliveryAssumption DEF CrashWorker, Run, NoRun, DeliveryAssumption
<1>3. ASSUME NEW d \in Deliveries
      PROVE  /\ job'[d] \in Job /\ job'[d].made = job[d].made
             /\ job[d].state # "active" => job'[d] = job[d]
             /\ job[d].state = "active" =>
                  /\ job'[d].state = IF job[d].stalls = 0 THEN "waiting" ELSE "failed"
                  /\ job'[d].stalls = job[d].stalls + 1
  <2>1. job[d] \in Job
    BY DEF TypeOK
  <2>2. job[d].state = "active" => job[d].stalls < 2
    BY DEF CallsCounted
  <2> DEFINE new == [state |-> IF job[d].stalls = 0 THEN "waiting" ELSE "failed",
                     made |-> job[d].made, stalls |-> job[d].stalls + 1]
  <2>3. job'[d] = IF job[d].state # "active" THEN job[d] ELSE new
    BY DEF CrashWorker
  <2>4. job[d].state = "active" => new \in Job
    BY <2>1, <2>2 DEF Job
  <2> QED BY <2>1, <2>3, <2>4
<1>4. TypeOK'
  <2>1. job' \in [Deliveries -> Job]
    BY <1>3 DEF CrashWorker
  <2> QED BY <1>1, <1>2, <2>1 DEF TypeOK
<1>5. SuccessIsReal' /\ FailedIsExhausted' /\ RowsWithEndpoint'
  BY <1>1, <1>3 DEF SuccessIsReal, FailedIsExhausted, RowsWithEndpoint, Stored
<1>10. SettledOnce'
  <2>1. \A d \in Deliveries : job'[d].stalls = 0 => job'[d] = job[d]
    BY <1>3 DEF TypeOK, Job
  <2> QED BY <1>1, <1>2, <2>1 DEF SettledOnce
<1>6. \A d \in Deliveries : job'[d].state # "active"
  BY <1>3
<1>7. OneRun' /\ RunFacts'
  BY <1>2, <1>6 DEF OneRun, RunFacts, Running
<1>8. OneJob'
  <2>1. \A d \in Deliveries : job[d].state = "none" \/ job[d] = NoJob => job'[d] = job[d]
    BY <1>3 DEF NoJob
  <2> QED BY <1>1, <2>1 DEF OneJob, At
<1>9. CallsCounted'
  <2>1. ASSUME NEW d \in Deliveries
        PROVE  /\ calls'[d] <= job'[d].made + job'[d].stalls
               /\ job'[d].state = "none" => job'[d] = NoJob
               /\ job'[d].state \in {"waiting", "active"} =>
                    job'[d].made < Attempts /\ job'[d].stalls < 2
               /\ job'[d].stalls = 2 => job'[d].made < Attempts
               /\ job'[d].made <= Attempts
    <3>1. CASE job[d].state = "active"
      BY <1>1, <1>3, <3>1 DEF CallsCounted, TypeOK, Job
    <3>2. CASE job[d].state # "active"
      <4>1. \A w \in Runners : Called(w) => run[w].delivery # d
        BY <3>2 DEF OneRun, Running, Called
      <4> QED BY <1>1, <1>3, <3>2, <4>1 DEF CallsCounted
    <3> QED BY <3>1, <3>2
  <2>2. \A d \in Deliveries : calls'[d] \in Nat /\ job'[d].made \in Nat /\ job'[d].stalls \in Nat
    BY <1>4 DEF TypeOK, Job
  <2> QED BY <2>1, <2>2 DEF CallsCounted
<1> QED BY <1>4, <1>5, <1>7, <1>8, <1>9, <1>10

-----------------------------------------------------------------------------

LEMMA NextKeeps == Consistent /\ [Next]_vars => Consistent'
<1> SUFFICES ASSUME Consistent, [Next]_vars PROVE Consistent'
  OBVIOUS
<1>1. CASE \E r \in Requests : Start(r) \/ Continue(r) \/ RequestFault(r)
  BY <1>1, StartKeeps, CreateDeliveryKeeps, EnqueueKeeps, RequestFaultKeeps DEF Continue
<1>2. CASE \E w \in Runners : RunStep(w)
  BY <1>2, FindEndpointKeeps, PostKeeps, StoreSuccessKeeps, StoreAnswerKeeps, StoreFailedKeeps,
     CompleteKeeps, FailKeeps
  DEF RunStep
<1>3. CASE \E w \in Runners : RunFault(w) \/ \E d \in Deliveries : Take(w, d)
  BY <1>3, RunFaultKeeps, TakeKeeps
<1>4. CASE \E e \in Endpoints : CreateEndpoint(e) \/ DeleteEndpoint(e)
  BY <1>4, CreateEndpointKeeps, DeleteEndpointKeeps
<1>5. CASE CrashServer \/ CrashWorker
  BY <1>5, CrashServerKeeps, CrashWorkerKeeps
<1>6. CASE UNCHANGED vars
  BY <1>6
  DEF vars, Consistent, TypeOK, SuccessIsReal, FailedIsExhausted, OneRun, OneJob, CallsCounted,
      RowsWithEndpoint, RunFacts, SettledOnce, Stored, Running, At, Called, LastAttempt
<1> QED BY <1>1, <1>2, <1>3, <1>4, <1>5, <1>6 DEF Next

\* The relations between rows, jobs, requests and runs hold in every reachable state.
THEOREM DeliveryConsistent == Spec => []Consistent
<1>1. Init => Consistent
  BY InitConsistent
<1>2. Consistent /\ [Next]_vars => Consistent'
  BY NextKeeps
<1> QED BY <1>1, <1>2, PTL DEF Spec

\* A delivery is SUCCESS only if its endpoint answered with success.
THEOREM SuccessAlwaysReal == Spec => []SuccessIsReal
<1>1. Consistent => SuccessIsReal
  BY DEF Consistent
<1> QED BY <1>1, DeliveryConsistent, PTL

\* A delivery is FAILED only if its job has no attempt left.
THEOREM FailedAlwaysExhausted == Spec => []FailedIsExhausted
<1>1. Consistent => FailedIsExhausted
  BY DEF Consistent
<1> QED BY <1>1, DeliveryConsistent, PTL

\* An endpoint is called once per attempt, and once more if the worker died under the
\* job: faults, crashes and deletions never make a delivery call without end.
CallsBounded == \A d \in Deliveries : calls[d] <= Attempts + 1

\* For any number of attempts, faults and crashes, an endpoint is called at most once
\* more than a delivery has attempts: a run that dies is not counted as an attempt,
\* and a job survives only one such run.
THEOREM CallsAlwaysBounded == Spec => []CallsBounded
<1>1. Consistent => CallsBounded
  <2> SUFFICES ASSUME Consistent, NEW d \in Deliveries PROVE calls[d] <= Attempts + 1
    BY DEF CallsBounded
  <2>1. /\ calls[d] \in Nat /\ job[d].made \in Nat /\ job[d].stalls \in 0..2
        /\ job[d].state \in {"none", "waiting", "active", "completed", "failed"}
        /\ Attempts \in Nat
    BY DeliveryAssumption DEF Consistent, TypeOK, Job, DeliveryAssumption
  <2>2. CASE job[d].state = "active"
    BY <2>1, <2>2 DEF Consistent, CallsCounted
  <2>3. CASE job[d].state # "active"
    <3>1. \A w \in Runners : Called(w) => run[w].delivery # d
      BY <2>3 DEF Consistent, OneRun, Running, Called
    <3>2. calls[d] <= job[d].made + job[d].stalls
      BY <3>1 DEF Consistent, CallsCounted
    <3>3. job[d].made <= Attempts /\ (job[d].stalls = 2 => job[d].made < Attempts)
      BY DEF Consistent, CallsCounted
    <3> QED BY <2>1, <3>2, <3>3
  <2> QED BY <2>2, <2>3
<1> QED BY <1>1, DeliveryConsistent, PTL

\* Unless a run died under it, no step changes a settled delivery, except that it goes with
\* its endpoint.
THEOREM OutcomesFinal == Spec => OutcomeIsFinal
<1> DEFINE Final == \A d \in Deliveries :
             delivery[d].status \in {"SUCCESS", "FAILED"} /\ job[d].stalls = 0 =>
               delivery'[d] = delivery[d] \/ delivery'[d].status = "GONE"
<1>1. Consistent /\ [Next]_vars => [Final]_vars
  <2> SUFFICES ASSUME Consistent, Next, NEW d \in Deliveries, job[d].stalls = 0,
                      delivery[d].status \in {"SUCCESS", "FAILED"}
               PROVE  delivery'[d] = delivery[d] \/ delivery'[d].status = "GONE"
    BY DEF vars
  <2>1. ASSUME NEW r \in Requests, Start(r) \/ Continue(r) \/ RequestFault(r)
        PROVE  delivery'[d] = delivery[d]
    <3>1. CASE CreateDelivery(r)
      BY <3>1 DEF CreateDelivery, Consistent, TypeOK
    <3>2. CASE ~CreateDelivery(r)
      BY <2>1, <3>2 DEF Start, StartDispatch, StartPing, Continue, Enqueue, RequestFault
    <3> QED BY <3>1, <3>2
  <2>2. ASSUME NEW w \in Runners, RunStep(w)
        PROVE  delivery'[d] = delivery[d]
    <3>1. CASE StoreSuccess(w) \/ StoreAnswer(w) \/ StoreFailed(w)
      <4>1. run[w].pc \in {"storeSuccess", "storeAnswer", "storeFailed"}
        BY <3>1 DEF StoreSuccess, StoreAnswer, StoreFailed, Running
      <4>2. d # run[w].delivery
        BY <4>1, UnsettledYet
      <4>3. delivery' = delivery \/ \E status : Record(run[w].delivery, status)
        BY <3>1 DEF StoreSuccess, StoreAnswer, StoreFailed
      <4> QED BY <4>2, <4>3 DEF Record, Consistent, TypeOK
    <3>2. CASE FindEndpoint(w) \/ Post(w) \/ Complete(w) \/ Fail(w)
      BY <3>2 DEF FindEndpoint, Post, Complete, Fail
    <3> QED BY <2>2, <3>1, <3>2 DEF RunStep
  <2>3. ASSUME NEW w \in Runners, RunFault(w) \/ \E c \in Deliveries : Take(w, c)
        PROVE  delivery'[d] = delivery[d]
    BY <2>3 DEF RunFault, Take
  <2>4. ASSUME NEW e \in Endpoints, CreateEndpoint(e) \/ DeleteEndpoint(e)
        PROVE  delivery'[d] = delivery[d] \/ delivery'[d].status = "GONE"
    BY <2>4 DEF CreateEndpoint, DeleteEndpoint
  <2>5. ASSUME CrashServer \/ CrashWorker
        PROVE  delivery'[d] = delivery[d]
    BY <2>5 DEF CrashServer, CrashWorker
  <2> QED BY <2>1, <2>2, <2>3, <2>4, <2>5 DEF Next
<1> QED BY <1>1, DeliveryConsistent, PTL DEF Spec, OutcomeIsFinal

-----------------------------------------------------------------------------
(* No row is left PENDING with nobody to settle it. *)

\* A run that ends for good has settled its row, unless the database failed under it.
RunsClose ==
  \A w \in Runners :
    /\ Running(w, "complete") => delivery[run[w].delivery].status # "PENDING"
    /\ Running(w, "fail") /\ LastAttempt(run[w].delivery) =>
         delivery[run[w].delivery].status # "PENDING" \/ run[w].delivery \in struck

Pursued == PendingPursued /\ RunsClose

\* Steps of the API process: a row that is new is queued, a job that is lost is noted.
LEMMA AsideKeeps ==
  ASSUME Consistent, Pursued, UNCHANGED <<job, run>>, struck \subseteq struck',
         \A d \in Deliveries : delivery'[d].status = "PENDING" =>
           \/ delivery[d].status = "PENDING"
           \/ delivery[d].status = "NONE" /\ \E r \in Requests : Queues(r, d)',
         \A r \in Requests, d \in Deliveries : Queues(r, d) =>
           d \in struck' \/ Queues(r, d)'
  PROVE  Pursued'
<1>1. PendingPursued'
  <2> SUFFICES ASSUME NEW d \in Deliveries, delivery'[d].status = "PENDING"
               PROVE  \/ job'[d].state \in {"waiting", "active"}
                      \/ \E r \in Requests : Queues(r, d)'
                      \/ job'[d].state \in {"none", "failed"} /\ d \in struck'
                      \/ job'[d].state = "failed" /\ job'[d].stalls = 2
    BY DEF PendingPursued
  <2>1. CASE delivery[d].status = "PENDING"
    <3>1. ASSUME NEW r \in Requests, Queues(r, d) PROVE job[d].state = "none"
      BY <3>1 DEF Consistent, OneJob, Queues
    <3> QED BY <2>1, <3>1 DEF Pursued, PendingPursued
  <2> QED BY <2>1
<1>2. RunsClose'
  <2> SUFFICES ASSUME NEW w \in Runners, Running(w, "complete") \/ Running(w, "fail")
               PROVE  /\ Running(w, "complete") => delivery'[run[w].delivery].status # "PENDING"
                      /\ Running(w, "fail") /\ LastAttempt(run[w].delivery) =>
                           \/ delivery'[run[w].delivery].status # "PENDING"
                           \/ run[w].delivery \in struck'
    BY DEF RunsClose, Running, LastAttempt
  <2>1. run[w].delivery \in Deliveries /\ delivery[run[w].delivery].status # "NONE"
    BY RunHasJob DEF Running
  <2> QED BY <2>1 DEF Pursued, RunsClose
<1> QED BY <1>1, <1>2 DEF Pursued

LEMMA CreateDeliveryPursued ==
  ASSUME Consistent, Pursued, NEW r \in Requests, CreateDelivery(r) PROVE Pursued'
<1>1. UNCHANGED <<job, run, struck>> /\ At(r, "createDelivery")
  BY DEF CreateDelivery
<1>2. ASSUME NEW q \in Requests, NEW d \in Deliveries, Queues(q, d) PROVE Queues(q, d)'
  <2>1. q # r
    BY <1>1, <1>2 DEF Queues, At
  <2>2. rq'[q] = rq[q]
    BY <2>1 DEF CreateDelivery, Proceed, Finish, Begin, Consistent, TypeOK
  <2> QED BY <1>2, <2>2 DEF Queues, At
<1>3. ASSUME NEW d \in Deliveries, delivery'[d].status = "PENDING"
      PROVE  \/ delivery[d].status = "PENDING"
             \/ delivery[d].status = "NONE" /\ \E q \in Requests : Queues(q, d)'
  <2>1. CASE UNCHANGED delivery
    BY <1>3, <2>1
  <2>2. ASSUME NEW e \in rq[r].todo, NEW c \in Deliveries, delivery[c].status = "NONE",
               delivery' = [delivery EXCEPT ![c] = [status |-> "PENDING", endpoint |-> e,
                                                    attempt |-> 1]],
               rq' = [rq EXCEPT ![r] = [pc |-> "queue", todo |-> rq[r].todo \ {e},
                                        delivery |-> c, ping |-> rq[r].ping]]
        PROVE  \/ delivery[d].status = "PENDING"
               \/ delivery[d].status = "NONE" /\ \E q \in Requests : Queues(q, d)'
    <3>1. rq'[r].pc = "queue" /\ rq'[r].delivery = c
      BY <2>2 DEF Consistent, TypeOK
    <3>2. Queues(r, c)'
      BY <3>1 DEF Queues, At
    <3>3. d # c => delivery'[d] = delivery[d]
      BY <2>2 DEF Consistent, TypeOK
    <3> QED BY <1>3, <2>2, <3>2, <3>3
  <2> QED BY <2>1, <2>2 DEF CreateDelivery
<1> QED BY <1>1, <1>2, <1>3, AsideKeeps

LEMMA EnqueuePursued ==
  ASSUME Consistent, Pursued, NEW r \in Requests, Enqueue(r) PROVE Pursued'
<1> DEFINE c == rq[r].delivery
<1>1. /\ At(r, "queue") /\ UNCHANGED <<delivery, run, struck>>
      /\ job' = [job EXCEPT ![c] = [state |-> "waiting", made |-> 0, stalls |-> 0]]
  BY DEF Enqueue
<1>2. c \in Deliveries /\ job[c].state = "none"
  BY <1>1 DEF Consistent, OneJob
<1>3. job'[c].state = "waiting" /\ \A d \in Deliveries \ {c} : job'[d] = job[d]
  BY <1>1, <1>2 DEF Consistent, TypeOK
<1>4. ASSUME NEW q \in Requests, NEW d \in Deliveries \ {c}, Queues(q, d) PROVE Queues(q, d)'
  <2>1. q # r
    BY <1>4 DEF Queues
  <2>2. rq'[q] = rq[q]
    BY <2>1 DEF Enqueue, Proceed, Finish, Begin, Consistent, TypeOK
  <2> QED BY <1>4, <2>2 DEF Queues, At
<1>5. PendingPursued'
  <2> SUFFICES ASSUME NEW d \in Deliveries \ {c}, delivery'[d].status = "PENDING"
               PROVE  \/ job'[d].state \in {"waiting", "active"}
                      \/ \E q \in Requests : Queues(q, d)'
                      \/ job'[d].state \in {"none", "failed"} /\ d \in struck'
                      \/ job'[d].state = "failed" /\ job'[d].stalls = 2
    BY <1>3 DEF PendingPursued
  <2> QED BY <1>1, <1>3, <1>4 DEF Pursued, PendingPursued
<1>6. RunsClose'
  <2>1. \A w \in Runners : ~Running(w, "idle") => run[w].delivery \in Deliveries \ {c}
    BY <1>2, RunHasJob DEF Running
  <2> QED BY <1>1, <1>3, <2>1 DEF Pursued, RunsClose, Running, LastAttempt
<1> QED BY <1>5, <1>6 DEF Pursued

\* A step of a run that leaves its job to it.
LEMMA RunPursued ==
  ASSUME Consistent, Pursued, NEW w \in Runners, run[w].pc # "idle", NEW pc \in Pcs, Step(w, pc),
         UNCHANGED <<job, rq>>, struck \subseteq struck', Rows(w),
         pc = "complete" => delivery'[run[w].delivery].status # "PENDING",
         pc = "fail" /\ LastAttempt(run[w].delivery) =>
           delivery'[run[w].delivery].status # "PENDING" \/ run[w].delivery \in struck'
  PROVE  Pursued'
<1> DEFINE c == run[w].delivery
<1>1. /\ c \in Deliveries /\ \A v \in Runners \ {w} : run[v].delivery # c
      /\ \A v \in Runners : run[v].pc # "idle" => run[v].delivery \in Deliveries
  BY RunHasJob
<1>2. /\ \A d \in Deliveries \ {c} : delivery'[d] = delivery[d]
      /\ delivery'[c].status \in {delivery[c].status, "SUCCESS", "FAILED"}
  BY <1>1 DEF Rows, Record, Consistent, TypeOK
<1>3. PendingPursued'
  BY <1>1, <1>2 DEF Pursued, PendingPursued, Queues, At
<1>4. /\ rq' = rq /\ run'[w].pc = pc /\ run'[w].delivery = c
      /\ \A v \in Runners \ {w} : run'[v] = run[v]
  BY DEF Step, Consistent, TypeOK, Run, NoRun
<1>5. RunsClose'
  <2> SUFFICES ASSUME NEW v \in Runners
               PROVE  /\ run'[v].pc = "complete" => delivery'[run'[v].delivery].status # "PENDING"
                      /\ run'[v].pc = "fail" /\ job'[run'[v].delivery].made + 1 >= Attempts =>
                           \/ delivery'[run'[v].delivery].status # "PENDING"
                           \/ run'[v].delivery \in struck'
    BY DEF RunsClose, Running, LastAttempt
  <2>1. CASE v = w
    BY <1>4, <2>1 DEF LastAttempt
  <2>2. CASE v # w
    BY <1>1, <1>2, <1>4, <2>2 DEF Pursued, RunsClose, Running, LastAttempt
  <2> QED BY <2>1, <2>2
<1> QED BY <1>3, <1>5 DEF Pursued

LEMMA RunStepsPursued ==
  ASSUME Consistent, Pursued, NEW w \in Runners,
         \/ FindEndpoint(w) \/ Post(w) \/ StoreSuccess(w) \/ StoreAnswer(w) \/ StoreFailed(w)
         \/ RunFault(w)
  PROVE  Pursued'
<1> DEFINE d == run[w].delivery
<1>1. run[w].pc # "idle" /\ UNCHANGED <<job, rq>> /\ struck \subseteq struck'
  BY DEF FindEndpoint, Post, StoreSuccess, StoreAnswer, StoreFailed, RunFault, Running
<1>2. /\ d \in Deliveries /\ delivery[d].status # "NONE" /\ delivery[d] \in Delivery
      /\ delivery[d].endpoint \in Endpoints
      /\ endpoint[delivery[d].endpoint] = IF Stored(d) THEN "LIVE" ELSE "DELETED"
  BY <1>1, RunHasJob DEF Consistent, TypeOK, RowsWithEndpoint
<1>3. ASSUME NEW status \in {delivery[d].status, "SUCCESS", "FAILED"}, Record(d, status)
      PROVE  delivery'[d].status = status
  BY <1>2, <1>3 DEF Record, Consistent, TypeOK
<1>4. ~Stored(d) => delivery[d].status # "PENDING"
  BY DEF Stored
<1>5. CASE FindEndpoint(w)
  <2>1. Rows(w)
    BY <1>5 DEF FindEndpoint, Rows
  <2>2. CASE Live(delivery[d].endpoint)
    <3>1. Step(w, "post")
      BY <1>5, <2>2 DEF FindEndpoint
    <3> QED BY <1>1, <2>1, <3>1, RunPursued DEF Pcs
  <2>3. CASE ~Live(delivery[d].endpoint)
    <3>1. Step(w, "fail")
      BY <1>5, <2>3 DEF FindEndpoint
    <3>2. delivery[d].status # "PENDING"
      BY <1>2, <1>4, <2>3 DEF Live
    <3>3. delivery'[d].status # "PENDING"
      BY <1>5, <3>2 DEF FindEndpoint
    <3> QED BY <1>1, <2>1, <3>1, <3>3, RunPursued DEF Pcs
  <2> QED BY <2>2, <2>3
<1>6. ASSUME Catch(w), Rows(w) PROVE Pursued'
  <2>1. PICK pc \in {"storeFailed", "fail"} : Step(w, pc) /\ (pc = "fail" => ~LastAttempt(d))
    BY <1>6 DEF Catch
  <2> QED BY <1>1, <1>6, <2>1, RunPursued DEF Pcs
<1>7. CASE Post(w)
  <2>1. Rows(w)
    BY <1>7 DEF Post, Rows
  <2>2. ASSUME NEW pc \in {"storeSuccess", "storeAnswer"}, Step(w, pc) PROVE Pursued'
    BY <1>1, <2>1, <2>2, RunPursued DEF Pcs
  <2> QED BY <1>6, <1>7, <2>1, <2>2 DEF Post
<1>8. CASE StoreSuccess(w)
  <2>1. CASE Stored(d) /\ Record(d, "SUCCESS") /\ Step(w, "complete")
    <3>1. delivery'[d].status = "SUCCESS" /\ Rows(w)
      BY <1>3, <2>1 DEF Rows
    <3> QED BY <1>1, <2>1, <3>1, RunPursued DEF Pcs
  <2>2. CASE Catch(w) /\ UNCHANGED delivery
    BY <1>6, <2>2 DEF Rows
  <2> QED BY <1>8, <2>1, <2>2 DEF StoreSuccess
<1>9. CASE StoreAnswer(w)
  BY <1>6, <1>9 DEF StoreAnswer, Rows
<1>10. CASE StoreFailed(w)
  <2>1. Rows(w) /\ Step(w, "fail")
    BY <1>10 DEF StoreFailed, Rows
  <2>2. delivery'[d].status # "PENDING"
    BY <1>3, <1>4, <1>10 DEF StoreFailed
  <2> QED BY <1>1, <2>1, <2>2, RunPursued DEF Pcs
<1>11. CASE RunFault(w)
  <2>1. Rows(w) /\ d \in struck'
    BY <1>11 DEF RunFault, Rows
  <2>2. CASE Step(w, "fail")
    BY <1>1, <2>1, <2>2, RunPursued DEF Pcs
  <2> QED BY <1>6, <1>11, <2>1, <2>2 DEF RunFault
<1> QED BY <1>5, <1>7, <1>8, <1>9, <1>10, <1>11

\* What the beginning or the end of a run does to the job c.
JobMoves(w, c) ==
  /\ c \in Deliveries /\ UNCHANGED <<delivery, rq, struck>>
  /\ \A d \in Deliveries \ {c} : job'[d] = job[d]
  /\ \/ job'[c].state \in {"waiting", "active"}
     \/ delivery[c].status # "PENDING"
     \/ job'[c].state = "failed" /\ c \in struck
  /\ \A v \in Runners \ {w} : run'[v] = run[v] /\ run[v].delivery # c
  /\ run'[w].pc \notin {"complete", "fail"}

LEMMA JobMovesPursued ==
  ASSUME Consistent, Pursued, NEW w \in Runners, NEW c, JobMoves(w, c) PROVE Pursued'
<1>3. PendingPursued'
  <2> SUFFICES ASSUME NEW d \in Deliveries, delivery[d].status = "PENDING"
               PROVE  \/ job'[d].state \in {"waiting", "active"}
                      \/ \E q \in Requests : Queues(q, d)
                      \/ job'[d].state \in {"none", "failed"} /\ d \in struck
                      \/ job'[d].state = "failed" /\ job'[d].stalls = 2
    BY DEF JobMoves, PendingPursued, Queues, At
  <2>1. CASE d = c
    BY <2>1 DEF JobMoves
  <2>2. CASE d # c
    BY <2>2 DEF JobMoves, Pursued, PendingPursued
  <2> QED BY <2>1, <2>2
<1>4. RunsClose'
  <2> SUFFICES ASSUME NEW v \in Runners \ {w}, run[v].pc \in {"complete", "fail"}
               PROVE  /\ run[v].pc = "complete" => delivery[run[v].delivery].status # "PENDING"
                      /\ run[v].pc = "fail" /\ job'[run[v].delivery].made + 1 >= Attempts =>
                           \/ delivery[run[v].delivery].status # "PENDING"
                           \/ run[v].delivery \in struck
    BY DEF JobMoves, RunsClose, Running, LastAttempt
  <2>1. run[v].delivery \in Deliveries
    BY RunHasJob
  <2> QED BY <2>1 DEF JobMoves, Pursued, RunsClose, Running, LastAttempt
<1> QED BY <1>3, <1>4 DEF Pursued

\* A run begins or ends.
LEMMA JobPursued ==
  ASSUME Consistent, Pursued, NEW w \in Runners,
         Complete(w) \/ Fail(w) \/ \E d \in Deliveries : Take(w, d)
  PROVE  Pursued'
<1>1. UNCHANGED <<delivery, rq, struck>>
  BY DEF Complete, Fail, Take
<1>2. ASSUME NEW d \in Deliveries, NEW state, run[w].pc # "idle", run[w].delivery = d,
             Return(d, state), run' = [run EXCEPT ![w] = NoRun],
             state = "waiting" \/ delivery[d].status # "PENDING" \/ (state = "failed" /\ d \in struck)
      PROVE  Pursued'
  <2>1. /\ \A e \in Deliveries \ {d} : job'[e] = job[e]
        /\ job'[d].state = state
    BY <1>2 DEF Return, Consistent, TypeOK
  <2>2. /\ \A v \in Runners \ {w} : run'[v] = run[v] /\ run[v].delivery # d
        /\ run'[w].pc = "idle"
    BY <1>2, RunHasJob DEF Consistent, TypeOK, NoRun
  <2>3. JobMoves(w, d)
    BY <1>1, <1>2, <2>1, <2>2 DEF JobMoves
  <2> QED BY <2>3, JobMovesPursued
<1>3. CASE Complete(w)
  <2>1. /\ run[w].pc = "complete" /\ run' = [run EXCEPT ![w] = NoRun]
        /\ Return(run[w].delivery, "completed")
    BY <1>3 DEF Complete, Running
  <2>2. run[w].delivery \in Deliveries /\ delivery[run[w].delivery].status # "PENDING"
    BY <2>1, RunHasJob DEF Pursued, RunsClose, Running
  <2> QED BY <1>2, <2>1, <2>2
<1>4. CASE Fail(w)
  <2>1. /\ run[w].pc = "fail" /\ run' = [run EXCEPT ![w] = NoRun]
        /\ Return(run[w].delivery,
                  IF job[run[w].delivery].made + 1 < Attempts THEN "waiting" ELSE "failed")
    BY <1>4 DEF Fail, Running
  <2>2. run[w].delivery \in Deliveries /\ job[run[w].delivery].made \in Nat
    BY <2>1, RunHasJob DEF Consistent, TypeOK, Job
  <2>3. \/ job[run[w].delivery].made + 1 < Attempts
        \/ delivery[run[w].delivery].status # "PENDING" \/ run[w].delivery \in struck
    BY <2>1, <2>2, DeliveryAssumption
    DEF Pursued, RunsClose, Running, LastAttempt, DeliveryAssumption
  <2>4. CASE job[run[w].delivery].made + 1 < Attempts
    <3>1. Return(run[w].delivery, "waiting")
      BY <2>1, <2>4
    <3> QED BY <1>2, <2>1, <2>2, <3>1
  <2>5. CASE ~(job[run[w].delivery].made + 1 < Attempts)
    <3>1. Return(run[w].delivery, "failed")
      BY <2>1, <2>5
    <3> QED BY <1>2, <2>1, <2>2, <2>3, <2>5, <3>1
  <2> QED BY <2>4, <2>5
<1>5. ASSUME NEW d \in Deliveries, Take(w, d) PROVE Pursued'
  <2>1. \A v \in Runners : run[v].delivery # d
    <3>1. ASSUME NEW v \in Runners, run[v].delivery = d PROVE FALSE
      <4>1. run[v].pc # "idle"
        BY <3>1, DeliveryAssumption DEF Consistent, TypeOK, Run, NoRun, DeliveryAssumption
      <4> QED BY <1>5, <3>1, <4>1, RunHasJob DEF Take
    <3> QED BY <3>1
  <2>2. /\ \A e \in Deliveries \ {d} : job'[e] = job[e]
        /\ job'[d].state = "active"
        /\ \A v \in Runners \ {w} : run'[v] = run[v]
        /\ run'[w].pc = "findEndpoint"
    BY <1>5 DEF Take, Consistent, TypeOK, Job
  <2>3. JobMoves(w, d)
    BY <1>1, <2>1, <2>2 DEF JobMoves
  <2> QED BY <2>3, JobMovesPursued
<1> QED BY <1>3, <1>4, <1>5

LEMMA CrashWorkerPursued ==
  ASSUME Consistent, Pursued, CrashWorker PROVE Pursued'
<1>1. /\ UNCHANGED <<delivery, rq, struck>> /\ run' = [w \in Runners |-> NoRun]
      /\ \A d \in Deliveries :
           IF job[d].state # "active" THEN job'[d] = job[d]
           ELSE /\ job'[d].state = IF job[d].stalls = 0 THEN "waiting" ELSE "failed"
                /\ job'[d].stalls = job[d].stalls + 1
  BY DEF CrashWorker
<1>2. \A d \in Deliveries : job[d].state = "active" /\ job[d].stalls # 0 => job[d].stalls = 1
  BY DEF Consistent, TypeOK, Job, CallsCounted
<1>3. PendingPursued'
  BY <1>1, <1>2 DEF Pursued, PendingPursued, Queues, At
<1>4. RunsClose'
  BY <1>1 DEF RunsClose, Running, NoRun
<1> QED BY <1>3, <1>4 DEF Pursued

LEMMA PursuedNext ==
  ASSUME Consistent, Pursued, [Next]_vars PROVE Pursued'
<1>1. ASSUME NEW r \in Requests, Start(r) PROVE Pursued'
  <2>1. UNCHANGED <<delivery, job, run, struck>>
    BY <1>1 DEF Start, StartDispatch, StartPing
  <2>2. ASSUME NEW q \in Requests, NEW d \in Deliveries, Queues(q, d) PROVE Queues(q, d)'
    BY <1>1, <2>2
    DEF Queues, At, Start, StartDispatch, StartPing, Begin, Consistent, TypeOK
  <2> QED BY <2>1, <2>2, AsideKeeps
<1>2. ASSUME NEW r \in Requests, RequestFault(r) PROVE Pursued'
  <2>1. UNCHANGED <<delivery, job, run>> /\ struck \subseteq struck'
    BY <1>2 DEF RequestFault
  <2>2. ASSUME NEW q \in Requests, NEW d \in Deliveries, Queues(q, d)
        PROVE  d \in struck' \/ Queues(q, d)'
    <3>1. CASE q = r
      BY <1>2, <2>2, <3>1 DEF RequestFault
    <3>2. CASE q # r
      BY <1>2, <2>2, <3>2
      DEF RequestFault, Queues, At, Proceed, Finish, Begin, Consistent, TypeOK
    <3> QED BY <3>1, <3>2
  <2> QED BY <2>1, <2>2, AsideKeeps
<1>3. CASE CrashServer
  <2>1. UNCHANGED <<delivery, job, run>> /\ struck \subseteq struck'
    BY <1>3 DEF CrashServer
  <2>2. ASSUME NEW q \in Requests, NEW d \in Deliveries, Queues(q, d) PROVE d \in struck'
    BY <1>3, <2>2 DEF CrashServer
  <2> QED BY <2>1, <2>2, AsideKeeps
<1>4. ASSUME NEW e \in Endpoints, CreateEndpoint(e) \/ DeleteEndpoint(e) PROVE Pursued'
  <2>1. UNCHANGED <<job, run, struck, rq>>
    BY <1>4 DEF CreateEndpoint, DeleteEndpoint
  <2>2. ASSUME NEW d \in Deliveries, delivery'[d].status = "PENDING"
        PROVE  delivery[d].status = "PENDING"
    BY <1>4, <2>2 DEF CreateEndpoint, DeleteEndpoint
  <2>3. ASSUME NEW q \in Requests, NEW d \in Deliveries, Queues(q, d) PROVE Queues(q, d)'
    BY <2>1, <2>3 DEF Queues, At
  <2> QED BY <2>1, <2>2, <2>3, AsideKeeps
<1>5. CASE UNCHANGED vars
  <2>1. UNCHANGED <<delivery, job, run, struck, rq>>
    BY <1>5 DEF vars
  <2> QED BY <2>1 DEF Pursued, PendingPursued, RunsClose, Queues, At, Running, LastAttempt
<1>6. ASSUME NEW w \in Runners, RunStep(w) \/ RunFault(w) \/ \E d \in Deliveries : Take(w, d)
      PROVE  Pursued'
  BY <1>6, RunStepsPursued, JobPursued DEF RunStep
<1>7. ASSUME NEW r \in Requests, Continue(r) PROVE Pursued'
  BY <1>7, CreateDeliveryPursued, EnqueuePursued DEF Continue
<1>8. CASE CrashWorker
  BY <1>8, CrashWorkerPursued
<1> QED BY <1>1, <1>2, <1>3, <1>4, <1>5, <1>6, <1>7, <1>8 DEF Next

\* A PENDING row has a job that waits, runs or is about to be stored, unless a fault or
\* crash has hit that delivery or its job has stalled twice.
THEOREM PendingAlwaysPursued == Spec => []PendingPursued
<1>1. Init => Pursued
  BY DEF Init, Pursued, PendingPursued, RunsClose, NoDelivery, NoRun, Running
<1>2. Consistent /\ Pursued /\ [Next]_vars => Pursued'
  BY PursuedNext
<1>3. Pursued => PendingPursued
  BY DEF Pursued
<1> QED BY <1>1, <1>2, <1>3, DeliveryConsistent, PTL DEF Spec

-----------------------------------------------------------------------------
(* Delivery implements Courier. *)

LEMMA CourierInit == Init => Cou!CouInit
<1> SUFFICES ASSUME Init PROVE Cou!CouInit
  OBVIOUS
<1>1. Going = {}
  BY DEF Init, Going, Running, NoRun
<1>2. Outcomes = [d \in Deliveries |-> "NONE"] /\ Lost = [d \in Deliveries |-> 0]
  BY DEF Init, Outcomes, Lost, NoDelivery, NoJob
<1> QED BY <1>1, <1>2 DEF Init, Cou!CouInit

\* What the abstract variables say of one delivery.
LEMMA Mapped ==
  ASSUME Consistent, NEW d \in Deliveries
  PROVE  /\ Outcomes[d] = delivery[d].status /\ Lost[d] = job[d].stalls
         /\ Outcomes[d] \in {"NONE", "PENDING", "SUCCESS", "FAILED", "GONE"}
         /\ Stored(d) <=> Outcomes[d] \in Cou!Listed
BY DEF Outcomes, Lost, Stored, Cou!Listed, Consistent, TypeOK, Delivery

\* A delivery is going while the one run that has its job is about to call.
LEMMA GoingMoves ==
  ASSUME Consistent, NEW w \in Runners, run[w].pc # "idle", NEW pc \in Pcs, Step(w, pc)
  PROVE  /\ run[w].delivery \in Going <=> run[w].pc = "post"
         /\ Going' = IF pc = "post" THEN Going \cup {run[w].delivery}
                                    ELSE Going \ {run[w].delivery}
<1> DEFINE d == run[w].delivery
<1>1. d \in Deliveries /\ \A v \in Runners \ {w} : run[v].delivery # d
  BY RunHasJob
<1>2. run[w] \in [pc : Pcs, delivery : Deliveries] /\ run \in [Runners -> Run]
  BY RunHasJob DEF Consistent, TypeOK, Run, NoRun, Pcs
<1>3. /\ run'[w].pc = pc /\ run'[w].delivery = d
      /\ \A v \in Runners \ {w} : run'[v] = run[v]
  BY <1>2 DEF Step
<1> HIDE DEF d
<1>4. d = run[w].delivery
  BY DEF d
<1>5. d \in Going <=> run[w].pc = "post"
  BY <1>1, <1>4 DEF Going, Running
<1>6. ASSUME NEW c \in Deliveries
      PROVE  c \in Going' <=> IF c = d THEN pc = "post" ELSE c \in Going
  <2>1. CASE c = d
    BY <1>1, <1>3, <2>1 DEF Going, Running
  <2>2. CASE c # d
    BY <1>1, <1>3, <1>4, <2>2 DEF Going, Running
  <2> QED BY <2>1, <2>2
<1>7. Going \subseteq Deliveries /\ Going' \subseteq Deliveries
  BY DEF Going
<1> QED BY <1>1, <1>4, <1>5, <1>6, <1>7

\* Only the row of d, and of it only what Courier does not see, or its status, is written.
LEMMA OutcomeMoves ==
  ASSUME Consistent, NEW d \in Deliveries, NEW status, Record(d, status)
  PROVE  Outcomes' = [Outcomes EXCEPT ![d] = status]
BY DEF Consistent, TypeOK, Record, Outcomes

LEMMA CourierNext ==
  ASSUME Consistent, [Next]_vars PROVE [Cou!CouNext]_(Cou!couVars)
<1> USE DEF Cou!CouNext, Cou!couVars
<1>1. ASSUME UNCHANGED <<delivery, calls, accepted, job, run>> PROVE UNCHANGED Cou!couVars
  BY <1>1 DEF Outcomes, Lost, Going, Running
<1>2. ASSUME NEW r \in Requests, Continue(r) PROVE [Cou!CouNext]_(Cou!couVars)
  <2>1. CASE Enqueue(r)
    <3> DEFINE d == rq[r].delivery
    <3>1. d \in Deliveries /\ job[d] = NoJob
      BY <2>1 DEF Consistent, OneJob, CallsCounted, Enqueue
    <3>2. Lost' = Lost
      BY <2>1, <3>1 DEF Enqueue, Lost, NoJob, Consistent, TypeOK
    <3> QED BY <2>1, <3>2 DEF Enqueue, Outcomes, Going, Running
  <2>2. ASSUME NEW e \in rq[r].todo, NEW d \in Deliveries, delivery[d].status = "NONE",
               delivery' = [delivery EXCEPT ![d] = [status |-> "PENDING", endpoint |-> e,
                                                    attempt |-> 1]],
               UNCHANGED <<job, calls, accepted, run>>
        PROVE  [Cou!CouNext]_(Cou!couVars)
    <3>1. Outcomes' = [Outcomes EXCEPT ![d] = "PENDING"] /\ Outcomes[d] = "NONE"
      BY <2>2 DEF Outcomes, Consistent, TypeOK
    <3>2. UNCHANGED <<Lost, Going>>
      BY <2>2 DEF Lost, Going, Running
    <3> QED BY <2>2, <3>1, <3>2 DEF Cou!Announce
  <2>3. CASE CreateDelivery(r) /\ UNCHANGED delivery
    BY <1>1, <2>3 DEF CreateDelivery
  <2> QED BY <1>2, <2>1, <2>2, <2>3 DEF Continue, CreateDelivery
<1>3. ASSUME NEW w \in Runners, FindEndpoint(w) PROVE [Cou!CouNext]_(Cou!couVars)
  <2> DEFINE d == run[w].delivery
  <2>1. /\ run[w].pc = "findEndpoint" /\ UNCHANGED <<delivery, job, calls, accepted>>
        /\ UNCHANGED <<Outcomes, Lost>>
    BY <1>3 DEF FindEndpoint, Running, Outcomes, Lost
  <2>2. /\ d \in Deliveries /\ job[d].state = "active" /\ delivery[d].status # "NONE"
        /\ \A v \in Runners \ {w} : run[v].delivery # d
    BY <2>1, RunHasJob
  <2>3. CASE Live(delivery[d].endpoint)
    <3>1. d \notin Going /\ Going' = Going \cup {d}
      BY <1>3, <2>1, <2>3, GoingMoves DEF FindEndpoint, Pcs
    <3>2. Stored(d)
      BY <2>2, <2>3 DEF Consistent, RowsWithEndpoint, Live
    <3>3. Cou!Unsettled(d)
      BY <2>1, <2>2, <3>2, Mapped, UnsettledYet DEF Cou!Unsettled, Cou!Listed
    <3>4. job[d].stalls < 2 /\ job[d].made < Attempts /\ calls[d] <= job[d].made + job[d].stalls
      BY <2>1, <2>2 DEF Consistent, CallsCounted, Called
    <3>5. Lost[d] < 2 /\ calls[d] < Attempts + Lost[d]
      BY <2>2, <3>4, Mapped, DeliveryAssumption
      DEF Consistent, TypeOK, Job, DeliveryAssumption
    <3> QED BY <2>1, <2>2, <3>1, <3>3, <3>5 DEF Cou!Decide
  <2>4. CASE ~Live(delivery[d].endpoint)
    <3>1. Going' = Going
      BY <1>3, <2>1, <2>4, GoingMoves DEF FindEndpoint, Pcs
    <3> QED BY <2>1, <3>1
  <2> QED BY <2>3, <2>4
<1>4. ASSUME NEW w \in Runners, Post(w) PROVE [Cou!CouNext]_(Cou!couVars)
  <2> DEFINE d == run[w].delivery
  <2>1. /\ run[w].pc = "post" /\ calls' = [calls EXCEPT ![d] = @ + 1]
        /\ accepted' \in {accepted, accepted \cup {d}} /\ UNCHANGED <<Outcomes, Lost>>
    BY <1>4 DEF Post, Running, Outcomes, Lost
  <2>2. PICK pc \in Pcs \ {"post"} : Step(w, pc)
    BY <1>4, Caught DEF Post, Pcs
  <2>3. d \in Going /\ Going' = Going \ {d} /\ d \in Deliveries
    BY <2>1, <2>2, GoingMoves, RunHasJob
  <2> QED BY <2>1, <2>3 DEF Cou!Call
\* A run past its call that goes on and writes no more than the rest of its row.
<1>5. ASSUME NEW w \in Runners, run[w].pc \notin {"idle", "post"}, NEW pc \in Pcs \ {"post"},
             Step(w, pc), UNCHANGED <<job, calls, accepted, Outcomes>>
      PROVE  UNCHANGED Cou!couVars
  <2>1. Going' = Going
    BY <1>5, GoingMoves
  <2> QED BY <1>5, <2>1 DEF Lost
<1>6. ASSUME NEW w \in Runners, NEW pc \in Pcs \ {"post"}, Step(w, pc),
             UNCHANGED <<job, calls, accepted>>,
             \/ Record(run[w].delivery, "SUCCESS") /\ run[w].pc = "storeSuccess"
             \/ Record(run[w].delivery, "FAILED") /\ run[w].pc = "storeFailed",
             Stored(run[w].delivery)
      PROVE  [Cou!CouNext]_(Cou!couVars)
  <2> DEFINE d == run[w].delivery
  <2>1. d \in Deliveries
    BY <1>6, RunHasJob
  <2>2. d \notin Going /\ Going' = Going /\ Lost' = Lost
    BY <1>6, GoingMoves DEF Lost
  <2>3. Cou!Unsettled(d)
    BY <1>6, <2>1, Mapped, UnsettledYet DEF Cou!Unsettled, Cou!Listed
  <2>4. CASE Record(d, "SUCCESS") /\ run[w].pc = "storeSuccess"
    <3>1. d \in accepted
      BY <2>4 DEF Consistent, RunFacts, Running
    <3>2. Outcomes' = [Outcomes EXCEPT ![d] = "SUCCESS"]
      BY <2>1, <2>4, OutcomeMoves
    <3> QED BY <1>6, <2>1, <2>2, <2>3, <3>1, <3>2 DEF Cou!Succeed, Cou!Settle
  <2>5. CASE Record(d, "FAILED") /\ run[w].pc = "storeFailed"
    <3>1. calls[d] > 0
      BY <2>5 DEF Consistent, RunFacts
    <3>2. Outcomes' = [Outcomes EXCEPT ![d] = "FAILED"]
      BY <2>1, <2>5, OutcomeMoves
    <3> QED BY <1>6, <2>1, <2>2, <2>3, <3>1, <3>2 DEF Cou!GiveUp, Cou!Settle
  <2> QED BY <1>6, <2>4, <2>5
<1>7. ASSUME NEW w \in Runners, StoreSuccess(w) \/ StoreFailed(w) PROVE [Cou!CouNext]_(Cou!couVars)
  <2>1. /\ run[w].pc \in {"storeSuccess", "storeFailed"} /\ UNCHANGED <<job, calls, accepted>>
        /\ \E pc \in Pcs \ {"post"} : Step(w, pc)
    BY <1>7, Caught DEF StoreSuccess, StoreFailed, Running, Pcs
  <2>2. CASE UNCHANGED delivery
    BY <1>5, <2>1, <2>2 DEF Outcomes
  <2>3. CASE ~UNCHANGED delivery
    <3>1. /\ \/ Record(run[w].delivery, "SUCCESS") /\ run[w].pc = "storeSuccess"
             \/ Record(run[w].delivery, "FAILED") /\ run[w].pc = "storeFailed"
          /\ Stored(run[w].delivery)
      BY <1>7, <2>3 DEF StoreSuccess, StoreFailed, Running
    <3> QED BY <1>6, <2>1, <3>1
  <2> QED BY <2>2, <2>3
<1>8. ASSUME NEW w \in Runners, StoreAnswer(w) PROVE [Cou!CouNext]_(Cou!couVars)
  <2> DEFINE d == run[w].delivery
  <2>1. /\ run[w].pc = "storeAnswer" /\ UNCHANGED <<job, calls, accepted>>
        /\ \E pc \in Pcs \ {"post"} : Step(w, pc)
        /\ Record(d, delivery[d].status) \/ UNCHANGED delivery
    BY <1>8, Caught DEF StoreAnswer, Running, Pcs
  <2>2. d \in Deliveries
    BY <2>1, RunHasJob
  <2>3. Outcomes' = Outcomes
    BY <2>1, <2>2 DEF Record, Outcomes, Consistent, TypeOK
  <2> QED BY <1>5, <2>1, <2>3
<1>9. ASSUME NEW w \in Runners, RunFault(w) PROVE [Cou!CouNext]_(Cou!couVars)
  <2>1. /\ run[w].pc \notin {"idle", "post"} /\ UNCHANGED <<job, calls, accepted, Outcomes>>
        /\ \E pc \in Pcs \ {"post"} : Step(w, pc)
    BY <1>9, Caught DEF RunFault, Pcs, Outcomes
  <2> QED BY <1>5, <2>1
<1>10. ASSUME NEW w \in Runners, Complete(w) \/ Fail(w) PROVE [Cou!CouNext]_(Cou!couVars)
  <2>1. /\ run[w].pc \in {"complete", "fail"} /\ UNCHANGED <<delivery, calls, accepted>>
        /\ run' = [run EXCEPT ![w] = NoRun]
        /\ \E state : Return(run[w].delivery, state)
    BY <1>10 DEF Complete, Fail, Running
  <2>2. Lost' = Lost
    BY <2>1 DEF Return, Lost, Consistent, TypeOK
  <2>3. Going' = Going
    <3>1. run'[w].pc # "post" /\ run[w].pc # "post" /\ \A v \in Runners \ {w} : run'[v] = run[v]
      BY <2>1 DEF NoRun, Consistent, TypeOK
    <3> QED BY <3>1 DEF Going, Running
  <2> QED BY <2>1, <2>2, <2>3 DEF Outcomes
<1>11. ASSUME NEW w \in Runners, NEW d \in Deliveries, Take(w, d)
       PROVE  [Cou!CouNext]_(Cou!couVars)
  <2>1. Lost' = Lost
    BY <1>11 DEF Take, Lost, Consistent, TypeOK, Job
  <2>2. Going' = Going
    <3>1. run'[w].pc # "post" /\ run[w].pc # "post" /\ \A v \in Runners \ {w} : run'[v] = run[v]
      BY <1>11 DEF Take, Running, Consistent, TypeOK
    <3> QED BY <3>1 DEF Going, Running
  <2> QED BY <1>11, <2>1, <2>2 DEF Take, Outcomes
<1>12. ASSUME NEW e \in Endpoints, DeleteEndpoint(e) PROVE [Cou!CouNext]_(Cou!couVars)
  <2> DEFINE D == {d \in Deliveries : Stored(d) /\ delivery[d].endpoint = e}
  <2>1. UNCHANGED <<calls, accepted, Going, Lost>>
    BY <1>12 DEF DeleteEndpoint, Going, Lost, Running
  <2>2. Outcomes' = [d \in Deliveries |-> IF d \in D THEN "GONE" ELSE Outcomes[d]]
    BY <1>12 DEF DeleteEndpoint, Outcomes
  <2>3. \A d \in D : Outcomes[d] \in Cou!Listed
    BY Mapped
  <2>4. D \in SUBSET Deliveries
    OBVIOUS
  <2> HIDE DEF D
  <2> QED BY <2>1, <2>2, <2>3, <2>4 DEF Cou!Withdraw
<1>13. ASSUME CrashWorker PROVE [Cou!CouNext]_(Cou!couVars)
  <2> DEFINE D == {d \in Deliveries : job[d].state = "active"}
  <2>1. UNCHANGED <<calls, accepted, Outcomes>>
    BY <1>13 DEF CrashWorker, Outcomes
  <2>2. Lost' = [d \in Deliveries |-> IF d \in D THEN Lost[d] + 1 ELSE Lost[d]]
    BY <1>13 DEF CrashWorker, Lost
  <2>3. \A d \in D : Outcomes[d] # "NONE" /\ Lost[d] < 2
    BY DEF Outcomes, Lost, Consistent, OneJob, CallsCounted, NoJob
  <2>4. Going' = {} /\ Going \subseteq D
    BY <1>13 DEF CrashWorker, Going, Running, NoRun, Consistent, OneRun
  <2>5. D \in SUBSET Deliveries
    OBVIOUS
  <2> HIDE DEF D
  <2>6. Going' = Going \ D
    BY <2>4
  <2> QED BY <2>1, <2>2, <2>3, <2>5, <2>6 DEF Cou!Lose
<1>14. ASSUME NEW r \in Requests, Start(r) \/ RequestFault(r) PROVE UNCHANGED Cou!couVars
  BY <1>1, <1>14 DEF Start, StartDispatch, StartPing, RequestFault
<1>15. ASSUME \/ \E e \in Endpoints : CreateEndpoint(e)
              \/ CrashServer \/ UNCHANGED vars
       PROVE  UNCHANGED Cou!couVars
  BY <1>1, <1>15 DEF CreateEndpoint, CrashServer, vars
<1> QED
  BY <1>2, <1>3, <1>4, <1>7, <1>8, <1>9, <1>10, <1>11, <1>12, <1>13, <1>14, <1>15
  DEF Next, RunStep

\* Every behaviour of the requests, the runs, their retries and their crashes is one that the
\* abstract specification of a delivery allows.
THEOREM DeliveryImplementsCourier == Spec => ImplementsCourier
  BY CourierInit, CourierNext, DeliveryConsistent, PTL
  DEF Spec, ImplementsCourier, Cou!CouSpec
=============================================================================

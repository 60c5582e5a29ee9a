------------------------------ MODULE Activity ------------------------------
(***************************************************************************)
(* What follows from an event: the event bus and its listeners in the API  *)
(* process (events/), the email queue and its worker, and the dead-letter  *)
(* queue (job/, shared/utils).                                             *)
(*                                                                         *)
(* An output is an event with one of its listeners.  Events are numbered,  *)
(* and so are email jobs: that of event n is job n, and the jobs that the  *)
(* dead-letter worker adds come after them.  What dispatchEvent does is in *)
(* Delivery.  BullMQ, Redis and the SMTP server are modelled from how the  *)
(* source uses them.  A definition directly above the one it resembles is  *)
(* a deliberately broken variant of it, which the properties are shown to  *)
(* reject.                                                                 *)
(***************************************************************************)
EXTENDS Naturals, FiniteSets

CONSTANTS
  Attempts,         \* attempts of an email job: 5 in the source
  ReplayAttempts,   \* attempts of a job that was added again: 3
  Emitted,          \* bound: types of events that are emitted
  MaxEvents,        \* bound: events
  MaxJobs,          \* bound: email jobs
  MaxFailures       \* bound: calls that fail, and crashes

ASSUME ActivityAssumption ==
  /\ Attempts \in Nat \ {0} /\ ReplayAttempts \in Nat \ {0}
  /\ MaxEvents \in Nat /\ MaxFailures \in Nat
  /\ MaxJobs \in Nat /\ MaxEvents <= MaxJobs
  /\ Emitted \subseteq {"member.invited", "member.joined", "member.removed",
       "member.role_changed", "project.created", "project.archived", "task.created",
       "task.assigned", "task.status_changed", "task.deleted", "workspace.plan_changed"}

VARIABLES
  kind,       \* type of each event; "none" while it has not been emitted
  pending,    \* outputs whose listener has been called and has not ended
  happened,   \* outputs stored: rows of AuditLog and Notification, webhooks dispatched
  job,        \* email jobs
  keys,       \* idempotency keys in Redis: the name of a worker and a job
  sent,       \* how often the mail of each job left
  dead,       \* jobs of the dead-letter queue, by the email job they are about
  struck,     \* history: outputs one of whose own calls failed or was cut off by a crash
  failures

vars == <<kind, pending, happened, job, keys, sent, dead, struck, failures>>

Events == 1..MaxEvents
Jobs == 1..MaxJobs

Types == {"member.invited", "member.joined", "member.removed", "member.role_changed",
          "project.created", "project.archived", "task.created", "task.assigned",
          "task.status_changed", "task.deleted", "workspace.plan_changed"}

\* The types that each of the four listeners registers for.
MailTypes == {"member.invited", "task.assigned"}
AuditTypes == Types \ {"task.deleted", "workspace.plan_changed"}
NotificationTypes == {"member.joined", "task.assigned"}
WebhookTypes == {"member.joined", "member.removed", "task.created", "task.assigned"}

Listens == [mail |-> MailTypes, audit |-> AuditTypes,
            notification |-> NotificationTypes, webhook |-> WebhookTypes]

Listeners == {"mail", "audit", "notification", "webhook"}
OutputsOf(n, t) == {<<n, l>> : l \in {k \in Listeners : t \in Listens[k]}}

NoJob == [pc |-> "none", event |-> 0, attempts |-> 0, made |-> 0, stalled |-> FALSE]
NewJob(n, attempts) ==
  [pc |-> "waiting", event |-> n, attempts |-> attempts, made |-> 0, stalled |-> FALSE]

At(j, pc) == job[j].pc = pc
Move(j, pc) == job' = [job EXCEPT ![j].pc = pc]
Mail(j) == <<job[j].event, "mail">>

\* A call fails that was made for output o.
Fails(o) ==
  /\ failures < MaxFailures /\ failures' = failures + 1
  /\ struck' = struck \cup {o}

-----------------------------------------------------------------------------
(* The event bus and the listeners. *)

\* emit calls every listener of the type, and each goes on by itself at its first await.
Emit(n, t) ==
  /\ kind[n] = "none" /\ \A m \in Events : m < n => kind[m] # "none"
  /\ kind' = [kind EXCEPT ![n] = t]
  /\ pending' = pending \cup OutputsOf(n, t)
  /\ UNCHANGED <<happened, job, keys, sent, dead, struck, failures>>

\* The last call of the listener: what it does before only reads.
Listen(n, l) ==
  /\ <<n, l>> \in pending /\ pending' = pending \ {<<n, l>>}
  /\ IF l = "mail"
       THEN job' = [job EXCEPT ![n] = NewJob(n, Attempts)] /\ UNCHANGED happened
       ELSE happened' = happened \cup {<<n, l>>} /\ UNCHANGED job
  /\ UNCHANGED <<kind, keys, sent, dead, struck, failures>>

\* As if the bus did not catch what a listener throws.
ListenFailsForAll(n, l) ==
  /\ <<n, l>> \in pending /\ pending' = pending \ ({n} \X Listeners)
  /\ Fails(<<n, l>>)
  /\ UNCHANGED <<kind, happened, job, keys, sent, dead>>

\* What a listener throws is caught and logged, by itself or by the bus.
ListenFails(n, l) ==
  /\ <<n, l>> \in pending /\ pending' = pending \ {<<n, l>>}
  /\ Fails(<<n, l>>)
  /\ UNCHANGED <<kind, happened, job, keys, sent, dead>>

ApiCrash ==
  /\ failures < MaxFailures /\ failures' = failures + 1
  /\ pending' = {} /\ struck' = struck \cup pending
  /\ UNCHANGED <<kind, happened, job, keys, sent, dead>>

-----------------------------------------------------------------------------
(* The email worker. *)

\* As if an attempt that follows a failed one were never begun.
TakeNew(j) ==
  /\ At(j, "waiting") /\ job[j].made = 0 /\ Move(j, "reserve")
  /\ UNCHANGED <<kind, pending, happened, keys, sent, dead, struck, failures>>

Take(j) ==
  /\ At(j, "waiting") /\ Move(j, "reserve")
  /\ UNCHANGED <<kind, pending, happened, keys, sent, dead, struck, failures>>

\* As if SET had no NX.
ReserveAgain(j) ==
  /\ At(j, "reserve") /\ Move(j, "send") /\ keys' = keys \cup {<<"eamil", j>>}
  /\ UNCHANGED <<kind, pending, happened, sent, dead, struck, failures>>

\* As if the key were the same for all jobs.
ReserveWorker(j) ==
  /\ At(j, "reserve")
  /\ IF <<"eamil", 0>> \in keys
       THEN Move(j, "finish") /\ UNCHANGED keys
       ELSE Move(j, "send") /\ keys' = keys \cup {<<"eamil", 0>>}
  /\ UNCHANGED <<kind, pending, happened, sent, dead, struck, failures>>

\* ensureIdempotency: an attempt that finds the key returns, and counts as completed.
Reserve(j) ==
  /\ At(j, "reserve")
  /\ IF <<"eamil", j>> \in keys
       THEN Move(j, "finish") /\ UNCHANGED keys
       ELSE Move(j, "send") /\ keys' = keys \cup {<<"eamil", j>>}
  /\ UNCHANGED <<kind, pending, happened, sent, dead, struck, failures>>

Send(j) ==
  /\ At(j, "send") /\ Move(j, "finish")
  /\ sent' = [sent EXCEPT ![j] = sent[j] + 1]
  /\ UNCHANGED <<kind, pending, happened, keys, dead, struck, failures>>

\* clearIdemplotency: the key it deletes is not the one that was set.
Clear(j) ==
  /\ At(j, "clear") /\ Move(j, "fail") /\ keys' = keys \ {<<"email", j>>}
  /\ UNCHANGED <<kind, pending, happened, sent, dead, struck, failures>>

Finish(j) ==
  /\ At(j, "finish") /\ Move(j, "completed")
  /\ UNCHANGED <<kind, pending, happened, keys, sent, dead, struck, failures>>

\* BullMQ counts the attempt and tries again until it was the last; that one the handler
\* of "failed" moves to the dead letters.  No error of this worker is an AppError, which
\* would go there at once.
Fail(j) ==
  /\ At(j, "fail")
  /\ job' = [job EXCEPT ![j] =
       [pc |-> IF job[j].made + 1 < job[j].attempts THEN "waiting" ELSE "bury",
        event |-> job[j].event, attempts |-> job[j].attempts, made |-> job[j].made + 1,
        stalled |-> job[j].stalled]]
  /\ UNCHANGED <<kind, pending, happened, keys, sent, dead, struck, failures>>

\* As if the last attempt were not recognised.
BuryNever(j) ==
  /\ At(j, "bury") /\ Move(j, "failed")
  /\ UNCHANGED <<kind, pending, happened, keys, sent, dead, struck, failures>>

\* moveToDLQ, with the class that classifyError gives the last error.  What Redis and SMTP
\* throw is transient or unknown; permanent is an AppError, which nothing here throws.
Bury(j) ==
  /\ At(j, "bury") /\ Move(j, "failed")
  /\ \E class \in {"transient", "unknown"} : dead' = [dead EXCEPT ![j] = class]
  /\ UNCHANGED <<kind, pending, happened, keys, sent, struck, failures>>

\* A call of the worker fails: Redis may have set the key all the same, and the mail may
\* have left all the same.
WorkerFails(j) ==
  /\ Fails(Mail(j))
  /\ \/ /\ At(j, "reserve") /\ Move(j, "fail")
        /\ keys' \in {keys, keys \cup {<<"eamil", j>>}} /\ UNCHANGED sent
     \/ /\ At(j, "send") /\ Move(j, "clear")
        /\ sent' \in {sent, [sent EXCEPT ![j] = sent[j] + 1]} /\ UNCHANGED keys
     \/ At(j, "clear") /\ Move(j, "fail") /\ UNCHANGED <<keys, sent>>
     \/ At(j, "bury") /\ Move(j, "failed") /\ UNCHANGED <<keys, sent>>
  /\ UNCHANGED <<kind, pending, happened, dead>>

-----------------------------------------------------------------------------
(* The dead-letter worker. *)

\* What failed for a transient reason is added once more, as a new job.
Replay(j) ==
  /\ dead[j] = "transient"
  /\ \E k \in Jobs \ Events :
       /\ At(k, "none") /\ \A i \in Jobs \ Events : i < k => ~At(i, "none")
       /\ job' = [job EXCEPT ![k] = NewJob(job[j].event, ReplayAttempts)]
  /\ dead' = [dead EXCEPT ![j] = "replayed"]
  /\ UNCHANGED <<kind, pending, happened, keys, sent, struck, failures>>

\* Anything else is logged.
Close(j) ==
  /\ dead[j] \in {"unknown", "replayed"}
  /\ dead' = [dead EXCEPT ![j] = "done"]
  /\ UNCHANGED <<kind, pending, happened, job, keys, sent, struck, failures>>

\* The queue of dead letters has no second attempt.
ReplayFails(j) ==
  /\ dead[j] = "transient"
  /\ dead' = [dead EXCEPT ![j] = "done"]
  /\ Fails(Mail(j))
  /\ UNCHANGED <<kind, pending, happened, job, keys, sent>>

Active == {"reserve", "send", "clear", "fail", "finish"}

\* BullMQ runs what was active again, unless that happened to it before; a dead letter
\* that was added and not closed is added a second time.
WorkerCrash ==
  /\ failures < MaxFailures /\ failures' = failures + 1
  /\ job' = [j \in Jobs |->
       IF job[j].pc \in Active /\ ~job[j].stalled
         THEN [pc |-> "waiting", event |-> job[j].event, attempts |-> job[j].attempts,
               made |-> job[j].made, stalled |-> TRUE]
       ELSE IF job[j].pc \in Active \cup {"bury"} THEN [job[j] EXCEPT !.pc = "failed"]
       ELSE job[j]]
  /\ dead' = [j \in Jobs |-> IF dead[j] = "replayed" THEN "transient" ELSE dead[j]]
  /\ struck' = struck \cup
       {Mail(j) : j \in {i \in Jobs : job[i].pc \in Active \cup {"bury"} \/ dead[i] = "replayed"}}
  /\ UNCHANGED <<kind, pending, happened, keys, sent>>

-----------------------------------------------------------------------------
Init ==
  /\ kind = [n \in Events |-> "none"]
  /\ pending = {} /\ happened = {}
  /\ job = [j \in Jobs |-> NoJob]
  /\ keys = {} /\ sent = [j \in Jobs |-> 0]
  /\ dead = [j \in Jobs |-> "none"]
  /\ struck = {} /\ failures = 0

JobStep(j) ==
  \/ Take(j) \/ Reserve(j) \/ Send(j) \/ Clear(j) \/ Finish(j) \/ Fail(j) \/ Bury(j)
DeadStep(j) == Replay(j) \/ Close(j)

Api == \E n \in Events, l \in Listeners : Listen(n, l)
Worker == \E j \in Jobs : JobStep(j) \/ DeadStep(j)

Next ==
  \/ \E n \in Events, t \in Emitted : Emit(n, t)
  \/ Api \/ \E n \in Events, l \in Listeners : ListenFails(n, l)
  \/ Worker \/ \E j \in Jobs : WorkerFails(j) \/ ReplayFails(j)
  \/ ApiCrash \/ WorkerCrash

Spec == Init /\ [][Next]_vars

\* Each process goes on while there is a listener, or a job, that can.
FairSpec == Spec /\ WF_vars(Api) /\ WF_vars(Worker)

-----------------------------------------------------------------------------
Pcs == {"none", "waiting", "bury", "completed", "failed"} \cup Active
Job == [pc : Pcs, event : Nat, attempts : Nat, made : Nat, stalled : BOOLEAN]

TypeOK ==
  /\ kind \in [Events -> Types \cup {"none"}]
  /\ pending \subseteq Events \X Listeners /\ happened \subseteq Events \X Listeners
  /\ struck \subseteq Events \X Listeners
  /\ job \in [Jobs -> Job]
  /\ keys \subseteq {"eamil", "email"} \X Jobs
  /\ sent \in [Jobs -> Nat]
  /\ dead \in [Jobs -> {"none", "transient", "unknown", "replayed", "done"}]
  /\ failures \in Nat

\* No job sends its mail twice, although attempts are repeated, an attempt that failed may
\* have sent it, and a crash has a job run again from the start.
SentOnce == \A j \in Jobs : sent[j] <= 1

\* A job that failed is among the dead letters, unless a failure beyond those of its
\* attempts took it away: a call of the handler, or a crash.
DeadLettered == \A j \in Jobs : At(j, "failed") /\ dead[j] = "none" => failures > job[j].made

\* An email job, or its dead letter, that is not done with.
Busy(j) == job[j].pc \notin {"none", "completed", "failed"} \/ dead[j] \notin {"none", "done"}

JobsOf(n) == {j \in Jobs : ~At(j, "none") /\ job[j].event = n}

Unsettled(n) ==
  (\E l \in Listeners : <<n, l>> \in pending) \/ \E j \in JobsOf(n) : Busy(j)

\* The output came about once.
Done(n, l) ==
  IF l = "mail" THEN \E j \in JobsOf(n) : JobsOf(n) = {j} /\ (Busy(j) \/ sent[j] = 1)
  ELSE <<n, l>> \in happened

\* An output that no failure has struck itself comes about, and once: what fails in one
\* listener, job or mail costs nothing elsewhere.
Isolated ==
  \A n \in Events, l \in Listeners :
    kind[n] # "none" /\ <<n, l>> \in OutputsOf(n, kind[n]) =>
      <<n, l>> \in pending \/ Done(n, l) \/ <<n, l>> \in struck

\* Nothing that an event sets off goes on for ever: retries and replays included.
OutputsSettle == \A n \in Events : Unsettled(n) ~> ~Unsettled(n)

-----------------------------------------------------------------------------
(* Parts of the inductive invariant. *)

Key(j) == <<"eamil", j>> \in keys

\* A job is of an event: that of event n is n, and any other is a replay, which a failure
\* of the mail came before.
JobsKnown ==
  \A j \in Jobs :
    /\ At(j, "none") => ~Key(j) /\ sent[j] = 0 /\ dead[j] = "none"
    /\ ~At(j, "none") => job[j].event \in Events /\ (job[j].event = j \/ Mail(j) \in struck)
    /\ j \in Events /\ ~At(j, "none") => job[j].event = j

\* What an event sets off is pending, stored, a job or struck.
Accounted ==
  \A n \in Events :
    /\ kind[n] = "none" => At(n, "none") /\ \A l \in Listeners : <<n, l>> \notin pending
    /\ <<n, "mail">> \in pending => At(n, "none")
    /\ \A l \in Listeners : kind[n] # "none" /\ kind[n] \in Listens[l] =>
         \/ <<n, l>> \in pending \/ <<n, l>> \in struck
         \/ IF l = "mail" THEN ~At(n, "none") ELSE <<n, l>> \in happened

\* The key is set before the mail leaves, and stays.
SentWithKey ==
  \A j \in Jobs :
    /\ sent[j] # 0 => sent[j] = 1 /\ Key(j) /\ ~At(j, "send")
    /\ At(j, "send") => Key(j)

\* Each attempt that was counted failed.
Counted ==
  \A j \in Jobs :
    /\ job[j].made <= failures
    /\ job[j].pc \in {"clear", "fail"} => job[j].made < failures

\* A job that no failure has struck is on its first attempt, which has the key to itself.
Unharmed ==
  \A j \in Jobs : ~At(j, "none") /\ Mail(j) \notin struck =>
    /\ dead[j] = "none" /\ job[j].pc \notin {"clear", "fail", "bury", "failed"}
    /\ job[j].pc \in {"waiting", "reserve"} => ~Key(j)
    /\ job[j].pc \in {"finish", "completed"} => sent[j] = 1

Consistent ==
  TypeOK /\ JobsKnown /\ Accounted /\ SentWithKey /\ Counted /\ DeadLettered /\ Unharmed
=============================================================================

--------------------------- MODULE ActivityProofs ---------------------------
(***************************************************************************)
(* Proofs about Activity: the inductive invariant Consistent, and from it  *)
(* that no job mails twice, that a failed job is a dead letter and that    *)
(* what fails in one output costs nothing elsewhere, for any number of     *)
(* events, jobs, attempts and failures.                                    *)
(***************************************************************************)
EXTENDS Activity, TLAPS

\* What a step of the worker does to one job.
Others(j) == \A i \in Jobs \ {j} : job'[i] = job[i]
Keeps(j) == /\ job'[j].event = job[j].event /\ job'[j].attempts = job[j].attempts
            /\ job'[j].stalled = job[j].stalled

LEMMA Moves ==
  ASSUME TypeOK, NEW j \in Jobs, NEW pc \in Pcs, Move(j, pc)
  PROVE  /\ job' \in [Jobs -> Job] /\ Others(j) /\ Keeps(j)
         /\ job'[j].pc = pc /\ job'[j].made = job[j].made
<1>1. job \in [Jobs -> Job] /\ job[j] \in Job /\ job' = [job EXCEPT ![j].pc = pc]
  BY DEF TypeOK, Move
<1> QED BY <1>1 DEF Others, Keeps, Job

LEMMA Numbers == Events \subseteq Jobs /\ Events \subseteq Nat /\ Jobs \subseteq Nat /\ 0 \notin Jobs
BY ActivityAssumption DEF Events, Jobs

LEMMA NewJobs ==
  /\ NoJob \in Job
  /\ \A n \in Events, a \in Nat :
       /\ NewJob(n, a) \in Job /\ NewJob(n, a).pc = "waiting"
       /\ NewJob(n, a).event = n /\ NewJob(n, a).made = 0
<1>1. NoJob \in Job
  BY DEF NoJob, Job, Pcs, Active
<1>2. ASSUME NEW n \in Events, NEW a \in Nat
      PROVE  /\ NewJob(n, a) \in Job /\ NewJob(n, a).pc = "waiting"
             /\ NewJob(n, a).event = n /\ NewJob(n, a).made = 0
  BY Numbers DEF NewJob, Job, Pcs
<1> QED BY <1>1, <1>2

\* A job that has begun, or has a dead letter, is of an event.
LEMMA MailTyped ==
  ASSUME TypeOK, JobsKnown, NEW j \in Jobs, ~At(j, "none") \/ dead[j] # "none"
  PROVE  Mail(j) \in Events \X Listeners /\ job[j].event \in Events
<1>1. job[j].event \in Events
  BY DEF JobsKnown
<1> QED BY <1>1 DEF Mail, Listeners

LEMMA FailsTyped ==
  ASSUME TypeOK, NEW o \in Events \X Listeners, Fails(o)
  PROVE  failures' \in Nat /\ struck' \subseteq Events \X Listeners /\ failures' = failures + 1
BY DEF Fails, TypeOK

-----------------------------------------------------------------------------
(* Types. *)

LEMMA JobStepTyped ==
  ASSUME TypeOK, NEW j \in Jobs, JobStep(j) PROVE TypeOK'
<1> USE DEF TypeOK
<1>1. CASE Take(j) \/ Reserve(j) \/ Send(j) \/ Clear(j) \/ Finish(j)
  <2>1. \E pc \in Pcs : Move(j, pc)
    BY <1>1 DEF Take, Reserve, Send, Clear, Finish, Pcs, Active
  <2>2. job' \in [Jobs -> Job]
    BY <2>1, Moves
  <2>3. UNCHANGED <<kind, pending, happened, dead, struck, failures>>
    BY <1>1 DEF Take, Reserve, Send, Clear, Finish
  <2>4. keys' \subseteq {"eamil", "email"} \X Jobs
    BY <1>1 DEF Take, Reserve, Send, Clear, Finish
  <2>5. sent' \in [Jobs -> Nat]
    BY <1>1 DEF Take, Reserve, Send, Clear, Finish
  <2> QED BY <2>2, <2>3, <2>4, <2>5
<1>2. CASE Fail(j)
  <2>1. job' \in [Jobs -> Job]
    <3>1. job[j] \in Job /\ job[j].made + 1 \in Nat
      BY DEF Job
    <3> QED BY <1>2, <3>1 DEF Fail, Job, Pcs
  <2> QED BY <1>2, <2>1 DEF Fail
<1>3. CASE Bury(j)
  <2>1. job' \in [Jobs -> Job]
    BY <1>3, Moves DEF Bury, Pcs
  <2>2. dead' \in [Jobs -> {"none", "transient", "unknown", "replayed", "done"}]
    BY <1>3 DEF Bury
  <2> QED BY <1>3, <2>1, <2>2 DEF Bury
<1> QED BY <1>1, <1>2, <1>3 DEF JobStep

LEMMA WorkerFailsTyped ==
  ASSUME TypeOK, JobsKnown, NEW j \in Jobs, WorkerFails(j) PROVE TypeOK'
<1>1. \E pc \in Pcs : Move(j, pc) /\ ~At(j, "none")
  BY DEF WorkerFails, Pcs, Active, At
<1>2. job' \in [Jobs -> Job] /\ Mail(j) \in Events \X Listeners
  BY <1>1, Moves, MailTyped
<1>3. failures' \in Nat /\ struck' \subseteq Events \X Listeners
  BY <1>2, FailsTyped DEF WorkerFails
<1>4. UNCHANGED <<kind, pending, happened, dead>>
  BY DEF WorkerFails
<1>5. keys' \subseteq {"eamil", "email"} \X Jobs
  BY DEF WorkerFails, TypeOK
<1>6. sent' \in [Jobs -> Nat]
  BY DEF WorkerFails, TypeOK
<1> QED BY <1>2, <1>3, <1>4, <1>5, <1>6 DEF TypeOK

LEMMA DeadTyped ==
  ASSUME TypeOK, JobsKnown, NEW j \in Jobs, DeadStep(j) \/ ReplayFails(j) PROVE TypeOK'
<1>1. CASE Replay(j)
  <2>1. job[j].event \in Events
    BY <1>1, MailTyped DEF Replay
  <2>2. PICK k \in Jobs : job' = [job EXCEPT ![k] = NewJob(job[j].event, ReplayAttempts)]
    BY <1>1 DEF Replay
  <2>3. job' \in [Jobs -> Job]
    BY <2>1, <2>2, NewJobs, ActivityAssumption DEF TypeOK
  <2>4. dead' \in [Jobs -> {"none", "transient", "unknown", "replayed", "done"}]
    BY <1>1 DEF Replay, TypeOK
  <2> QED BY <1>1, <2>3, <2>4 DEF Replay, TypeOK
<1>2. CASE Close(j)
  BY <1>2 DEF Close, TypeOK
<1>3. CASE ReplayFails(j)
  <2>1. Mail(j) \in Events \X Listeners
    BY <1>3, MailTyped DEF ReplayFails
  <2>2. failures' \in Nat /\ struck' \subseteq Events \X Listeners
    BY <1>3, <2>1, FailsTyped DEF ReplayFails
  <2> QED BY <1>3, <2>2 DEF ReplayFails, TypeOK
<1> QED BY <1>1, <1>2, <1>3 DEF DeadStep

LEMMA BusTyped ==
  ASSUME TypeOK, NEW n \in Events,
         \/ \E t \in Emitted : Emit(n, t)
         \/ \E l \in Listeners : Listen(n, l) \/ ListenFails(n, l)
  PROVE  TypeOK'
<1>1. ASSUME NEW t \in Emitted, Emit(n, t) PROVE TypeOK'
  <2>1. t \in Types
    BY ActivityAssumption DEF Types
  <2>2. OutputsOf(n, t) \subseteq Events \X Listeners
    BY DEF OutputsOf
  <2> QED BY <1>1, <2>1, <2>2 DEF Emit, TypeOK
<1>2. ASSUME NEW l \in Listeners, Listen(n, l) PROVE TypeOK'
  <2>1. job' \in [Jobs -> Job] /\ happened' \subseteq Events \X Listeners /\ pending' \subseteq Events \X Listeners
    BY <1>2, NewJobs, Numbers, ActivityAssumption DEF Listen, TypeOK
  <2> QED BY <1>2, <2>1 DEF Listen, TypeOK
<1>3. ASSUME NEW l \in Listeners, ListenFails(n, l) PROVE TypeOK'
  <2>1. <<n, l>> \in Events \X Listeners
    BY <1>3
  <2>2. failures' \in Nat /\ struck' \subseteq Events \X Listeners
    BY <1>3, <2>1, FailsTyped DEF ListenFails
  <2> QED BY <1>3, <2>2 DEF ListenFails, TypeOK
<1> QED BY <1>1, <1>2, <1>3

LEMMA WorkerCrashTyped == ASSUME TypeOK, JobsKnown, WorkerCrash PROVE TypeOK'
<1>1. job' \in [Jobs -> Job]
  <2>1. ASSUME NEW j \in Jobs PROVE job'[j] \in Job
    <3>1. job[j] \in Job
      BY DEF TypeOK
    <3> QED BY <3>1 DEF WorkerCrash, Job, Pcs, Active
  <2> QED BY <2>1 DEF WorkerCrash
<1>2. dead' \in [Jobs -> {"none", "transient", "unknown", "replayed", "done"}]
  BY DEF WorkerCrash, TypeOK
<1>3. struck' \subseteq Events \X Listeners
  <2>1. ASSUME NEW j \in Jobs, job[j].pc \in Active \cup {"bury"} \/ dead[j] = "replayed"
        PROVE  Mail(j) \in Events \X Listeners
    <3>1. ~At(j, "none") \/ dead[j] # "none"
      BY <2>1 DEF Active, At
    <3> QED BY <3>1, MailTyped
  <2>2. struck \subseteq Events \X Listeners
    BY DEF TypeOK
  <2> QED BY <2>1, <2>2 DEF WorkerCrash
<1> QED BY <1>1, <1>2, <1>3 DEF WorkerCrash, TypeOK

LEMMA NextTyped == TypeOK /\ JobsKnown /\ [Next]_vars => TypeOK'
<1> SUFFICES ASSUME TypeOK, JobsKnown, [Next]_vars PROVE TypeOK'
  OBVIOUS
<1>1. CASE ApiCrash
  BY <1>1 DEF ApiCrash, TypeOK
<1>2. CASE UNCHANGED vars
  BY <1>2 DEF vars, TypeOK
<1> QED BY <1>1, <1>2, BusTyped, JobStepTyped, DeadTyped, WorkerFailsTyped, WorkerCrashTyped
        DEF Next, Api, Worker

-----------------------------------------------------------------------------
(* Jobs, one by one. *)

\* SentWithKey, Counted, DeadLettered and Unharmed, of one job.
Fine(j) ==
  /\ sent[j] # 0 => sent[j] = 1 /\ Key(j) /\ ~At(j, "send")
  /\ At(j, "send") => Key(j)
  /\ job[j].made <= failures
  /\ job[j].pc \in {"clear", "fail"} => job[j].made < failures
  /\ At(j, "failed") /\ dead[j] = "none" => failures > job[j].made
  /\ ~At(j, "none") /\ Mail(j) \notin struck =>
       /\ dead[j] = "none" /\ job[j].pc \notin {"clear", "fail", "bury", "failed"}
       /\ job[j].pc \in {"waiting", "reserve"} => ~Key(j)
       /\ job[j].pc \in {"finish", "completed"} => sent[j] = 1

AllFine == \A j \in Jobs : Fine(j)

LEMMA Parts == AllFine <=> SentWithKey /\ Counted /\ DeadLettered /\ Unharmed
BY DEF AllFine, Fine, SentWithKey, Counted, DeadLettered, Unharmed

\* A step that leaves job i alone.
Same(i) ==
  /\ job'[i] = job[i] /\ sent'[i] = sent[i] /\ dead'[i] = dead[i]
  /\ Key(i)' <=> Key(i)
  /\ struck \subseteq struck' /\ failures' \in {failures, failures + 1}

LEMMA SameFine == ASSUME TypeOK, NEW i \in Jobs, Fine(i), Same(i) PROVE Fine(i)'
<1>1. failures \in Nat /\ job[i].made \in Nat
  BY DEF TypeOK, Job
<1>2. /\ job'[i] = job[i] /\ sent'[i] = sent[i] /\ dead'[i] = dead[i]
      /\ Key(i)' <=> Key(i)
      /\ struck \subseteq struck' /\ failures' \in {failures, failures + 1}
  BY DEF Same
<1>3. \A m \in Nat : (m <= failures => m <= failures') /\ (m < failures => m < failures')
  BY <1>1, <1>2
<1> QED BY <1>1, <1>2, <1>3 DEF Fine, At, Mail

\* A step of job j, and of no other.
Local(j) ==
  /\ UNCHANGED <<kind, pending, happened>>
  /\ ~At(j, "none") /\ job'[j].pc # "none" /\ Keeps(j)
  /\ \A i \in Jobs \ {j} : Same(i)
  /\ struck \subseteq struck'

LEMMA LocalKnown ==
  ASSUME TypeOK, JobsKnown, Accounted, NEW j \in Jobs, Local(j) PROVE JobsKnown' /\ Accounted'
<1>1. \A i \in Jobs : (At(i, "none")' <=> At(i, "none")) /\ job'[i].event = job[i].event
  BY DEF Local, Same, Keeps, At
<1>2. \A i \in Jobs : Mail(i)' = Mail(i)
  BY <1>1 DEF Mail
<1>3. JobsKnown'
  <2>1. \A i \in Jobs : At(i, "none")' => ~Key(i)' /\ sent'[i] = 0 /\ dead'[i] = "none"
    BY <1>1 DEF Local, Same, JobsKnown
  <2>2. \A i \in Jobs : ~At(i, "none")' =>
          job'[i].event \in Events /\ (job'[i].event = i \/ Mail(i)' \in struck')
    BY <1>1, <1>2 DEF Local, JobsKnown
  <2>3. \A i \in Jobs : i \in Events /\ ~At(i, "none")' => job'[i].event = i
    BY <1>1 DEF JobsKnown
  <2> QED BY <2>1, <2>2, <2>3 DEF JobsKnown
<1>4. Accounted'
  <2>1. kind' = kind /\ pending' = pending /\ happened' = happened /\ struck \subseteq struck'
    BY DEF Local
  <2>2. \A n \in Events : At(n, "none")' <=> At(n, "none")
    BY <1>1, Numbers
  <2> QED BY <2>1, <2>2 DEF Accounted
<1> QED BY <1>3, <1>4

LEMMA JobStepLocal ==
  ASSUME TypeOK, AllFine, JobsKnown, NEW j \in Jobs, JobStep(j) PROVE Local(j) /\ Fine(j)'
<1>1. /\ job \in [Jobs -> Job] /\ job[j] \in Job /\ failures \in Nat /\ job[j].made \in Nat
      /\ sent \in [Jobs -> Nat]
  BY DEF TypeOK, Job
<1>2. \A pc \in Pcs : Move(j, pc) =>
        Others(j) /\ Keeps(j) /\ job'[j].pc = pc /\ job'[j].made = job[j].made
  BY Moves
<1>3. Fine(j) /\ UNCHANGED <<kind, pending, happened, struck, failures>>
  BY DEF AllFine, JobStep, Take, Reserve, Send, Clear, Finish, Fail, Bury
<1>4. Keeps(j) => Mail(j)' = Mail(j)
  BY DEF Keeps, Mail
<1> USE DEF Local, Same, Fine, At, Key, Others
<1>5. CASE Take(j)
  BY <1>1, <1>2, <1>3, <1>4, <1>5 DEF Take, Pcs, Active
<1>6. CASE Reserve(j)
  <2>1. CASE Key(j) /\ Move(j, "finish") /\ UNCHANGED keys
    BY <1>1, <1>2, <1>3, <1>4, <1>6, <2>1 DEF Reserve, Pcs, Active
  <2>2. CASE ~Key(j) /\ Move(j, "send") /\ keys' = keys \cup {<<"eamil", j>>}
    BY <1>1, <1>2, <1>3, <1>4, <1>6, <2>2 DEF Reserve, Pcs, Active
  <2> QED BY <1>6, <2>1, <2>2 DEF Reserve
<1>7. CASE Send(j)
  <2>1. sent[j] = 0 /\ sent'[j] = 1 /\ \A i \in Jobs \ {j} : sent'[i] = sent[i]
    BY <1>1, <1>3, <1>7 DEF Send
  <2> QED BY <1>1, <1>2, <1>3, <1>4, <1>7, <2>1 DEF Send, Pcs, Active
<1>8. CASE Clear(j)
  BY <1>1, <1>2, <1>3, <1>4, <1>8 DEF Clear, Pcs, Active
<1>9. CASE Finish(j)
  BY <1>1, <1>2, <1>3, <1>4, <1>9 DEF Finish, Pcs, Active
<1>10. CASE Fail(j)
  <2>1. /\ \A i \in Jobs \ {j} : job'[i] = job[i]
        /\ Keeps(j) /\ job'[j].pc \in {"waiting", "bury"} /\ job'[j].made = job[j].made + 1
    BY <1>1, <1>10 DEF Fail, Keeps
  <2>2. job[j].made + 1 <= failures
    BY <1>1, <1>3, <1>10 DEF Fail
  <2> QED BY <1>1, <1>3, <1>4, <1>10, <2>1, <2>2 DEF Fail
<1>11. CASE Bury(j)
  <2>1. dead'[j] # "none" /\ \A i \in Jobs \ {j} : dead'[i] = dead[i]
    BY <1>11 DEF Bury, TypeOK
  <2> QED BY <1>1, <1>2, <1>3, <1>4, <1>11, <2>1 DEF Bury, Pcs, Active
<1> QED BY <1>5, <1>6, <1>7, <1>8, <1>9, <1>10, <1>11 DEF JobStep

LEMMA WorkerFailsLocal ==
  ASSUME TypeOK, AllFine, JobsKnown, NEW j \in Jobs, WorkerFails(j) PROVE Local(j) /\ Fine(j)'
<1>1. /\ job \in [Jobs -> Job] /\ job[j] \in Job /\ failures \in Nat /\ job[j].made \in Nat
      /\ sent \in [Jobs -> Nat]
  BY DEF TypeOK, Job
<1>2. \A pc \in Pcs : Move(j, pc) =>
        Others(j) /\ Keeps(j) /\ job'[j].pc = pc /\ job'[j].made = job[j].made
  BY Moves
<1>3. /\ Fine(j) /\ UNCHANGED <<kind, pending, happened, dead>>
      /\ failures' = failures + 1 /\ struck' = struck \cup {Mail(j)}
  BY DEF AllFine, WorkerFails, Fails
<1>4. /\ ~At(j, "none") /\ Others(j) /\ Keeps(j) /\ job'[j].made = job[j].made
      /\ job'[j].pc \in {"fail", "clear", "failed"}
  BY <1>2 DEF WorkerFails, At, Pcs, Active
<1>5. Mail(j)' \in struck'
  BY <1>3, <1>4 DEF Keeps, Mail
<1>6. keys' \in {keys, keys \cup {<<"eamil", j>>}} /\ (At(j, "send") => UNCHANGED keys)
  BY DEF WorkerFails, At
<1>7. /\ \A i \in Jobs \ {j} : sent'[i] = sent[i]
      /\ sent'[j] = sent[j] \/ (sent'[j] = sent[j] + 1 /\ At(j, "send"))
  BY <1>1 DEF WorkerFails
<1>8. job[j].made < failures' /\ job[j].made <= failures'
  BY <1>1, <1>3 DEF Fine
<1>9. sent'[j] # 0 => sent'[j] = 1 /\ Key(j)'
  BY <1>1, <1>3, <1>6, <1>7 DEF Fine, Key
<1>10. Local(j)
  BY <1>3, <1>4, <1>6, <1>7 DEF Local, Same, Others, Key
<1>11. Fine(j)'
  BY <1>3, <1>4, <1>5, <1>8, <1>9 DEF Fine, At
<1> QED BY <1>10, <1>11

-----------------------------------------------------------------------------
(* The other steps. *)

Known == JobsKnown /\ Accounted /\ AllFine

\* The bus does nothing to the jobs.
LEMMA BusKnown ==
  ASSUME TypeOK, Known, NEW n \in Events,
         \/ \E t \in Emitted : Emit(n, t)
         \/ \E l \in Listeners : ListenFails(n, l)
         \/ \E l \in Listeners \ {"mail"} : Listen(n, l)
         \/ ApiCrash
  PROVE  Known'
<1>1. /\ UNCHANGED <<job, keys, sent, dead>> /\ struck \subseteq struck'
      /\ failures' \in {failures, failures + 1}
  BY DEF Emit, Listen, ListenFails, ApiCrash, Fails
<1>2. \A i \in Jobs : Same(i)
  BY <1>1 DEF Same, Key
<1>3. AllFine'
  BY <1>2, SameFine DEF Known, AllFine
<1>4. JobsKnown'
  BY <1>1 DEF Known, JobsKnown, At, Key, Mail
<1>5. \A m \in Events : At(m, "none")' <=> At(m, "none")
  BY <1>1 DEF At
<1>6. Accounted'
  <2>1. ASSUME NEW t \in Emitted, Emit(n, t) PROVE Accounted'
    <3>1. t # "none" /\ t \in Types
      BY ActivityAssumption DEF Types
    <3>2. /\ kind[n] = "none" /\ kind'[n] = t /\ \A m \in Events \ {n} : kind'[m] = kind[m]
          /\ pending' = pending \cup OutputsOf(n, t)
          /\ UNCHANGED <<happened, struck>>
      BY <2>1 DEF Emit, TypeOK
    <3>3. \A m \in Events, l \in Listeners : <<m, l>> \in OutputsOf(n, t) <=> m = n /\ t \in Listens[l]
      BY DEF OutputsOf
    <3>4. At(n, "none")
      BY <3>2 DEF Known, Accounted
    <3>5. \A m \in Events \ {n}, l \in Listeners : <<m, l>> \in pending' <=> <<m, l>> \in pending
      BY <3>2, <3>3
    <3>6. \A m \in Events \ {n} :
            /\ kind'[m] = "none" => At(m, "none")' /\ \A l \in Listeners : <<m, l>> \notin pending'
            /\ <<m, "mail">> \in pending' => At(m, "none")'
            /\ \A l \in Listeners : kind'[m] # "none" /\ kind'[m] \in Listens[l] =>
                 \/ <<m, l>> \in pending' \/ <<m, l>> \in struck'
                 \/ IF l = "mail" THEN ~At(m, "none")' ELSE <<m, l>> \in happened'
      BY <1>5, <3>2, <3>5 DEF Known, Accounted, Listeners
    <3>7. \A l \in Listeners : kind'[n] \in Listens[l] => <<n, l>> \in pending'
      BY <3>2, <3>3
    <3>8. kind'[n] # "none" /\ At(n, "none")'
      BY <1>5, <3>1, <3>2, <3>4
    <3> QED BY <3>6, <3>7, <3>8 DEF Accounted
  <2>2. ASSUME NEW l \in Listeners, ListenFails(n, l) PROVE Accounted'
    <3>1. /\ kind' = kind /\ happened' = happened /\ pending' = pending \ {<<n, l>>}
          /\ struck' = struck \cup {<<n, l>>}
      BY <2>2 DEF ListenFails, Fails
    <3> QED BY <1>5, <3>1 DEF Known, Accounted
  <2>3. ASSUME NEW l \in Listeners \ {"mail"}, Listen(n, l) PROVE Accounted'
    <3>1. /\ kind' = kind /\ happened' = happened \cup {<<n, l>>} /\ pending' = pending \ {<<n, l>>}
          /\ struck' = struck
      BY <2>3 DEF Listen
    <3> QED BY <1>5, <3>1 DEF Known, Accounted
  <2>4. CASE ApiCrash
    <3>1. kind' = kind /\ happened' = happened /\ pending' = {} /\ struck' = struck \cup pending
      BY <2>4 DEF ApiCrash
    <3> QED BY <1>5, <3>1 DEF Known, Accounted
  <2> QED BY <2>1, <2>2, <2>3, <2>4
<1> QED BY <1>3, <1>4, <1>6 DEF Known

\* A new job has no key yet.
LEMMA NewFine ==
  ASSUME TypeOK, NEW j \in Jobs, NEW n \in Events, NEW a \in Nat,
         At(j, "none"), JobsKnown, failures \in Nat
  PROVE  job'[j] = NewJob(n, a) /\ UNCHANGED <<keys, sent, dead, failures>> => Fine(j)'
<1>1. ~Key(j) /\ sent[j] = 0 /\ dead[j] = "none"
  BY DEF JobsKnown
<1>2. NewJob(n, a).pc = "waiting" /\ NewJob(n, a).made = 0
  BY NewJobs
<1> QED BY <1>1, <1>2 DEF Fine, At, Key

LEMMA ListenMailKnown ==
  ASSUME TypeOK, Known, NEW n \in Events, Listen(n, "mail") PROVE Known'
<1>1. n \in Jobs /\ Attempts \in Nat /\ failures \in Nat
  BY Numbers, ActivityAssumption DEF TypeOK
<1>2. /\ <<n, "mail">> \in pending /\ pending' = pending \ {<<n, "mail">>}
      /\ job' = [job EXCEPT ![n] = NewJob(n, Attempts)]
      /\ UNCHANGED <<kind, happened, keys, sent, dead, struck, failures>>
  BY DEF Listen
<1>3. /\ job'[n] = NewJob(n, Attempts) /\ \A i \in Jobs \ {n} : job'[i] = job[i]
      /\ job'[n].event = n /\ job'[n].pc = "waiting"
  BY <1>1, <1>2, NewJobs DEF TypeOK
<1>4. At(n, "none")
  BY <1>2 DEF Known, Accounted
<1>5. Fine(n)'
  BY <1>1, <1>2, <1>3, <1>4, NewFine DEF Known
<1>6. \A i \in Jobs \ {n} : Same(i)
  BY <1>2, <1>3 DEF Same, Key
<1>7. AllFine'
  BY <1>5, <1>6, SameFine DEF Known, AllFine
<1>8. JobsKnown'
  <2>1. ASSUME NEW i \in Jobs \ {n}
        PROVE  /\ At(i, "none")' => ~Key(i)' /\ sent'[i] = 0 /\ dead'[i] = "none"
               /\ ~At(i, "none")' => job'[i].event \in Events /\ (job'[i].event = i \/ Mail(i)' \in struck')
               /\ i \in Events /\ ~At(i, "none")' => job'[i].event = i
    BY <1>2, <1>3 DEF Known, JobsKnown, At, Key, Mail
  <2>2. ~At(n, "none")' /\ job'[n].event = n
    BY <1>3 DEF At
  <2> QED BY <2>1, <2>2 DEF JobsKnown
<1>9. Accounted'
  <2>1. \A m \in Events \ {n} : At(m, "none")' <=> At(m, "none")
    BY <1>3, Numbers DEF At
  <2>2. ~At(n, "none")' /\ kind[n] # "none"
    BY <1>2, <1>3, <1>4 DEF At, Known, Accounted, Listeners
  <2>3. \A m \in Events, l \in Listeners :
          <<m, l>> \in pending' <=> <<m, l>> \in pending /\ ~(m = n /\ l = "mail")
    BY <1>2
  <2>4. kind' = kind /\ happened' = happened /\ struck' = struck
    BY <1>2
  <2>5. \A m \in Events \ {n} :
          /\ kind'[m] = "none" => At(m, "none")' /\ \A l \in Listeners : <<m, l>> \notin pending'
          /\ <<m, "mail">> \in pending' => At(m, "none")'
          /\ \A l \in Listeners : kind'[m] # "none" /\ kind'[m] \in Listens[l] =>
               \/ <<m, l>> \in pending' \/ <<m, l>> \in struck'
               \/ IF l = "mail" THEN ~At(m, "none")' ELSE <<m, l>> \in happened'
    BY <2>1, <2>3, <2>4 DEF Known, Accounted, Listeners
  <2>6. \A l \in Listeners : kind'[n] # "none" /\ kind'[n] \in Listens[l] =>
               \/ <<n, l>> \in pending' \/ <<n, l>> \in struck'
               \/ IF l = "mail" THEN ~At(n, "none")' ELSE <<n, l>> \in happened'
    BY <2>2, <2>3, <2>4 DEF Known, Accounted
  <2>7. <<n, "mail">> \notin pending'
    BY <1>2
  <2> QED BY <2>2, <2>4, <2>5, <2>6, <2>7 DEF Accounted
<1> QED BY <1>7, <1>8, <1>9 DEF Known

\* A job with a dead letter has failed before.
LEMMA DeadStruck ==
  ASSUME Known, NEW j \in Jobs, dead[j] # "none"
  PROVE  ~At(j, "none") /\ Mail(j) \in struck /\ job[j].event \in Events
BY DEF Known, JobsKnown, AllFine, Fine

LEMMA DeadLocal ==
  ASSUME TypeOK, Known, NEW j \in Jobs, Close(j) \/ ReplayFails(j) PROVE Local(j) /\ Fine(j)'
<1>1. dead[j] # "none"
  BY DEF Close, ReplayFails
<1>2. ~At(j, "none") /\ Mail(j) \in struck
  BY <1>1, DeadStruck
<1>3. /\ UNCHANGED <<kind, pending, happened, job, keys, sent>> /\ struck \subseteq struck'
      /\ failures' \in {failures, failures + 1}
      /\ dead'[j] = "done" /\ \A i \in Jobs \ {j} : dead'[i] = dead[i]
  BY DEF Close, ReplayFails, Fails, TypeOK
<1>4. Local(j)
  BY <1>2, <1>3 DEF Local, Same, Keeps, At, Key
<1>5. failures \in Nat /\ job[j].made \in Nat /\ Fine(j)
  BY DEF TypeOK, Job, Known, AllFine
<1>6. Fine(j)'
  <2>1. \A m \in Nat : (m <= failures => m <= failures') /\ (m < failures => m < failures')
    BY <1>3, <1>5
  <2> QED BY <1>2, <1>3, <1>5, <2>1 DEF Fine, At, Key, Mail
<1> QED BY <1>4, <1>6

LEMMA ReplayKnown == ASSUME TypeOK, Known, NEW j \in Jobs, Replay(j) PROVE Known'
<1>1. PICK k \in Jobs \ Events :
        At(k, "none") /\ job' = [job EXCEPT ![k] = NewJob(job[j].event, ReplayAttempts)]
  BY DEF Replay
<1>2. ~At(j, "none") /\ Mail(j) \in struck /\ job[j].event \in Events
  BY DeadStruck DEF Replay
<1>3. /\ UNCHANGED <<kind, pending, happened, keys, sent, struck, failures>>
      /\ dead'[j] = "replayed" /\ \A i \in Jobs \ {j} : dead'[i] = dead[i]
  BY DEF Replay, TypeOK
<1>4. k # j /\ dead'[k] = dead[k]
  BY <1>1, <1>2, <1>3
<1>5. /\ job'[k] = NewJob(job[j].event, ReplayAttempts)
      /\ \A i \in Jobs \ {k} : job'[i] = job[i]
  BY <1>1 DEF TypeOK
<1>6. job'[k].event = job[j].event /\ job'[k].pc = "waiting" /\ job'[k].made = 0
  BY <1>2, <1>5, NewJobs, ActivityAssumption
<1>7. failures \in Nat
  BY DEF TypeOK
<1>8. Fine(k)'
  <2>1. ~Key(k) /\ sent[k] = 0 /\ dead[k] = "none"
    BY <1>1 DEF Known, JobsKnown
  <2> QED BY <1>3, <1>4, <1>6, <1>7, <2>1 DEF Fine, At, Key
<1>9. Fine(j)'
  <2>1. Fine(j)
    BY DEF Known, AllFine
  <2> QED BY <1>2, <1>3, <1>4, <1>5, <2>1 DEF Fine, At, Key, Mail
<1>10. \A i \in Jobs \ {j, k} : Same(i)
  BY <1>3, <1>5 DEF Same, Key
<1>11. AllFine'
  BY <1>8, <1>9, <1>10, SameFine DEF Known, AllFine
<1>12. JobsKnown'
  <2>1. ASSUME NEW i \in Jobs \ {k}
        PROVE  /\ At(i, "none")' => ~Key(i)' /\ sent'[i] = 0 /\ dead'[i] = "none"
               /\ ~At(i, "none")' => job'[i].event \in Events /\ (job'[i].event = i \/ Mail(i)' \in struck')
               /\ i \in Events /\ ~At(i, "none")' => job'[i].event = i
    BY <1>2, <1>3, <1>5 DEF Known, JobsKnown, At, Key, Mail
  <2>2. ~At(k, "none")' /\ k \notin Events /\ job'[k].event \in Events /\ Mail(k)' \in struck'
    BY <1>1, <1>2, <1>3, <1>6 DEF At, Mail
  <2> QED BY <2>1, <2>2 DEF JobsKnown
<1>13. Accounted'
  <2>1. \A n \in Events : At(n, "none")' <=> At(n, "none")
    BY <1>5, Numbers DEF At
  <2> QED BY <1>3, <2>1 DEF Known, Accounted
<1> QED BY <1>11, <1>12, <1>13 DEF Known

LEMMA WorkerCrashKnown == ASSUME TypeOK, Known, WorkerCrash PROVE Known'
<1>1. /\ UNCHANGED <<kind, pending, happened, keys, sent>> /\ struck \subseteq struck'
      /\ failures' = failures + 1 /\ failures \in Nat
      /\ \A j \in Jobs : job[j].pc \in Active \cup {"bury"} \/ dead[j] = "replayed" => Mail(j) \in struck'
  BY DEF WorkerCrash, TypeOK
<1>2. ASSUME NEW j \in Jobs
      PROVE  /\ job'[j].event = job[j].event /\ job'[j].made = job[j].made
             /\ \/ job'[j].pc = job[j].pc /\ job[j].pc \notin Active \cup {"bury"}
                \/ job'[j].pc \in {"waiting", "failed"} /\ job[j].pc \in Active \cup {"bury"}
             /\ dead'[j] = dead[j] \/ (dead'[j] # "none" /\ dead[j] = "replayed")
  <2>1. job[j] \in Job
    BY DEF TypeOK
  <2>2. /\ job'[j].event = job[j].event /\ job'[j].made = job[j].made
        /\ \/ job'[j].pc = job[j].pc /\ job[j].pc \notin Active \cup {"bury"}
           \/ job'[j].pc \in {"waiting", "failed"} /\ job[j].pc \in Active \cup {"bury"}
    BY <2>1 DEF WorkerCrash, Job
  <2>3. dead'[j] = dead[j] \/ (dead'[j] # "none" /\ dead[j] = "replayed")
    BY DEF WorkerCrash
  <2> QED BY <2>2, <2>3
<1>3. \A j \in Jobs : (At(j, "none")' <=> At(j, "none")) /\ Mail(j)' = Mail(j) /\ (Key(j)' <=> Key(j))
  BY <1>1, <1>2 DEF At, Mail, Key, Active
<1>4. ASSUME NEW j \in Jobs PROVE Fine(j)'
  <2>1. Fine(j) /\ job[j].made \in Nat
    BY DEF Known, AllFine, TypeOK, Job
  <2>2. job'[j].made = job[j].made /\ job[j].made <= failures /\ job[j].made < failures'
    BY <1>1, <1>2, <2>1 DEF Fine
  <2>3. CASE job[j].pc \in Active \cup {"bury"}
    <3>1. job'[j].pc \in {"waiting", "failed"} /\ Mail(j)' \in struck'
      BY <1>1, <1>2, <1>3, <2>3 DEF Active
    <3> QED BY <1>1, <1>3, <2>1, <2>2, <3>1 DEF Fine, At
  <2>4. CASE job[j].pc \notin Active \cup {"bury"}
    <3>1. job'[j].pc = job[j].pc
      BY <1>2, <2>4
    <3>2. dead'[j] = dead[j] \/ (dead'[j] # "none" /\ Mail(j)' \in struck')
      BY <1>1, <1>2, <1>3
    <3> QED BY <1>1, <1>3, <2>1, <2>2, <3>1, <3>2 DEF Fine, At
  <2> QED BY <2>3, <2>4
<1>5. JobsKnown'
  <2>1. \A j \in Jobs : dead[j] = "none" => dead'[j] = "none"
    BY <1>2
  <2> QED BY <1>1, <1>2, <1>3, <2>1 DEF Known, JobsKnown
<1>6. Accounted'
  <2>1. \A n \in Events : At(n, "none")' <=> At(n, "none")
    BY <1>3, Numbers
  <2> QED BY <1>1, <2>1 DEF Known, Accounted
<1> QED BY <1>4, <1>5, <1>6 DEF Known, AllFine

LEMMA NextKnown == TypeOK /\ Known /\ [Next]_vars => Known'
<1> SUFFICES ASSUME TypeOK, Known, [Next]_vars PROVE Known'
  OBVIOUS
<1>1. CASE \E n \in Events : \/ \E t \in Emitted : Emit(n, t)
                             \/ \E l \in Listeners : Listen(n, l) \/ ListenFails(n, l)
  BY <1>1, BusKnown, ListenMailKnown
<1>2. CASE ApiCrash
  <2>1. CASE Events = {}
    <3>1. \A i \in Jobs : Same(i)
      BY <1>2 DEF ApiCrash, Same, Key
    <3>2. AllFine'
      BY <3>1, SameFine DEF Known, AllFine
    <3>3. JobsKnown' /\ Accounted'
      BY <1>2, <2>1 DEF ApiCrash, Known, JobsKnown, Accounted, At, Key, Mail
    <3> QED BY <3>2, <3>3 DEF Known
  <2>2. CASE \E n \in Events : TRUE
    BY <1>2, <2>2, BusKnown
  <2> QED BY <2>1, <2>2
<1>3. ASSUME NEW j \in Jobs, JobStep(j) \/ WorkerFails(j) \/ Close(j) \/ ReplayFails(j) PROVE Known'
  <2>1. Local(j) /\ Fine(j)'
    BY <1>3, JobStepLocal, WorkerFailsLocal, DeadLocal DEF Known
  <2>2. JobsKnown' /\ Accounted'
    BY <2>1, LocalKnown DEF Known
  <2>3. AllFine'
    BY <2>1, SameFine DEF Local, Known, AllFine
  <2> QED BY <2>2, <2>3 DEF Known
<1>4. CASE WorkerCrash
  BY <1>4, WorkerCrashKnown
<1>5. CASE UNCHANGED vars
  <2>1. \A i \in Jobs : Same(i)
    BY <1>5 DEF vars, Same, Key
  <2>2. AllFine'
    BY <2>1, SameFine DEF Known, AllFine
  <2>3. JobsKnown' /\ Accounted'
    BY <1>5 DEF vars, Known, JobsKnown, Accounted, At, Key, Mail
  <2> QED BY <2>2, <2>3 DEF Known
<1> QED BY <1>1, <1>2, <1>3, <1>4, <1>5, ReplayKnown DEF Next, Api, Worker, DeadStep

-----------------------------------------------------------------------------
(* The theorems. *)

LEMMA InitConsistent == Init => TypeOK /\ Known
<1> SUFFICES ASSUME Init PROVE TypeOK /\ Known
  OBVIOUS
<1>1. /\ kind = [n \in Events |-> "none"] /\ job = [j \in Jobs |-> NoJob]
      /\ pending = {} /\ happened = {} /\ keys = {} /\ struck = {} /\ failures = 0
      /\ sent = [j \in Jobs |-> 0] /\ dead = [j \in Jobs |-> "none"]
  BY DEF Init
<1>2. TypeOK
  BY <1>1, NewJobs DEF TypeOK
<1>3. \A j \in Jobs : job[j].pc = "none" /\ job[j].made = 0 /\ sent[j] = 0 /\ dead[j] = "none"
  BY <1>1 DEF NoJob
<1>4. AllFine
  BY <1>1, <1>3 DEF AllFine, Fine, At
<1>5. JobsKnown /\ Accounted
  BY <1>1, <1>3, Numbers DEF JobsKnown, Accounted, At, Key
<1> QED BY <1>2, <1>4, <1>5 DEF Known

\* Events, jobs, keys and dead letters fit together in every reachable state, for any
\* number of them, of attempts and of failures (src/job, src/events).
THEOREM ActivityConsistent == Spec => []Consistent
<1>1. TypeOK /\ Known /\ [Next]_vars => (TypeOK /\ Known)'
  BY NextTyped, NextKnown DEF Known
<1>2. TypeOK /\ Known => Consistent
  BY Parts DEF Known, Consistent
<1> QED BY <1>1, <1>2, InitConsistent, PTL DEF Spec

\* No job sends its mail twice: the key is set first, and no clear deletes it (helper.ts:3).
THEOREM AlwaysSentOnce == Spec => []SentOnce
<1>1. Consistent => SentOnce
  BY DEF Consistent, SentWithKey, SentOnce, TypeOK
<1> QED BY <1>1, ActivityConsistent, PTL

\* A failed job is a dead letter, unless more failed than its attempts (job/workers/email.ts:33).
THEOREM AlwaysDeadLettered == Spec => []DeadLettered
<1>1. Consistent => DeadLettered
  BY DEF Consistent
<1> QED BY <1>1, ActivityConsistent, PTL

\* What fails in one listener, job or mail costs nothing elsewhere (eventBus.ts:88): an output
\* that no failure has struck is pending, or comes about once.
THEOREM AlwaysIsolated == Spec => []Isolated
<1>1. ASSUME Consistent, NEW n \in Events, NEW l \in Listeners,
             kind[n] # "none", <<n, l>> \in OutputsOf(n, kind[n]),
             <<n, l>> \notin pending, <<n, l>> \notin struck
      PROVE  Done(n, l)
  <2>1. kind[n] \in Listens[l]
    BY <1>1 DEF OutputsOf
  <2>2. IF l = "mail" THEN ~At(n, "none") ELSE <<n, l>> \in happened
    BY <1>1, <2>1 DEF Consistent, Accounted
  <2>3. CASE l = "mail"
    <3>1. TypeOK /\ n \in Jobs /\ ~At(n, "none") /\ Mail(n) = <<n, "mail">>
      BY <1>1, <2>2, <2>3, Numbers DEF Consistent, JobsKnown, Mail
    <3>2. JobsOf(n) = {n}
      BY <1>1, <2>3, <3>1 DEF Consistent, JobsKnown, JobsOf, Mail
    <3>3. Busy(n) \/ sent[n] = 1
      BY <1>1, <2>3, <3>1 DEF Consistent, TypeOK, Job, Pcs, Active, Unharmed, At, Busy
    <3> QED BY <2>3, <3>1, <3>2, <3>3 DEF Done
  <2>4. CASE l # "mail"
    BY <2>2, <2>4 DEF Done
  <2> QED BY <2>3, <2>4
<1>2. Consistent => Isolated
  BY <1>1 DEF Isolated
<1> QED BY <1>2, ActivityConsistent, PTL
=============================================================================

----------------------------- MODULE TasksProofs -----------------------------
(***************************************************************************)
(* Proofs about Tasks: the inductive invariant Consistent, and from it     *)
(* that events are true, that no task outlives its project and that        *)
(* optimistic locking loses no update.                                     *)
(***************************************************************************)
EXTENDS Tasks, TLAPS

-----------------------------------------------------------------------------
(* What a step may do to tasks. *)

\* Versions only grow, and what earlier versions were written with stays.
Grows ==
  \A t \in Tasks :
    /\ task[t].version <= task'[t].version
    /\ task[t].state # "NONE" => task'[t].state # "NONE"
    /\ \A v \in 0..task[t].version : past'[t][v] = past[t][v]

\* No version is written; a removal may unassign, a row may come or go.
Mild ==
  /\ past' = past
  /\ \A t \in Tasks :
       /\ task'[t].version = task[t].version /\ task'[t].status = task[t].status
       /\ task'[t].assignee \in {task[t].assignee, None}
       /\ (task'[t].state = "NONE") => (task[t].state = "NONE")
       /\ task[t].state # "NONE" => task'[t].state # "NONE"

LEMMA MildGrows ==
  ASSUME TypeOK, PastAgrees, Mild PROVE Grows /\ PastAgrees'
<1>1. ASSUME NEW t \in Tasks PROVE task[t].version \in Nat
  BY TasksAssumption DEF TypeOK, Task, TasksAssumption
<1>2. Grows
  BY <1>1 DEF Mild, Grows
<1>3. PastAgrees'
  BY DEF Mild, PastAgrees
<1> QED BY <1>2, <1>3

\* True events stay true.
LEMMA EventsKept ==
  ASSUME TypeOK, TypeOK', Grows, NEW e \in events, EventTrue(e) PROVE EventTrue(e)'
<1>1. /\ e.task \in Tasks /\ e.version \in Nat /\ e.read \in Nat
      /\ task[e.task].version \in Nat /\ task'[e.task].version \in Nat
  BY TasksAssumption DEF TypeOK, Event, Task, TasksAssumption
<1>2. /\ e.version \in 1..task[e.task].version
      /\ task[e.task].version <= task'[e.task].version
  BY <1>1 DEF EventTrue, Grows
<1>3. e.read \in 0..task[e.task].version /\ e.version \in 0..task[e.task].version
  BY <1>1, <1>2 DEF EventTrue
<1>4. /\ past'[e.task][e.read] = past[e.task][e.read]
      /\ past'[e.task][e.version] = past[e.task][e.version]
  BY <1>1, <1>3 DEF Grows
<1>5. e.version \in 1..task'[e.task].version
  BY <1>1, <1>2
<1> QED BY <1>4, <1>5 DEF EventTrue

\* What a waiting request relies on stays true, whatever the others do, as long as
\* nobody else creates the row it is about to create.
LEMMA FactKept ==
  ASSUME TypeOK, TypeOK', Grows, NEW w \in Request, RequestFact(w),
         w.pc = "insert" => task'[w.task].state = "NONE",
         w.pc = "insertProject" => project'[w.project] = "NONE"
  PROVE  RequestFact(w)'
<1>1. w.version \in Nat /\ w.read \in Nat
  BY TasksAssumption DEF Request, TasksAssumption
<1>2. ASSUME NEW t \in Tasks PROVE task[t].version \in Nat /\ task'[t].version \in Nat
  BY TasksAssumption DEF TypeOK, Task, TasksAssumption
<1>3. ASSUME w.pc = "write"
      PROVE  /\ w.task \in Tasks /\ task'[w.task].state # "NONE"
             /\ w.read <= task'[w.task].version /\ w.version < MaxVersion
             /\ w.kind # "none" /\ w.value \in Values(w.kind) /\ SeenTrue(w)'
  <2>1. /\ w.task \in Tasks /\ task[w.task].state # "NONE"
        /\ w.read <= task[w.task].version /\ w.version < MaxVersion
        /\ w.kind # "none" /\ w.value \in Values(w.kind) /\ SeenTrue(w)
    BY <1>3 DEF RequestFact
  <2>2. task[w.task].version <= task'[w.task].version /\ task'[w.task].state # "NONE"
    BY <2>1 DEF Grows
  <2>3. past'[w.task][w.read] = past[w.task][w.read]
    BY <1>1, <1>2, <2>1 DEF Grows
  <2>4. SeenTrue(w)'
    BY <2>1, <2>3 DEF SeenTrue
  <2> QED BY <1>1, <1>2, <2>1, <2>2, <2>4
<1>4. ASSUME w.pc = "report"
      PROVE  /\ w.task \in Tasks /\ task'[w.task].state # "NONE"
             /\ w.version < task'[w.task].version
             /\ w.kind \in {"status", "assign"} /\ w.read <= w.version /\ SeenTrue(w)'
             /\ w.kind = "status" => w.value = past'[w.task][w.version + 1].status
             /\ w.kind = "assign" => w.value = past'[w.task][w.version + 1].assignee
  <2>1. /\ w.task \in Tasks /\ task[w.task].state # "NONE" /\ w.version < task[w.task].version
        /\ w.kind \in {"status", "assign"} /\ w.read <= w.version /\ SeenTrue(w)
        /\ w.kind = "status" => w.value = past[w.task][w.version + 1].status
        /\ w.kind = "assign" => w.value = past[w.task][w.version + 1].assignee
    BY <1>4 DEF RequestFact
  <2>2. task[w.task].version <= task'[w.task].version /\ task'[w.task].state # "NONE"
    BY <2>1 DEF Grows
  <2>3. w.read \in 0..task[w.task].version /\ w.version + 1 \in 0..task[w.task].version
    BY <1>1, <1>2, <2>1
  <2>4. /\ past'[w.task][w.read] = past[w.task][w.read]
        /\ past'[w.task][w.version + 1] = past[w.task][w.version + 1]
    BY <2>1, <2>3 DEF Grows
  <2>5. SeenTrue(w)'
    BY <2>1, <2>4 DEF SeenTrue
  <2> QED BY <1>1, <1>2, <2>1, <2>2, <2>4, <2>5
<1> QED BY <1>3, <1>4 DEF RequestFact

-----------------------------------------------------------------------------
(* Requests that start. *)

LEMMA InitConsistent == Init => Consistent
<1> SUFFICES ASSUME Init PROVE Consistent
  OBVIOUS
<1>1. NoTask \in Task /\ NoRequest \in Request /\ NewContent \in Content
  BY TasksAssumption
  DEF TasksAssumption, NoTask, Task, NoRequest, Request, RequestPC, NewContent, Content, Value
<1>2. 0 \in 0..MaxVersion /\ 0 \in 0..MaxFaults
  BY TasksAssumption DEF TasksAssumption
<1>3. TypeOK
  BY <1>1, <1>2 DEF Init, TypeOK
<1>4. PastAgrees
  BY <1>2 DEF Init, PastAgrees, NoTask, NewContent
<1>5. EventsTrue /\ NoOrphan
  BY DEF Init, EventsTrue, NoOrphan, Live, NoTask
<1>6. RequestFacts /\ FreshIds
  BY DEF Init, RequestFacts, RequestFact, FreshIds, At, NoRequest
<1> QED BY <1>3, <1>4, <1>5, <1>6 DEF Consistent

\* The request r becomes w, and nothing else happens.
Begun(r, w) ==
  /\ w \in Request /\ RequestFact(w)
  /\ rq' = [rq EXCEPT ![r] = w]
  /\ w.pc = "insert" => \A q \in Requests : ~(At(q, "insert") /\ rq[q].task = w.task)
  /\ w.pc = "insertProject" =>
       \A q \in Requests : ~(At(q, "insertProject") /\ rq[q].project = w.project)
  /\ UNCHANGED <<project, task, members, past, events, faults>>

LEMMA BegunKeeps ==
  ASSUME Consistent, NEW r \in Requests, NEW w, Begun(r, w) PROVE Consistent'
<1> USE DEF Consistent
<1>1. /\ rq' \in [Requests -> Request] /\ rq'[r] = w
      /\ \A q \in Requests \ {r} : rq'[q] = rq[q]
  BY DEF TypeOK, Begun
<1>2. TypeOK'
  BY <1>1 DEF TypeOK, Begun
<1>3. PastAgrees' /\ NoOrphan'
  BY DEF PastAgrees, NoOrphan, Live, Exists, Begun
<1>4. EventsTrue'
  BY DEF EventsTrue, EventTrue, Begun
<1>5. ASSUME NEW x, RequestFact(x) PROVE RequestFact(x)'
  BY <1>5 DEF RequestFact, SeenTrue, Begun
<1>6. RequestFacts'
  BY <1>1, <1>5 DEF RequestFacts, Begun
<1>7. FreshIds'
  BY <1>1 DEF FreshIds, At, Begun
<1> QED BY <1>2, <1>3, <1>4, <1>6, <1>7

LEMMA StartWriteBegins ==
  ASSUME Consistent, NEW r \in Requests, NEW t \in Tasks,
         NEW kind \in {"fields", "status", "assign"}, NEW value \in Values(kind),
         NEW v \in 0..MaxVersion, StartWrite(r, t, kind, value, v)
  PROVE  \E w : Begun(r, w)
<1> DEFINE w == [pc |-> "write", task |-> t, project |-> None, version |-> v,
                 kind |-> kind, value |-> value, seen |-> Previous(t, kind),
                 read |-> task[t].version]
<1>1. task[t] \in Task /\ task[t].version \in 0..MaxVersion /\ v \in Nat /\ MaxVersion \in Nat
  BY TasksAssumption DEF Consistent, TypeOK, Task, TasksAssumption
<1>2. value \in Value
  BY DEF Values, Value
<1>3. Previous(t, kind) \in Value
  BY <1>1 DEF Previous, Value, Task
<1>4. w \in Request
  BY <1>1, <1>2, <1>3 DEF Request, RequestPC
<1>5. /\ task[t].state # "NONE" /\ v < MaxVersion
      /\ rq' = [rq EXCEPT ![r] = w]
      /\ UNCHANGED <<project, task, members, past, events, faults>>
  BY <1>1 DEF StartWrite, Live
<1>6. SeenTrue(w)
  <2>1. /\ task[t].status = past[t][task[t].version].status
        /\ task[t].assignee \in {past[t][task[t].version].assignee, None}
    BY DEF Consistent, PastAgrees
  <2> QED BY <2>1 DEF SeenTrue, Previous
<1>7. RequestFact(w)
  BY <1>1, <1>5, <1>6 DEF RequestFact
<1>8. Begun(r, w)
  BY <1>4, <1>5, <1>7 DEF Begun
<1> QED BY <1>8

LEMMA StartBegins ==
  ASSUME Consistent, NEW r \in Requests, Start(r) PROVE \E w : Begun(r, w)
<1> USE DEF Consistent
<1>0. NoRequest \in Request /\ Users \subseteq Value /\ None \in Value
  BY TasksAssumption DEF TasksAssumption, NoRequest, Request, RequestPC, Value
<1>1. ASSUME NEW p \in Projects, StartProject(r, p) PROVE \E w : Begun(r, w)
  <2> DEFINE w == [NoRequest EXCEPT !.pc = "insertProject", !.project = p, !.value = None]
  <2>1. w \in Request /\ w.pc = "insertProject" /\ w.project = p
    BY <1>0 DEF NoRequest, Request, RequestPC
  <2>2. RequestFact(w)
    BY <1>1, <2>1 DEF RequestFact, StartProject
  <2>3. Begun(r, w)
    BY <1>1, <2>1, <2>2 DEF Begun, StartProject, OnProject
  <2> QED BY <2>3
<1>2. ASSUME NEW p \in Projects, StartDeleteProject(r, p) PROVE \E w : Begun(r, w)
  <2> DEFINE w == [NoRequest EXCEPT !.pc = "deleteProject", !.project = p, !.value = None]
  <2>1. w \in Request /\ w.pc = "deleteProject" /\ w.project = p
    BY <1>0 DEF NoRequest, Request, RequestPC
  <2>2. RequestFact(w)
    BY <2>1 DEF RequestFact
  <2>3. Begun(r, w)
    BY <1>2, <2>1, <2>2 DEF Begun, StartDeleteProject, OnProject
  <2> QED BY <2>3
<1>3. ASSUME NEW p \in Projects, NEW st \in {"ACTIVE", "ARCHIVED"}, StartSetStatus(r, p, st)
      PROVE  \E w : Begun(r, w)
  <2> DEFINE pc == IF st = "ACTIVE" THEN "activate" ELSE "archive"
             w == [NoRequest EXCEPT !.pc = pc, !.project = p, !.value = None]
  <2>0. pc \in {"activate", "archive"}
    OBVIOUS
  <2>1. w \in Request /\ w.pc = pc /\ w.project = p
    BY <1>0, <2>0 DEF NoRequest, Request, RequestPC
  <2>2. RequestFact(w)
    BY <2>0, <2>1 DEF RequestFact
  <2>3. Begun(r, w)
    BY <1>3, <2>0, <2>1, <2>2 DEF Begun, StartSetStatus, OnProject
  <2> QED BY <2>3
<1>4. ASSUME NEW p \in Projects, NEW t \in Tasks, StartCreate(r, p, t) PROVE \E w : Begun(r, w)
  <2> DEFINE w == [NoRequest EXCEPT !.pc = "insert", !.task = t, !.project = p]
  <2>1. w \in Request /\ w.pc = "insert" /\ w.project = p /\ w.task = t
    BY <1>0 DEF NoRequest, Request, RequestPC
  <2>2. RequestFact(w)
    BY <1>4, <2>1 DEF RequestFact, StartCreate
  <2>3. Begun(r, w)
    BY <1>4, <2>1, <2>2 DEF Begun, StartCreate
  <2> QED BY <2>3
<1>5. ASSUME NEW t \in Tasks, StartDelete(r, t) PROVE \E w : Begun(r, w)
  <2> DEFINE w == [NoRequest EXCEPT !.pc = "delete", !.task = t]
  <2>1. w \in Request /\ w.pc = "delete" /\ w.task = t
    BY <1>0 DEF NoRequest, Request, RequestPC
  <2>2. RequestFact(w)
    BY <2>1 DEF RequestFact
  <2>3. Begun(r, w)
    BY <1>5, <2>1, <2>2 DEF Begun, StartDelete, OnTask
  <2> QED BY <2>3
<1>6. ASSUME NEW u \in Users, StartRemove(r, u) PROVE \E w : Begun(r, w)
  <2> DEFINE w == [NoRequest EXCEPT !.pc = "remove", !.value = u]
  <2>1. w \in Request /\ w.pc = "remove" /\ w.value = u
    BY <1>0 DEF NoRequest, Request, RequestPC
  <2>2. RequestFact(w)
    BY <2>1 DEF RequestFact
  <2>3. Begun(r, w)
    BY <1>6, <2>1, <2>2 DEF Begun, StartRemove
  <2> QED BY <2>3
<1>7. ASSUME NEW t \in Tasks, NEW kind \in {"fields", "status", "assign"},
             NEW value \in Values(kind), NEW v \in 0..MaxVersion,
             StartWrite(r, t, kind, value, v)
      PROVE  \E w : Begun(r, w)
  BY <1>7, StartWriteBegins
<1> QED BY <1>1, <1>2, <1>3, <1>4, <1>5, <1>6, <1>7 DEF Start

-----------------------------------------------------------------------------
(* Requests that go on. *)

\* The request r ends here, with at most a mild effect on tasks and true events.
Ends(r) ==
  /\ TypeOK' /\ Mild /\ NoOrphan' /\ Finish(r)
  /\ \A e \in events' : e \in events \/ EventTrue(e)'
  /\ \A q \in Requests \ {r} :
       /\ At(q, "insert") => task'[rq[q].task].state = "NONE"
       /\ At(q, "insertProject") => project'[rq[q].project] = "NONE"

LEMMA FinishTyped ==
  ASSUME TypeOK, NEW r \in Requests, Finish(r)
  PROVE  /\ rq' \in [Requests -> Request] /\ rq'[r] = NoRequest
         /\ \A q \in Requests \ {r} : rq'[q] = rq[q]
<1>1. NoRequest \in Request
  BY TasksAssumption DEF TasksAssumption, NoRequest, Request, RequestPC, Value
<1> QED BY <1>1 DEF TypeOK, Finish

\* The facts of the requests that the step of r leaves alone.
LEMMA OthersKept ==
  ASSUME Consistent, TypeOK', Grows, NEW r \in Requests,
         NEW q \in Requests \ {r}, rq'[q] = rq[q],
         At(q, "insert") => task'[rq[q].task].state = "NONE",
         At(q, "insertProject") => project'[rq[q].project] = "NONE"
  PROVE  RequestFact(rq[q])'
<1>1. rq[q] \in Request /\ RequestFact(rq[q])
  BY DEF Consistent, TypeOK, RequestFacts
<1>2. ASSUME NEW w, w = rq[q] PROVE RequestFact(w)'
  BY <1>1, <1>2, FactKept DEF Consistent, At
<1> QED BY <1>2

LEMMA EndsKeeps ==
  ASSUME Consistent, NEW r \in Requests, Ends(r) PROVE Consistent'
<1>1. TypeOK /\ TypeOK' /\ NoOrphan' /\ Finish(r) /\ Mild
  BY DEF Consistent, Ends
<1>2. Grows /\ PastAgrees'
  BY <1>1, MildGrows DEF Consistent
<1>3. EventsTrue'
  BY <1>1, <1>2, EventsKept DEF Consistent, EventsTrue, Ends
<1>4. /\ rq'[r] = NoRequest /\ \A q \in Requests \ {r} : rq'[q] = rq[q]
  BY <1>1, FinishTyped
<1>5. RequestFacts'
  <2>1. RequestFact(rq[r])'
    BY <1>4 DEF RequestFact, NoRequest
  <2>2. ASSUME NEW q \in Requests \ {r} PROVE RequestFact(rq[q])'
    BY <1>1, <1>2, <1>4, OthersKept DEF Ends
  <2> QED BY <2>1, <2>2 DEF RequestFacts
<1>6. FreshIds'
  BY <1>4 DEF Consistent, FreshIds, At, NoRequest
<1> QED BY <1>1, <1>2, <1>3, <1>5, <1>6 DEF Consistent

\* A request that waits to create a row still finds none.
LEMMA RowsAwaited ==
  ASSUME Consistent, NEW q \in Requests
  PROVE  /\ At(q, "insert") => rq[q].task \in Tasks /\ task[rq[q].task].state = "NONE"
         /\ At(q, "insertProject") =>
              rq[q].project \in Projects /\ project[rq[q].project] = "NONE"
  BY DEF Consistent, RequestFacts, RequestFact, At

LEMMA ReportEnds ==
  ASSUME Consistent, NEW r \in Requests, Report(r) PROVE Ends(r)
<1> DEFINE w == rq[r]
           e == [task |-> w.task, version |-> w.version + 1, kind |-> w.kind,
                 from |-> w.seen, to |-> w.value, read |-> w.read]
<1>0. TypeOK /\ Finish(r) /\ At(r, "report")
      /\ UNCHANGED <<project, task, members, past, faults>>
  BY DEF Report, Consistent
<1>1. /\ w \in Request /\ w.task \in Tasks /\ w.version < task[w.task].version
      /\ w.kind \in {"status", "assign"} /\ w.read <= w.version /\ SeenTrue(w)
      /\ w.kind = "status" => w.value = past[w.task][w.version + 1].status
      /\ w.kind = "assign" => w.value = past[w.task][w.version + 1].assignee
  BY <1>0 DEF TypeOK, Consistent, RequestFacts, RequestFact, At
<1>2. w.version \in Nat /\ task[w.task].version \in 0..MaxVersion /\ MaxVersion \in Nat
  BY <1>0, <1>1, TasksAssumption DEF TasksAssumption, Request, TypeOK, Task
<1>3. e \in Event
  BY <1>1, <1>2 DEF Event, Request
<1>4. EventTrue(e)
  <2>1. e.version \in 1..task[e.task].version /\ e.version - 1 = w.version
    BY <1>1, <1>2
  <2> QED BY <1>1, <2>1 DEF EventTrue, SeenTrue
<1>5. events' = events \/ events' = events \cup {e}
  BY DEF Report
<1>6. TypeOK'
  BY <1>0, <1>3, <1>5, FinishTyped DEF TypeOK
<1>7. \A f \in events' : f \in events \/ EventTrue(f)'
  <2> SUFFICES ASSUME NEW f \in events', f \notin events PROVE EventTrue(f)'
    OBVIOUS
  <2>1. f = e
    BY <1>5
  <2> QED BY <1>0, <1>4, <2>1 DEF EventTrue
<1>8. Mild
  BY <1>0 DEF Mild
<1>9. NoOrphan'
  BY <1>0 DEF Consistent, NoOrphan, Live, Exists
<1> HIDE DEF e
<1> QED BY <1>0, <1>6, <1>7, <1>8, <1>9, RowsAwaited DEF Ends

\* The part of Ends about events, for a step that emits none.
LEMMA NoEvents ==
  ASSUME events' = events PROVE \A e \in events' : e \in events \/ EventTrue(e)'
  OBVIOUS

LEMMA InsertEnds ==
  ASSUME Consistent, NEW r \in Requests, Insert(r) PROVE Ends(r)
<1> DEFINE t == rq[r].task
           new == [NoTask EXCEPT !.state = "LIVE", !.project = rq[r].project]
<1>0. TypeOK /\ Finish(r) /\ At(r, "insert")
      /\ UNCHANGED <<project, members, past, events, faults>>
  BY DEF Insert, Consistent
<1>1. t \in Tasks /\ task[t].state = "NONE" /\ rq[r].project \in Projects
  BY <1>0 DEF Consistent, RequestFacts, RequestFact, At
<1>2. /\ new \in Task /\ new.state = "LIVE" /\ new.project = rq[r].project
      /\ new.version = 0 /\ new.status = "TODO" /\ new.assignee = None
  <2>1. /\ new.state = "LIVE" /\ new.project = rq[r].project
        /\ new.version = 0 /\ new.status = "TODO" /\ new.assignee = None
    BY DEF NoTask
  <2>2. "TODO" \in Statuses /\ 0 \in 0..MaxVersion
    BY TasksAssumption DEF TasksAssumption
  <2>3. new \in Task
    BY <1>1, <2>2 DEF NoTask, Task
  <2> QED BY <2>1, <2>3
<1>3. task[t].version = 0 /\ task[t].status = "TODO" /\ task[t].assignee = None
  BY <1>1 DEF Consistent, PastAgrees, NewContent
<1>4. \/ task' = task
      \/ Exists(rq[r].project) /\ task' = [task EXCEPT ![t] = new]
  BY DEF Insert
<1> HIDE DEF new
<1>5. TypeOK'
  BY <1>0, <1>1, <1>2, <1>4, FinishTyped DEF TypeOK
<1>6. Mild
  BY <1>0, <1>1, <1>2, <1>3, <1>4 DEF Mild, TypeOK
<1>7. NoOrphan'
  BY <1>0, <1>1, <1>2, <1>4 DEF Consistent, NoOrphan, Live, Exists, TypeOK
<1>8. ASSUME NEW q \in Requests \ {r}, At(q, "insert") PROVE task'[rq[q].task].state = "NONE"
  <2>1. rq[q].task # t /\ rq[q].task \in Tasks /\ task[rq[q].task].state = "NONE"
    BY <1>0, <1>8, RowsAwaited DEF Consistent, FreshIds
  <2> QED BY <1>0, <1>1, <1>4, <2>1 DEF TypeOK
<1>9. ASSUME NEW q \in Requests, At(q, "insertProject")
      PROVE  project'[rq[q].project] = "NONE"
  BY <1>0, <1>9, RowsAwaited
<1> QED BY <1>0, <1>5, <1>6, <1>7, <1>8, <1>9, NoEvents DEF Ends

\* Rows may go, and the assignee with a member.
LEMMA DeleteEnds ==
  ASSUME Consistent, NEW r \in Requests, Delete(r) PROVE Ends(r)
<1> DEFINE t == rq[r].task
           gone == [task[t] EXCEPT !.state = "GONE"]
<1>0. TypeOK /\ Finish(r) /\ At(r, "delete")
      /\ UNCHANGED <<project, members, past, events, faults>>
  BY DEF Delete, Consistent
<1>1. t \in Tasks /\ task[t] \in Task
  BY <1>0 DEF Consistent, RequestFacts, RequestFact, At, TypeOK
<1>2. /\ gone \in Task /\ gone.state = "GONE" /\ gone.version = task[t].version
      /\ gone.status = task[t].status /\ gone.assignee = task[t].assignee
  BY <1>1 DEF Task
<1>3. task' = task \/ (Live(t) /\ task' = [task EXCEPT ![t] = gone])
  BY DEF Delete
<1> HIDE DEF gone
<1>4. TypeOK'
  BY <1>0, <1>1, <1>2, <1>3, FinishTyped DEF TypeOK
<1>5. Mild
  BY <1>0, <1>1, <1>2, <1>3 DEF Mild, TypeOK, Live
<1>6. NoOrphan'
  BY <1>0, <1>1, <1>2, <1>3 DEF Consistent, NoOrphan, Live, Exists, TypeOK
<1>7. ASSUME NEW q \in Requests, At(q, "insert") PROVE task'[rq[q].task].state = "NONE"
  BY <1>0, <1>1, <1>3, <1>7, RowsAwaited DEF TypeOK, Live
<1>8. ASSUME NEW q \in Requests, At(q, "insertProject")
      PROVE  project'[rq[q].project] = "NONE"
  BY <1>0, <1>8, RowsAwaited
<1> QED BY <1>0, <1>4, <1>5, <1>6, <1>7, <1>8, NoEvents DEF Ends

\* Steps that write a project only.
LEMMA ProjectEnds ==
  ASSUME Consistent, NEW r \in Requests, InsertProject(r) \/ SetStatus(r) PROVE Ends(r)
<1> DEFINE p == rq[r].project
<1>0. /\ TypeOK /\ Finish(r) /\ rq[r].pc \in {"insertProject", "activate", "archive"}
      /\ UNCHANGED <<task, members, past, events, faults>>
  BY DEF InsertProject, SetStatus, Consistent, At
<1>1. p \in Projects /\ project[p] \in {"NONE", "ACTIVE", "ARCHIVED", "DELETED"}
  BY <1>0 DEF Consistent, RequestFacts, RequestFact, TypeOK
<1>2. \E st \in {"ACTIVE", "ARCHIVED"} :
        \/ At(r, "insertProject") /\ project' = [project EXCEPT ![p] = st]
        \/ Exists(p) /\ project' = [project EXCEPT ![p] = st]
        \/ project' = project
  BY DEF InsertProject, SetStatus
<1>3. TypeOK'
  BY <1>0, <1>1, <1>2, FinishTyped DEF TypeOK
<1>4. Mild
  BY <1>0 DEF Mild
<1>5. NoOrphan'
  BY <1>0, <1>1, <1>2 DEF Consistent, NoOrphan, Live, Exists, TypeOK
<1>6. ASSUME NEW q \in Requests \ {r}, At(q, "insertProject")
      PROVE  project'[rq[q].project] = "NONE"
  <2>1. rq[q].project \in Projects /\ project[rq[q].project] = "NONE"
    BY <1>6, RowsAwaited
  <2>2. At(r, "insertProject") => rq[q].project # p
    BY <1>6 DEF Consistent, FreshIds
  <2>3. Exists(p) => rq[q].project # p
    BY <2>1 DEF Exists
  <2> QED BY <1>0, <1>1, <1>2, <2>1, <2>2, <2>3 DEF TypeOK
<1>7. ASSUME NEW q \in Requests, At(q, "insert") PROVE task'[rq[q].task].state = "NONE"
  BY <1>0, <1>7, RowsAwaited
<1> QED BY <1>0, <1>3, <1>4, <1>5, <1>6, <1>7, NoEvents DEF Ends

LEMMA DeleteProjectEnds ==
  ASSUME Consistent, NEW r \in Requests, DeleteProject(r) PROVE Ends(r)
<1> DEFINE p == rq[r].project
<1>0. TypeOK /\ Finish(r) /\ At(r, "deleteProject")
      /\ UNCHANGED <<members, past, events, faults>>
  BY DEF DeleteProject, Consistent
<1>1. p \in Projects /\ project[p] \in {"NONE", "ACTIVE", "ARCHIVED", "DELETED"}
  BY <1>0 DEF Consistent, RequestFacts, RequestFact, TypeOK, At
<1>2. ASSUME NEW t \in Tasks
      PROVE  LET gone == [task[t] EXCEPT !.state = "GONE"] IN
             /\ gone \in Task /\ gone.state = "GONE" /\ gone.version = task[t].version
             /\ gone.status = task[t].status /\ gone.assignee = task[t].assignee
  BY <1>0 DEF TypeOK, Task
<1>3. \/ project' = project /\ task' = task
      \/ /\ Exists(p) /\ project' = [project EXCEPT ![p] = "DELETED"]
         /\ task' = [t \in Tasks |-> IF Live(t) /\ task[t].project = p
                                       THEN [task[t] EXCEPT !.state = "GONE"] ELSE task[t]]
  BY DEF DeleteProject
<1>4. /\ task' \in [Tasks -> Task]
      /\ \A t \in Tasks :
           \/ task'[t] = task[t] /\ (Live(t) => task[t].project # p \/ project' = project)
           \/ Live(t) /\ task'[t] = [task[t] EXCEPT !.state = "GONE"]
  <2>1. task \in [Tasks -> Task]
    BY <1>0 DEF TypeOK
  <2>2. CASE project' = project /\ task' = task
    BY <2>1, <2>2
  <2>3. CASE task' = [t \in Tasks |-> IF Live(t) /\ task[t].project = p
                                       THEN [task[t] EXCEPT !.state = "GONE"] ELSE task[t]]
    <3>1. ASSUME NEW t \in Tasks
          PROVE  /\ task[t] \in Task /\ [task[t] EXCEPT !.state = "GONE"] \in Task
                 /\ task'[t] = IF Live(t) /\ task[t].project = p
                                 THEN [task[t] EXCEPT !.state = "GONE"] ELSE task[t]
      BY <1>2, <2>1, <2>3
    <3>2. task' \in [Tasks -> Task]
      BY <2>3, <3>1
    <3> QED BY <3>1, <3>2
  <2> QED BY <1>3, <2>2, <2>3
<1>5. TypeOK'
  <2>1. project \in [Projects -> {"NONE", "ACTIVE", "ARCHIVED", "DELETED"}]
    BY <1>0 DEF TypeOK
  <2>2. project' = project \/ project' = [project EXCEPT ![p] = "DELETED"]
    BY <1>3
  <2>3. project' \in [Projects -> {"NONE", "ACTIVE", "ARCHIVED", "DELETED"}]
    BY <2>1, <2>2
  <2> QED BY <1>0, <1>4, <2>3, FinishTyped DEF TypeOK
<1>6. Mild
  BY <1>0, <1>2, <1>4 DEF Mild, Live
<1>7. NoOrphan'
  <2> SUFFICES ASSUME NEW t \in Tasks, task'[t].state = "LIVE"
               PROVE  /\ task'[t].project \in Projects
                      /\ project'[task'[t].project] \in {"ACTIVE", "ARCHIVED"}
    BY DEF NoOrphan, Live, Exists
  <2>1. task'[t] = task[t]
    BY <1>2, <1>4
  <2>2. Live(t) /\ (task[t].project # p \/ project' = project)
    BY <1>2, <1>4, <2>1 DEF Live
  <2>3. task[t].project \in Projects /\ project[task[t].project] \in {"ACTIVE", "ARCHIVED"}
    BY <2>2 DEF Consistent, NoOrphan, Exists
  <2> QED BY <1>0, <1>1, <1>3, <2>1, <2>2, <2>3 DEF TypeOK
<1>8. ASSUME NEW q \in Requests, At(q, "insert") PROVE task'[rq[q].task].state = "NONE"
  BY <1>4, <1>8, RowsAwaited DEF Live
<1>9. ASSUME NEW q \in Requests, At(q, "insertProject")
      PROVE  project'[rq[q].project] = "NONE"
  <2>1. rq[q].project \in Projects /\ project[rq[q].project] = "NONE"
    BY <1>9, RowsAwaited
  <2> QED BY <1>0, <1>1, <1>3, <2>1 DEF TypeOK, Exists
<1> QED BY <1>0, <1>5, <1>6, <1>7, <1>8, <1>9, NoEvents DEF Ends

LEMMA RemoveEnds ==
  ASSUME Consistent, NEW r \in Requests, Remove(r) PROVE Ends(r)
<1> DEFINE u == rq[r].value
<1>0. TypeOK /\ Finish(r) /\ At(r, "remove") /\ members' = members \ {u}
      /\ UNCHANGED <<project, past, events, faults>>
  BY DEF Remove, Consistent
<1>1. ASSUME NEW t \in Tasks
      PROVE  LET free == [task[t] EXCEPT !.assignee = None] IN
             /\ free \in Task /\ free.state = task[t].state /\ free.version = task[t].version
             /\ free.status = task[t].status /\ free.assignee = None
             /\ free.project = task[t].project
  BY <1>0 DEF TypeOK, Task
<1>2. /\ task' \in [Tasks -> Task]
      /\ \A t \in Tasks : task'[t] = task[t] \/ task'[t] = [task[t] EXCEPT !.assignee = None]
  BY <1>0, <1>1 DEF Remove, TypeOK
<1>3. TypeOK'
  BY <1>0, <1>2, FinishTyped DEF TypeOK
<1>4. Mild
  BY <1>0, <1>1, <1>2 DEF Mild
<1>5. NoOrphan'
  <2>1. \A t \in Tasks : task'[t].state = task[t].state /\ task'[t].project = task[t].project
    BY <1>1, <1>2
  <2> QED BY <1>0, <2>1 DEF Consistent, NoOrphan, Live, Exists
<1>6. ASSUME NEW q \in Requests, At(q, "insert") PROVE task'[rq[q].task].state = "NONE"
  <2>1. rq[q].task \in Tasks /\ task[rq[q].task].state = "NONE"
    BY <1>6, RowsAwaited
  <2> QED BY <1>1, <1>2, <2>1
<1>7. ASSUME NEW q \in Requests, At(q, "insertProject")
      PROVE  project'[rq[q].project] = "NONE"
  BY <1>0, <1>7, RowsAwaited
<1> QED BY <1>0, <1>3, <1>4, <1>5, <1>6, <1>7, NoEvents DEF Ends

-----------------------------------------------------------------------------
(* The versioned write. *)

\* What updateWithVersionCheck makes of the row, and of the history.
LEMMA WriteRow ==
  ASSUME Consistent, NEW r \in Requests, At(r, "write"), Matches(rq[r])
  PROVE  /\ rq[r] \in Request /\ rq[r].task \in Tasks
         /\ rq[r].kind \in {"fields", "status", "assign"}
         /\ rq[r].version \in Nat /\ rq[r].version + 1 \in 0..MaxVersion
         /\ task[rq[r].task].version = rq[r].version
         /\ rq[r].read <= rq[r].version
         /\ task[rq[r].task] \in Task /\ SeenTrue(rq[r])
         /\ Written(rq[r]) \in Task
         /\ Written(rq[r]).version = rq[r].version + 1
         /\ Written(rq[r]).state = "LIVE"
         /\ Written(rq[r]).project = task[rq[r].task].project
         /\ rq[r].kind = "status" => Written(rq[r]).status = rq[r].value
         /\ rq[r].kind = "assign" => Written(rq[r]).assignee = rq[r].value
<1> DEFINE w == rq[r]
           t == task[w.task]
<1>1. w \in Request /\ RequestFact(w) /\ w.pc = "write"
  BY DEF Consistent, TypeOK, RequestFacts, At
<1>2. /\ w.task \in Tasks /\ w.version < MaxVersion
      /\ w.kind # "none" /\ w.value \in Values(w.kind)
      /\ w.read <= t.version /\ SeenTrue(w)
  BY <1>1 DEF RequestFact
<1>3. t \in Task /\ t.state = "LIVE" /\ t.version = w.version
  BY <1>2 DEF Consistent, TypeOK, Matches, Live
<1>4. w.kind \in {"fields", "status", "assign"} /\ w.version \in 0..MaxVersion
  BY <1>1, <1>2 DEF Request
<1>5. w.version \in Nat /\ w.version + 1 \in 0..MaxVersion
  BY <1>2, <1>4, TasksAssumption DEF TasksAssumption
<1>6. /\ w.kind = "status" => w.value \in Statuses
      /\ w.kind = "assign" => w.value \in Users
  BY <1>2 DEF Values
<1> DEFINE st0 == IF w.kind = "status" THEN w.value ELSE t.status
           u0 == IF w.kind = "assign" THEN w.value ELSE t.assignee
           v0 == t.version + 1
           row == [t EXCEPT !.status = st0, !.assignee = u0, !.version = v0]
<1>7. st0 \in Statuses /\ u0 \in Users \cup {None} /\ v0 \in 0..MaxVersion
  BY <1>3, <1>5, <1>6 DEF Task
<1>8. Written(w) = row
  BY DEF Written
<1>9. /\ row \in Task /\ row.version = v0 /\ row.status = st0 /\ row.assignee = u0
      /\ row.state = t.state /\ row.project = t.project
  <2> HIDE DEF st0, u0, v0
  <2> QED BY <1>3, <1>7 DEF Task
<1>10. v0 = w.version + 1
  BY <1>3
<1> HIDE DEF row
<1> QED BY <1>1, <1>2, <1>3, <1>4, <1>5, <1>8, <1>9, <1>10

LEMMA WriteKeeps ==
  ASSUME Consistent, NEW r \in Requests, Write(r) PROVE Consistent'
<1> DEFINE w == rq[r]
           new == Written(w)
           content == [status |-> new.status, assignee |-> new.assignee]
<1>0. TypeOK /\ At(r, "write") /\ UNCHANGED <<project, members, events, faults>>
  BY DEF Write, Consistent
<1>1. CASE ~Matches(w)
  <2>1. Finish(r) /\ UNCHANGED <<task, past>>
    BY <1>1 DEF Write
  <2>2. TypeOK'
    BY <1>0, <2>1, FinishTyped DEF TypeOK
  <2>3. Mild
    BY <2>1 DEF Mild
  <2>4. NoOrphan'
    BY <1>0, <2>1 DEF Consistent, NoOrphan, Live, Exists
  <2>5. Ends(r)
    BY <1>0, <2>1, <2>2, <2>3, <2>4, RowsAwaited, NoEvents DEF Ends
  <2> QED BY <2>5, EndsKeeps
<1>2. CASE Matches(w)
  <2>1. /\ task' = [task EXCEPT ![w.task] = new]
        /\ past' = [past EXCEPT ![w.task] = [past[w.task] EXCEPT ![new.version] = content]]
        /\ rq' = IF w.kind = "fields" THEN [rq EXCEPT ![r] = NoRequest]
                                      ELSE [rq EXCEPT ![r].pc = "report"]
    BY <1>2 DEF Write, Finish
  <2>2. /\ w \in Request /\ w.task \in Tasks /\ w.kind \in {"fields", "status", "assign"}
        /\ w.version \in Nat /\ w.version + 1 \in 0..MaxVersion
        /\ task[w.task].version = w.version /\ task[w.task] \in Task
        /\ w.read \in Nat /\ w.read <= w.version /\ SeenTrue(w)
        /\ new \in Task /\ new.version = w.version + 1 /\ new.state = "LIVE"
        /\ new.project = task[w.task].project
        /\ w.kind = "status" => new.status = w.value
        /\ w.kind = "assign" => new.assignee = w.value
    BY <1>0, <1>2, WriteRow, TasksAssumption DEF TasksAssumption, Request
  <2>3. content \in Content /\ content.status = new.status /\ content.assignee = new.assignee
    BY <2>2 DEF Content, Task
  <2> HIDE DEF new, content
  <2>4. /\ task' \in [Tasks -> Task] /\ task'[w.task] = new
        /\ \A t \in Tasks \ {w.task} : task'[t] = task[t]
    BY <1>0, <2>1, <2>2 DEF TypeOK
  <2>5. /\ past' \in [Tasks -> [0..MaxVersion -> Content]]
        /\ past'[w.task][w.version + 1] = content
        /\ \A v \in 0..MaxVersion : v # w.version + 1 => past'[w.task][v] = past[w.task][v]
        /\ \A t \in Tasks \ {w.task} : past'[t] = past[t]
    BY <1>0, <2>1, <2>2, <2>3 DEF TypeOK
  <2>6. Grows
    <3> SUFFICES ASSUME NEW t \in Tasks
                 PROVE  /\ task[t].version <= task'[t].version
                        /\ task[t].state # "NONE" => task'[t].state # "NONE"
                        /\ \A v \in 0..task[t].version : past'[t][v] = past[t][v]
      BY DEF Grows
    <3>1. task[t].version \in 0..MaxVersion /\ MaxVersion \in Nat
      BY <1>0, TasksAssumption DEF TypeOK, Task, TasksAssumption
    <3>2. CASE t = w.task
      BY <2>2, <2>4, <2>5, <3>1, <3>2
    <3>3. CASE t # w.task
      BY <2>4, <2>5, <3>1, <3>3
    <3> QED BY <3>2, <3>3
  <2>7. /\ rq' \in [Requests -> Request]
        /\ rq'[r] = NoRequest \/ rq'[r] = [w EXCEPT !.pc = "report"]
        /\ w.kind = "fields" => rq'[r] = NoRequest
        /\ \A q \in Requests \ {r} : rq'[q] = rq[q]
    <3>1. NoRequest \in Request /\ [w EXCEPT !.pc = "report"] \in Request
      BY <2>2, TasksAssumption DEF TasksAssumption, NoRequest, Request, RequestPC, Value
    <3> QED BY <1>0, <2>1, <3>1 DEF TypeOK
  <2>8. TypeOK'
    BY <1>0, <2>4, <2>5, <2>7 DEF TypeOK
  <2>9. PastAgrees'
    BY <2>2, <2>3, <2>4, <2>5 DEF Consistent, PastAgrees
  <2>10. EventsTrue'
    BY <1>0, <2>6, <2>8, EventsKept DEF Consistent, EventsTrue
  <2>11. NoOrphan'
    BY <1>0, <1>2, <2>2, <2>4 DEF Consistent, NoOrphan, Live, Exists, Matches
  <2>12. RequestFacts'
    <3>1. ASSUME NEW q \in Requests \ {r} PROVE RequestFact(rq[q])'
      <4>1. At(q, "insert") => task'[rq[q].task].state = "NONE"
        BY <1>2, <2>4, RowsAwaited DEF Matches, Live
      <4>2. At(q, "insertProject") => project'[rq[q].project] = "NONE"
        BY <1>0, RowsAwaited
      <4> QED BY <2>6, <2>7, <2>8, <4>1, <4>2, OthersKept
    <3>2. ASSUME rq'[r] = NoRequest PROVE RequestFact(rq[r])'
      BY <3>2 DEF RequestFact, NoRequest
    <3>3. ASSUME rq'[r] = [w EXCEPT !.pc = "report"] PROVE RequestFact(rq[r])'
      <4>1. /\ rq'[r].pc = "report" /\ rq'[r].task = w.task /\ rq'[r].version = w.version
            /\ rq'[r].kind = w.kind /\ rq'[r].value = w.value /\ rq'[r].seen = w.seen
            /\ rq'[r].read = w.read
        BY <2>2, <3>3 DEF Request
      <4>2. w.kind \in {"status", "assign"}
        BY <2>2, <2>7, <4>1 DEF NoRequest
      <4>3. past'[w.task][w.read] = past[w.task][w.read]
        BY <2>2, <2>6 DEF Grows
      <4>4. SeenTrue(rq[r])'
        BY <2>2, <4>1, <4>3 DEF SeenTrue
      <4>5. task'[w.task].state # "NONE" /\ w.version < task'[w.task].version
        BY <2>2, <2>4
      <4>6. /\ w.kind = "status" => w.value = past'[w.task][w.version + 1].status
            /\ w.kind = "assign" => w.value = past'[w.task][w.version + 1].assignee
        BY <2>2, <2>3, <2>5
      <4> QED BY <2>2, <4>1, <4>2, <4>4, <4>5, <4>6 DEF RequestFact
    <3>4. RequestFact(rq[r])'
      BY <2>7, <3>2, <3>3
    <3> QED BY <3>1, <3>4 DEF RequestFacts
  <2>13. FreshIds'
    <3>1. rq'[r].pc # "insert" /\ rq'[r].pc # "insertProject"
      BY <2>2, <2>7 DEF NoRequest, Request
    <3> QED BY <2>7, <3>1 DEF Consistent, FreshIds, At
  <2> QED BY <2>8, <2>9, <2>10, <2>11, <2>12, <2>13 DEF Consistent
<1> QED BY <1>1, <1>2

-----------------------------------------------------------------------------
(* The theorems. *)

LEMMA FaultKeeps ==
  ASSUME Consistent, NEW r \in Requests, Fault(r) PROVE Consistent'
<1>0. TypeOK /\ Finish(r) /\ UNCHANGED <<project, task, members, past, events>>
  BY DEF Fault, Consistent
<1>1. faults' \in 0..MaxFaults
  BY <1>0, TasksAssumption DEF Fault, TypeOK, TasksAssumption
<1>2. TypeOK'
  BY <1>0, <1>1, FinishTyped DEF TypeOK
<1>3. Mild
  BY <1>0 DEF Mild
<1>4. NoOrphan'
  BY <1>0 DEF Consistent, NoOrphan, Live, Exists
<1>5. Ends(r)
  BY <1>0, <1>2, <1>3, <1>4, RowsAwaited, NoEvents DEF Ends
<1> QED BY <1>5, EndsKeeps

LEMMA CrashKeeps == Consistent /\ CrashServer => Consistent'
<1> SUFFICES ASSUME Consistent, CrashServer PROVE Consistent'
  OBVIOUS
<1>0. /\ rq' = [r \in Requests |-> NoRequest]
      /\ UNCHANGED <<project, task, members, past, events>>
  BY DEF CrashServer
<1>1. NoRequest \in Request /\ faults' \in 0..MaxFaults
  BY TasksAssumption
  DEF TasksAssumption, NoRequest, Request, RequestPC, Value, CrashServer, Consistent, TypeOK
<1>2. TypeOK'
  BY <1>0, <1>1 DEF Consistent, TypeOK
<1>3. PastAgrees' /\ NoOrphan'
  BY <1>0 DEF Consistent, PastAgrees, NoOrphan, Live, Exists
<1>4. EventsTrue'
  BY <1>0 DEF Consistent, EventsTrue, EventTrue
<1>5. RequestFacts' /\ FreshIds'
  BY <1>0 DEF RequestFacts, RequestFact, FreshIds, At, NoRequest
<1> QED BY <1>2, <1>3, <1>4, <1>5 DEF Consistent

\* A step that leaves everything but the members alone.
LEMMA MembersKeep ==
  ASSUME Consistent, members' \subseteq Users,
         UNCHANGED <<project, task, past, events, rq, faults>>
  PROVE  Consistent'
<1>1. TypeOK'
  BY DEF Consistent, TypeOK
<1>2. PastAgrees' /\ NoOrphan'
  BY DEF Consistent, PastAgrees, NoOrphan, Live, Exists
<1>3. EventsTrue'
  BY DEF Consistent, EventsTrue, EventTrue
<1>4. RequestFacts'
  <2>1. ASSUME NEW r \in Requests PROVE RequestFact(rq[r])'
    <3>1. RequestFact(rq[r])
      BY DEF Consistent, RequestFacts
    <3> QED BY <3>1 DEF RequestFact, SeenTrue
  <2> QED BY <2>1 DEF RequestFacts
<1>5. FreshIds'
  BY DEF Consistent, FreshIds, At
<1> QED BY <1>1, <1>2, <1>3, <1>4, <1>5 DEF Consistent

LEMMA StepConsistent == Consistent /\ [Next]_vars => Consistent'
<1> SUFFICES ASSUME Consistent, [Next]_vars PROVE Consistent'
  OBVIOUS
<1>1. ASSUME NEW r \in Requests, Start(r) PROVE Consistent'
  BY <1>1, StartBegins, BegunKeeps
<1>2. ASSUME NEW r \in Requests, Continue(r) PROVE Consistent'
  <2>1. CASE Write(r)
    BY <2>1, WriteKeeps
  <2>2. CASE ~Write(r)
    <3>1. Ends(r)
      BY <1>2, <2>2, ReportEnds, InsertEnds, DeleteEnds, ProjectEnds, DeleteProjectEnds,
         RemoveEnds DEF Continue
    <3> QED BY <3>1, EndsKeeps
  <2> QED BY <2>1, <2>2
<1>3. ASSUME NEW r \in Requests, Fault(r) PROVE Consistent'
  BY <1>3, FaultKeeps
<1>4. ASSUME NEW u \in Users, Join(u) PROVE Consistent'
  <2>1. members' \subseteq Users
    BY <1>4 DEF Join, Consistent, TypeOK
  <2> QED BY <1>4, <2>1, MembersKeep DEF Join
<1>5. CASE CrashServer
  BY <1>5, CrashKeeps
<1>6. CASE UNCHANGED vars
  <2>1. members' \subseteq Users
    BY <1>6 DEF vars, Consistent, TypeOK
  <2> QED BY <1>6, <2>1, MembersKeep DEF vars
<1> QED BY <1>1, <1>2, <1>3, <1>4, <1>5, <1>6 DEF Next

\* The inductive invariant of projects and tasks holds in every reachable state.
THEOREM TasksConsistent == Spec => []Consistent
  BY InitConsistent, StepConsistent, PTL DEF Spec

\* Whatever the order of reads, writes, removals and second reads, task.status_changed and
\* task.assigned name as the previous value the one that their write replaced, or, for a
\* client that named a version before it existed, that of the version that was read.
THEOREM EventsAlwaysTrue == Spec => []EventsTrue
<1>1. Consistent => EventsTrue
  BY DEF Consistent
<1> QED BY <1>1, TasksConsistent, PTL

\* createTask and deleteProject leave no task without its project.
THEOREM NeverOrphan == Spec => []NoOrphan
<1>1. Consistent => NoOrphan
  BY DEF Consistent
<1> QED BY <1>1, TasksConsistent, PTL

\* updateWithVersionCheck: a write goes through only over the content that the version
\* it names was written with, but for a removed assignee.
THEOREM NoUpdateLost == Spec => NoLostUpdate
<1> DEFINE Safe ==
      \A r \in Requests :
        At(r, "write") /\ ~At(r, "write")' /\ task'[rq[r].task] # task[rq[r].task] =>
          /\ task[rq[r].task].status = past[rq[r].task][rq[r].version].status
          /\ task[rq[r].task].assignee \in {past[rq[r].task][rq[r].version].assignee, None}
<1>1. Consistent /\ [Next]_vars => [Safe]_vars
  <2> SUFFICES ASSUME Consistent, Next, NEW r \in Requests, At(r, "write"), ~At(r, "write")',
                      task'[rq[r].task] # task[rq[r].task]
               PROVE  /\ task[rq[r].task].status = past[rq[r].task][rq[r].version].status
                      /\ task[rq[r].task].assignee
                           \in {past[rq[r].task][rq[r].version].assignee, None}
    BY DEF vars
  <2>1. TypeOK
    BY DEF Consistent
  <2>2. ~UNCHANGED task /\ rq'[r] # rq[r]
    BY DEF At
  <2>3. Write(r)
    <3>1. PICK q \in Requests : Start(q) \/ Continue(q) \/ Fault(q)
      BY <2>2 DEF Next, Join, CrashServer
    <3>2. Continue(q)
      BY <2>2, <3>1 DEF Start, Fault, StartProject, StartDeleteProject, StartSetStatus,
         StartCreate, StartDelete, StartWrite, StartRemove
    <3>3. q = r
      BY <2>1, <2>2, <3>2 DEF Continue, Write, Report, Insert, Delete, InsertProject,
         SetStatus, DeleteProject, Remove, Finish, TypeOK
    <3> QED BY <3>2, <3>3 DEF Continue, Report, Insert, Delete, InsertProject,
         SetStatus, DeleteProject, Remove, At
  <2>4. Matches(rq[r])
    BY <2>2, <2>3 DEF Write
  <2>5. rq[r].task \in Tasks /\ task[rq[r].task].version = rq[r].version
    BY <2>4, WriteRow
  <2> QED BY <2>5 DEF Consistent, PastAgrees
<1> QED BY <1>1, TasksConsistent, PTL DEF Spec, NoLostUpdate
=============================================================================

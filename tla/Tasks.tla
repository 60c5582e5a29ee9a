-------------------------------- MODULE Tasks --------------------------------
(***************************************************************************)
(* The projects and tasks of one workspace: the writing requests of        *)
(* task.service.ts and project.service.ts, and the removal of a member,    *)
(* which unassigns tasks (workspace.repository.ts).                        *)
(*                                                                         *)
(* A request is a process and each awaited call of it an action.  A task   *)
(* is written by updateWithVersionCheck, whose caller names a version of   *)
(* it.  A definition directly above the one it resembles is a deliberately *)
(* broken variant of it, which the properties are shown to reject.         *)
(***************************************************************************)
EXTENDS Naturals, FiniteSets

CONSTANTS
  Projects, Tasks,  \* ids that may come to exist; none is used twice
  Users,
  None,             \* no user, no task, no project
  Statuses,         \* the task statuses in use
  Requests,         \* requests the API process serves at once
  MaxProjects,      \* Workspace.maxProjects
  MaxVersion,       \* bound: versions of a task
  MaxFaults         \* bound: awaited calls that fail, and crashes of the API process

ASSUME TasksAssumption ==
  /\ None \notin Users \cup Tasks \cup Projects \cup Statuses
  /\ Statuses \subseteq {"TODO", "IN_PROGRESS", "IN_REVIEW", "DONE"} /\ "TODO" \in Statuses
  /\ MaxProjects \in Nat /\ MaxVersion \in Nat /\ MaxFaults \in Nat

VARIABLES
  project,   \* Project.status, by id; NONE before and DELETED after the row
  task,      \* table Task, by id; state tells whether there is a row
  members,   \* users with a WorkspaceMember row
  past,      \* history: the content each version of a task was written with
  events,    \* the task.status_changed and task.assigned events emitted
  rq,        \* the requests
  faults

vars == <<project, task, members, past, events, rq, faults>>

Content == [status: Statuses, assignee: Users \cup {None}]
NewContent == [status |-> "TODO", assignee |-> None]

NoTask == [state |-> "NONE", project |-> None, status |-> "TODO", assignee |-> None, version |-> 0]
NoRequest == [pc |-> "idle", task |-> None, project |-> None, version |-> 0, kind |-> "none",
              value |-> None, seen |-> None, read |-> 0]

Exists(p) == p \in Projects /\ project[p] \in {"ACTIVE", "ARCHIVED"}
Live(t) == task[t].state = "LIVE"

At(r, pc) == rq[r].pc = pc
Finish(r) == rq' = [rq EXCEPT ![r] = NoRequest]
OnTask(r, pc, t) == rq' = [rq EXCEPT ![r] = [NoRequest EXCEPT !.pc = pc, !.task = t]]
OnProject(r, pc, p, v) ==
  rq' = [rq EXCEPT ![r] = [NoRequest EXCEPT !.pc = pc, !.project = p, !.value = v]]

-----------------------------------------------------------------------------
(* updateTask, updateTaskStatus, assignTask. *)

\* What the request writes: other fields, a status or an assignee.
Values(kind) ==
  CASE kind = "fields" -> {None} [] kind = "status" -> Statuses [] kind = "assign" -> Users

\* What the response or the event later calls the previous value.
Previous(t, kind) ==
  CASE kind = "fields" -> None
    [] kind = "status" -> task[t].status
    [] kind = "assign" -> task[t].assignee

\* findTaskById.  The client may name any version, one that does not exist yet included:
\* nothing compares it with the version of the row that is read.  assignTask does not
\* await findMember, so that it refuses nobody.
StartWrite(r, t, kind, value, v) ==
  /\ At(r, "idle") /\ Live(t) /\ value \in Values(kind)
  /\ v < MaxVersion
  /\ rq' = [rq EXCEPT ![r] = [pc |-> "write", task |-> t, project |-> None, version |-> v,
                              kind |-> kind, value |-> value, seen |-> Previous(t, kind),
                              read |-> task[t].version]]
  /\ UNCHANGED <<project, task, members, past, events, faults>>

WrittenSameVersion(w) ==
  [task[w.task] EXCEPT !.status = IF w.kind = "status" THEN w.value ELSE @,
                       !.assignee = IF w.kind = "assign" THEN w.value ELSE @]
Written(w) ==
  [task[w.task] EXCEPT !.status = IF w.kind = "status" THEN w.value ELSE @,
                       !.assignee = IF w.kind = "assign" THEN w.value ELSE @,
                       !.version = @ + 1]

MatchesAnyVersion(w) == Live(w.task) /\ task[w.task].version < MaxVersion
\* The where clause of the updateMany.
Matches(w) == Live(w.task) /\ task[w.task].version = w.version

Write(r) ==
  LET w == rq[r] new == Written(w) IN
  /\ At(r, "write")
  /\ \/ /\ Matches(w)
        /\ task' = [task EXCEPT ![w.task] = new]
        /\ past' = [past EXCEPT ![w.task] =
             [@ EXCEPT ![new.version] = [status |-> new.status, assignee |-> new.assignee]]]
        /\ IF w.kind = "fields" THEN Finish(r) ELSE rq' = [rq EXCEPT ![r].pc = "report"]
     \/ ~Matches(w) /\ Finish(r) /\ UNCHANGED <<task, past>>
  /\ UNCHANGED <<project, members, events, faults>>

ReportLatest(r) ==
  LET w == rq[r] IN
  /\ At(r, "report")
  /\ events' = IF Live(w.task)
                 THEN events \cup {[task |-> w.task, version |-> w.version + 1, kind |-> w.kind,
                                    from |-> w.seen, to |-> Previous(w.task, w.kind), read |-> w.read]}
                 ELSE events
  /\ Finish(r)
  /\ UNCHANGED <<project, task, members, past, faults>>
ReportUnlessStale(r) ==
  LET w == rq[r] IN
  /\ At(r, "report")
  /\ events' = IF Live(w.task) /\ task[w.task].version = w.version + 1
                 THEN events \cup {[task |-> w.task, version |-> w.version + 1, kind |-> w.kind,
                                    from |-> w.seen, to |-> w.value, read |-> w.read]}
                 ELSE events
  /\ Finish(r)
  /\ UNCHANGED <<project, task, members, past, faults>>
\* The task is read again, and the event emitted if it is still there.
Report(r) ==
  LET w == rq[r] IN
  /\ At(r, "report")
  /\ events' = IF Live(w.task)
                 THEN events \cup {[task |-> w.task, version |-> w.version + 1, kind |-> w.kind,
                                    from |-> w.seen, to |-> w.value, read |-> w.read]}
                 ELSE events
  /\ Finish(r)
  /\ UNCHANGED <<project, task, members, past, faults>>

-----------------------------------------------------------------------------
(* createTask, deleteTask. *)

StartCreate(r, p, t) ==
  /\ At(r, "idle") /\ project[p] = "ACTIVE"
  /\ task[t].state = "NONE" /\ \A q \in Requests : ~(At(q, "insert") /\ rq[q].task = t)
  /\ rq' = [rq EXCEPT ![r] = [NoRequest EXCEPT !.pc = "insert", !.task = t, !.project = p]]
  /\ UNCHANGED <<project, task, members, past, events, faults>>

InsertUnchecked(r) ==
  LET t == rq[r].task IN
  /\ At(r, "insert")
  /\ task' = [task EXCEPT ![t] = [NoTask EXCEPT !.state = "LIVE", !.project = rq[r].project]]
  /\ Finish(r)
  /\ UNCHANGED <<project, members, past, events, faults>>
\* The foreign key refuses a task whose project is gone.
Insert(r) ==
  LET t == rq[r].task IN
  /\ At(r, "insert")
  /\ task' = IF Exists(rq[r].project)
               THEN [task EXCEPT ![t] = [NoTask EXCEPT !.state = "LIVE",
                                                       !.project = rq[r].project]]
               ELSE task
  /\ Finish(r)
  /\ UNCHANGED <<project, members, past, events, faults>>

StartDelete(r, t) ==
  /\ At(r, "idle") /\ Live(t)
  /\ OnTask(r, "delete", t)
  /\ UNCHANGED <<project, task, members, past, events, faults>>

Delete(r) ==
  LET t == rq[r].task IN
  /\ At(r, "delete")
  /\ task' = IF Live(t) THEN [task EXCEPT ![t].state = "GONE"] ELSE task
  /\ Finish(r)
  /\ UNCHANGED <<project, members, past, events, faults>>

-----------------------------------------------------------------------------
(* createProject, updateProject, deleteProject. *)

\* The projects are counted together with the read of the workspace.
StartProject(r, p) ==
  /\ At(r, "idle")
  /\ Cardinality({q \in Projects : Exists(q)}) < MaxProjects
  /\ project[p] = "NONE" /\ \A q \in Requests : ~(At(q, "insertProject") /\ rq[q].project = p)
  /\ OnProject(r, "insertProject", p, None)
  /\ UNCHANGED <<project, task, members, past, events, faults>>

InsertProject(r) ==
  /\ At(r, "insertProject")
  /\ project' = [project EXCEPT ![rq[r].project] = "ACTIVE"]
  /\ Finish(r)
  /\ UNCHANGED <<task, members, past, events, faults>>

StartSetStatus(r, p, st) ==
  /\ At(r, "idle") /\ Exists(p) /\ st # project[p]
  /\ OnProject(r, IF st = "ACTIVE" THEN "activate" ELSE "archive", p, None)
  /\ UNCHANGED <<project, task, members, past, events, faults>>

\* The update throws when the row is gone.
SetStatus(r) ==
  LET p == rq[r].project IN
  /\ rq[r].pc \in {"activate", "archive"}
  /\ project' = IF Exists(p)
                  THEN [project EXCEPT ![p] = IF At(r, "activate") THEN "ACTIVE" ELSE "ARCHIVED"]
                  ELSE project
  /\ Finish(r)
  /\ UNCHANGED <<task, members, past, events, faults>>

StartDeleteProject(r, p) ==
  /\ At(r, "idle") /\ project[p] = "ARCHIVED"
  /\ OnProject(r, "deleteProject", p, None)
  /\ UNCHANGED <<project, task, members, past, events, faults>>

\* The tasks go with their project.
DeleteProject(r) ==
  LET p == rq[r].project IN
  /\ At(r, "deleteProject")
  /\ IF Exists(p)
       THEN /\ project' = [project EXCEPT ![p] = "DELETED"]
            /\ task' = [t \in Tasks |-> IF Live(t) /\ task[t].project = p
                                          THEN [task[t] EXCEPT !.state = "GONE"] ELSE task[t]]
       ELSE UNCHANGED <<project, task>>
  /\ Finish(r)
  /\ UNCHANGED <<members, past, events, faults>>

-----------------------------------------------------------------------------
(* Members, failures, the whole system. *)

StartRemove(r, u) ==
  /\ At(r, "idle") /\ u \in members
  /\ rq' = [rq EXCEPT ![r] = [NoRequest EXCEPT !.pc = "remove", !.value = u]]
  /\ UNCHANGED <<project, task, members, past, events, faults>>

\* One transaction, which the delete of a missing member rolls back.  The tasks keep
\* their version.
Remove(r) ==
  LET u == rq[r].value IN
  /\ At(r, "remove")
  /\ task' = IF u \in members
               THEN [t \in Tasks |-> IF task[t].assignee = u
                                       THEN [task[t] EXCEPT !.assignee = None] ELSE task[t]]
               ELSE task
  /\ members' = members \ {u}
  /\ Finish(r)
  /\ UNCHANGED <<project, past, events, faults>>

\* acceptInvite, of which Membership tells more.
Join(u) ==
  /\ u \notin members
  /\ members' = members \cup {u}
  /\ UNCHANGED <<project, task, past, events, rq, faults>>

\* The request ends with an error.
Fault(r) ==
  /\ faults < MaxFaults /\ faults' = faults + 1
  /\ ~At(r, "idle") /\ Finish(r)
  /\ UNCHANGED <<project, task, members, past, events>>

CrashServer ==
  /\ faults < MaxFaults /\ faults' = faults + 1
  /\ \E r \in Requests : ~At(r, "idle")
  /\ rq' = [r \in Requests |-> NoRequest]
  /\ UNCHANGED <<project, task, members, past, events>>

Init ==
  /\ project = [p \in Projects |-> "NONE"]
  /\ task = [t \in Tasks |-> NoTask]
  /\ members = Users
  /\ past = [t \in Tasks |-> [v \in 0..MaxVersion |-> NewContent]]
  /\ events = {}
  /\ rq = [r \in Requests |-> NoRequest]
  /\ faults = 0

Continue(r) ==
  \/ Write(r) \/ Report(r) \/ Insert(r) \/ Delete(r)
  \/ InsertProject(r) \/ SetStatus(r) \/ DeleteProject(r) \/ Remove(r)

Start(r) ==
  \/ \E p \in Projects :
       \/ StartProject(r, p) \/ StartDeleteProject(r, p)
       \/ \E st \in {"ACTIVE", "ARCHIVED"} : StartSetStatus(r, p, st)
       \/ \E t \in Tasks : StartCreate(r, p, t)
  \/ \E t \in Tasks :
       \/ StartDelete(r, t)
       \/ \E kind \in {"fields", "status", "assign"} : \E value \in Values(kind) :
            \E v \in 0..MaxVersion : StartWrite(r, t, kind, value, v)
  \/ \E u \in Users : StartRemove(r, u)

Next ==
  \/ \E r \in Requests : Start(r) \/ Continue(r) \/ Fault(r)
  \/ \E u \in Users : Join(u)
  \/ CrashServer

Spec == Init /\ [][Next]_vars
\* A request that was started runs on.
FairSpec == Spec /\ \A r \in Requests : WF_vars(Continue(r))

-----------------------------------------------------------------------------
(* Properties. *)

Task ==
  [state: {"NONE", "LIVE", "GONE"}, project: Projects \cup {None}, status: Statuses,
   assignee: Users \cup {None}, version: 0..MaxVersion]
RequestPC ==
  {"idle", "write", "report", "insert", "delete", "insertProject", "activate", "archive",
   "deleteProject", "remove"}
Value == Statuses \cup Users \cup {None}
Request ==
  [pc: RequestPC, task: Tasks \cup {None}, project: Projects \cup {None},
   version: 0..MaxVersion, kind: {"none", "fields", "status", "assign"},
   value: Value, seen: Value, read: 0..MaxVersion]
Event ==
  [task: Tasks, version: 0..MaxVersion, kind: {"status", "assign"}, from: Value, to: Value,
   read: 0..MaxVersion]

TypeOK ==
  /\ project \in [Projects -> {"NONE", "ACTIVE", "ARCHIVED", "DELETED"}]
  /\ task \in [Tasks -> Task]
  /\ members \subseteq Users
  /\ past \in [Tasks -> [0..MaxVersion -> Content]]
  /\ events \subseteq Event
  /\ rq \in [Requests -> Request]
  /\ faults \in 0..MaxFaults

\* Optimistic locking: a write goes through only if the task still has the content
\* that goes with the version the client names, but for an assignee who has been
\* removed from the workspace since.
NoLostUpdate ==
  [][\A r \in Requests :
       At(r, "write") /\ ~At(r, "write")' /\ task'[rq[r].task] # task[rq[r].task] =>
         /\ task[rq[r].task].status = past[rq[r].task][rq[r].version].status
         /\ task[rq[r].task].assignee \in {past[rq[r].task][rq[r].version].assignee, None}]_vars

\* Every event tells the truth about one version of the task, although its previous value
\* was read before the write and reported after it, with other requests in between at both
\* places: the new value is what that version was written with, and the previous value is
\* that of an earlier version, the one the request read.  This is the very version that
\* was replaced, e.version - 1, unless the client named it before it existed: the version
\* named is e.version - 1, and it is never below the one that was read.
EventTrue(e) ==
  LET before == past[e.task][e.read] after == past[e.task][e.version] IN
  /\ e.version \in 1..task[e.task].version /\ e.read <= e.version - 1
  /\ e.kind = "status" => e.from = before.status /\ e.to = after.status
  /\ e.kind = "assign" => e.from \in {before.assignee, None} /\ e.to = after.assignee
EventsTrue == \A e \in events : EventTrue(e)

\* No task outlives its project, although createTask checks the project long before
\* it inserts the task and deleteProject may run in between.
NoOrphan == \A t \in Tasks : Live(t) => Exists(task[t].project)

\* Without faults, a change of status or assignee that was stored is reported, or the
\* task was deleted before its second read.
ChangesReported ==
  [](faults = 0) =>
    \A t \in Tasks, v \in 1..MaxVersion :
      (\E r \in Requests : At(r, "report") /\ rq[r].task = t /\ rq[r].version = v - 1) ~>
        (\E e \in events : e.task = t /\ e.version = v) \/ task[t].state = "GONE"

-----------------------------------------------------------------------------
(* What the steps rely on, as an inductive invariant. *)

\* The row is the content its version was written with, until a removal unassigns it.
PastAgrees ==
  \A t \in Tasks :
    /\ task[t].status = past[t][task[t].version].status
    /\ task[t].assignee \in {past[t][task[t].version].assignee, None}
    /\ task[t].state = "NONE" => task[t].version = 0 /\ past[t][0] = NewContent

\* What the request read is what that version of the task was written with.
SeenTrue(w) ==
  /\ w.kind = "status" => w.seen = past[w.task][w.read].status
  /\ w.kind = "assign" => w.seen \in {past[w.task][w.read].assignee, None}

RequestFact(w) ==
  /\ w.pc = "write" =>
       /\ w.task \in Tasks /\ task[w.task].state # "NONE"
       /\ w.read <= task[w.task].version /\ w.version < MaxVersion
       /\ w.kind # "none" /\ w.value \in Values(w.kind) /\ SeenTrue(w)
  /\ w.pc = "report" =>
       /\ w.task \in Tasks /\ task[w.task].state # "NONE" /\ w.version < task[w.task].version
       /\ w.kind \in {"status", "assign"} /\ w.read <= w.version /\ SeenTrue(w)
       /\ w.kind = "status" => w.value = past[w.task][w.version + 1].status
       /\ w.kind = "assign" => w.value = past[w.task][w.version + 1].assignee
  /\ w.pc = "insert" => w.task \in Tasks /\ task[w.task].state = "NONE" /\ w.project \in Projects
  /\ w.pc = "delete" => w.task \in Tasks
  /\ w.pc \in {"insertProject", "activate", "archive", "deleteProject"} => w.project \in Projects
  /\ w.pc = "insertProject" => project[w.project] = "NONE"
  /\ w.pc = "remove" => w.value \in Users
RequestFacts == \A r \in Requests : RequestFact(rq[r])

\* Ids are unique: two requests never create the same task or project.
FreshIds ==
  \A r, q \in Requests :
    /\ At(r, "insert") /\ At(q, "insert") /\ rq[r].task = rq[q].task => r = q
    /\ At(r, "insertProject") /\ At(q, "insertProject") /\ rq[r].project = rq[q].project => r = q

Consistent ==
  /\ TypeOK /\ PastAgrees /\ EventsTrue /\ NoOrphan /\ RequestFacts /\ FreshIds

=============================================================================

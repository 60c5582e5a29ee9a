----------------------------- MODULE Membership -----------------------------
(***************************************************************************)
(* The members and invites of one workspace: the requests that             *)
(* workspace.service.ts serves and the invite-expiry job of the worker     *)
(* process (job/processer/invite.ts).                                      *)
(*                                                                         *)
(* A person is an email.  A request is a process of which each awaited     *)
(* call is an action, and nothing but the unique keys of the tables keeps  *)
(* two requests apart.  The table WorkspaceInvite has one row per email    *)
(* (@@unique([workspaceId,email])), which no code deletes.  A definition   *)
(* directly above the one it resembles is a deliberately broken variant of *)
(* it, which the properties are shown to reject.                           *)
(***************************************************************************)
EXTENDS Naturals, FiniteSets

CONSTANTS
  Emails,
  Owner,          \* who created the workspace
  None,           \* no email
  Requests,       \* requests the API process serves at once
  MaxMembers,     \* Workspace.maxMembers
  Attempts,       \* attempts of an expiry job
  MaxFaults       \* bound: awaited calls that fail, and crashes of either process

ASSUME MembershipAssumption ==
  /\ Owner \in Emails /\ None \notin Emails
  /\ MaxMembers \in Nat /\ Attempts \in Nat \ {0}
  /\ MaxFaults \in Nat

VARIABLES
  users,     \* emails with a row in table User, which none ever leaves
  member,    \* WorkspaceMember.role, by email; NONE is no row
  invite,    \* table WorkspaceInvite, by email; has tells that expiryJobId is set
  late,      \* emails whose invite's expiresAt has passed
  early,     \* history: emails whose invite somebody began to accept while the createInvite
             \* that stored it was still under way
  job,       \* the expiry job of each email's invite: the attempts it has made, and
             \* whether it is the job that expiryJobId names
  claimed,   \* emails whose job holds the idempotency key of the invite worker
  rq,        \* the requests
  wk,        \* the invite worker, which runs one job at a time
  faults

tables == <<users, member, invite>>
queue == <<job, claimed, wk>>
vars == <<tables, late, early, queue, rq, faults>>

NoInvite == [status |-> "NONE", role |-> "MEMBER", has |-> FALSE]
NoJob == [state |-> "none", tries |-> 0, own |-> TRUE]
NoRequest == [pc |-> "idle", email |-> None, role |-> "MEMBER", full |-> FALSE, next |-> "idle"]
NoWork == [pc |-> "idle", email |-> None]

\* createInviteSchema and updateMemberRoleSchema refuse OWNER.
Grantable == {"ADMIN", "MEMBER"}

IsMember(e) == member[e] # "NONE"
Members == {e \in Emails : IsMember(e)}

At(r, pc) == rq[r].pc = pc
Goto(r, pc) == rq' = [rq EXCEPT ![r].pc = pc]
Finish(r) == rq' = [rq EXCEPT ![r] = NoRequest]
Begin(r, pc, e, role, full, next) ==
  rq' = [rq EXCEPT ![r] = [pc |-> pc, email |-> e, role |-> role, full |-> full, next |-> next]]

\* createInvite has stored the invite and has not ended.
Creating(r) == rq[r].pc \in {"schedule", "saveJob"}

-----------------------------------------------------------------------------
(* createInvite. *)

\* The count of members is read together with the workspace, before anything else.
StartInvite(r, e, role) ==
  /\ At(r, "idle") /\ role \in Grantable
  /\ Begin(r, "checkMember", e, role, Cardinality(Members) >= MaxMembers, "idle")
  /\ UNCHANGED <<tables, late, early, queue, faults>>

CheckMember(r) ==
  /\ At(r, "checkMember")
  /\ IF IsMember(rq[r].email) THEN Finish(r) ELSE Goto(r, "checkPending")
  /\ UNCHANGED <<tables, late, early, queue, faults>>

CheckPending(r) ==
  /\ At(r, "checkPending")
  /\ IF invite[rq[r].email].status = "PENDING" \/ rq[r].full
       THEN Finish(r) ELSE Goto(r, "createInvite")
  /\ UNCHANGED <<tables, late, early, queue, faults>>

CreateInviteReplacing(r) ==
  LET e == rq[r].email IN
  /\ At(r, "createInvite")
  /\ invite' = [invite EXCEPT ![e] = [status |-> "PENDING", role |-> rq[r].role, has |-> FALSE]]
  /\ Goto(r, "schedule")
  /\ UNCHANGED <<users, member, late, early, queue, faults>>
\* The row is unique per email, whatever its status.
CreateInvite(r) ==
  LET e == rq[r].email IN
  /\ At(r, "createInvite")
  /\ \/ /\ invite[e].status = "NONE"
        /\ invite' = [invite EXCEPT ![e] = [status |-> "PENDING", role |-> rq[r].role,
                                            has |-> FALSE]]
        /\ Goto(r, "schedule")
     \/ invite[e].status # "NONE" /\ Finish(r) /\ UNCHANGED invite
  /\ UNCHANGED <<users, member, late, early, queue, faults>>

Schedule(r) ==
  /\ At(r, "schedule")
  /\ job' = [job EXCEPT ![rq[r].email] = [NoJob EXCEPT !.state = "waiting"]]
  /\ Goto(r, "saveJob")
  /\ UNCHANGED <<tables, late, early, claimed, wk, faults>>

\* updateStatus(PENDING, jobId), then member.invited.  PENDING is written over whatever
\* has become of the invite since it was stored.
SaveJob(r) ==
  LET e == rq[r].email IN
  /\ At(r, "saveJob")
  /\ invite' = [invite EXCEPT ![e] = [@ EXCEPT !.status = "PENDING", !.has = TRUE]]
  /\ Finish(r)
  /\ UNCHANGED <<users, member, late, early, queue, faults>>

-----------------------------------------------------------------------------
(* revokeInvite, acceptInvite. *)

\* What both do with the expiry job that the invite they read names.
CancelThen(r, e, next) ==
  Begin(r, IF invite[e].has THEN "cancelJob" ELSE next, e, invite[e].role, FALSE, next)

StartRevoke(r, e) ==
  /\ At(r, "idle") /\ invite[e].status = "PENDING"
  /\ CancelThen(r, e, "revoke")
  /\ UNCHANGED <<tables, late, early, queue, faults>>

\* The token is in the mail, and in the list of invites (GET /:workspaceId/invites) as
\* soon as the row is stored.
StartAccept(r, e) ==
  /\ At(r, "idle") /\ invite[e].status = "PENDING" /\ e \notin late
  /\ CancelThen(r, e, "accept")
  /\ early' = IF \E q \in Requests : Creating(q) /\ rq[q].email = e THEN early \cup {e} ELSE early
  /\ UNCHANGED <<tables, late, queue, faults>>

\* job.remove() throws while a worker holds the job; the error is logged.  It does not
\* find a job that was replayed under another id.
CancelJob(r) ==
  LET e == rq[r].email IN
  /\ At(r, "cancelJob")
  /\ job' = IF job[e].state = "waiting" /\ job[e].own THEN [job EXCEPT ![e].state = "ended"] ELSE job
  /\ Goto(r, rq[r].next)
  /\ UNCHANGED <<tables, late, early, claimed, wk, faults>>

Revoke(r) ==
  /\ At(r, "revoke")
  /\ invite' = [invite EXCEPT ![rq[r].email].status = "REVOKED"]
  /\ Finish(r)
  /\ UNCHANGED <<users, member, late, early, queue, faults>>

AcceptKeepingStatus(r) ==
  /\ At(r, "accept")
  /\ Goto(r, "findUser")
  /\ UNCHANGED <<tables, late, early, queue, faults>>
Accept(r) ==
  /\ At(r, "accept")
  /\ invite' = [invite EXCEPT ![rq[r].email].status = "ACCEPTED"]
  /\ Goto(r, "findUser")
  /\ UNCHANGED <<users, member, late, early, queue, faults>>

FindUser(r) ==
  /\ At(r, "findUser")
  /\ Goto(r, IF rq[r].email \in users THEN "findMember" ELSE "createUser")
  /\ UNCHANGED <<tables, late, early, queue, faults>>

FindMember(r) ==
  /\ At(r, "findMember")
  /\ IF IsMember(rq[r].email) THEN Finish(r) ELSE Goto(r, "join")
  /\ UNCHANGED <<tables, late, early, queue, faults>>

\* User.email is unique.
CreateUser(r) ==
  LET e == rq[r].email IN
  /\ At(r, "createUser")
  /\ users' = users \cup {e}
  /\ IF e \in users THEN Finish(r) ELSE Goto(r, "join")
  /\ UNCHANGED <<member, invite, late, early, queue, faults>>

\* WorkspaceMember is unique per workspace and user.  The session that an existing
\* user is given afterwards is no part of this module.
Join(r) ==
  LET e == rq[r].email IN
  /\ At(r, "join")
  /\ member' = IF IsMember(e) THEN member ELSE [member EXCEPT ![e] = rq[r].role]
  /\ Finish(r)
  /\ UNCHANGED <<users, invite, late, early, queue, faults>>

-----------------------------------------------------------------------------
(* updateMemberRole, removeMember: requests of the owner. *)

StartChangeRole(r, e, role) ==
  /\ At(r, "idle") /\ role \in Grantable
  /\ e # Owner /\ IsMember(e) /\ member[e] # "OWNER"
  /\ Begin(r, "setRole", e, role, FALSE, "idle")
  /\ UNCHANGED <<tables, late, early, queue, faults>>

ChangeRole(r) ==
  LET e == rq[r].email IN
  /\ At(r, "setRole")
  /\ member' = IF IsMember(e) THEN [member EXCEPT ![e] = rq[r].role] ELSE member
  /\ Finish(r)
  /\ UNCHANGED <<users, invite, late, early, queue, faults>>

StartRemoveAnyone(r, e) ==
  /\ At(r, "idle") /\ IsMember(e)
  /\ Begin(r, "remove", e, "MEMBER", FALSE, "idle")
  /\ UNCHANGED <<tables, late, early, queue, faults>>
StartRemove(r, e) ==
  /\ At(r, "idle")
  /\ e # Owner /\ IsMember(e) /\ member[e] # "OWNER"
  /\ Begin(r, "remove", e, "MEMBER", FALSE, "idle")
  /\ UNCHANGED <<tables, late, early, queue, faults>>

Remove(r) ==
  /\ At(r, "remove")
  /\ member' = [member EXCEPT ![rq[r].email] = "NONE"]
  /\ Finish(r)
  /\ UNCHANGED <<users, invite, late, early, queue, faults>>

-----------------------------------------------------------------------------
(* The invite worker. *)

\* ensureIdempotency: an attempt that finds the key set ends the job.
StartExpiry(e) ==
  /\ wk.pc = "idle" /\ job[e].state = "waiting" /\ e \in late
  /\ IF e \in claimed
       THEN job' = [job EXCEPT ![e].state = "ended"] /\ UNCHANGED <<claimed, wk>>
       ELSE /\ job' = [job EXCEPT ![e].state = "active"]
            /\ claimed' = claimed \cup {e}
            /\ wk' = [pc |-> "read", email |-> e]
  /\ UNCHANGED <<tables, late, early, rq, faults>>

EndJob == job' = [job EXCEPT ![wk.email].state = "ended"] /\ wk' = NoWork

ReadInvite ==
  /\ wk.pc = "read"
  /\ IF invite[wk.email].status = "PENDING"
       THEN wk' = [wk EXCEPT !.pc = "expire"] /\ UNCHANGED job
       ELSE EndJob
  /\ UNCHANGED <<tables, late, early, claimed, rq, faults>>

Expire ==
  /\ wk.pc = "expire"
  /\ invite' = [invite EXCEPT ![wk.email].status = "EXPIRED"]
  /\ EndJob
  /\ UNCHANGED <<users, member, late, early, claimed, rq, faults>>

\* BullMQ tries again until the attempts are used up.  The job then goes to the dead
\* letters, whose worker adds it anew, under another id, if the error was transient.
Retried(e) ==
  LET left == job[e].tries + 1 < Attempts IN
  \/ /\ job' = [job EXCEPT ![e] = [state |-> IF left THEN "waiting" ELSE "ended",
                                  tries |-> @.tries + 1, own |-> @.own]]
     /\ UNCHANGED claimed
  \/ /\ ~left
     /\ job' = [job EXCEPT ![e] = [state |-> "waiting", tries |-> 0, own |-> FALSE]]
     /\ claimed' = claimed \ {e}

\* Redis or the database fails.  The processor clears the key of the email worker, so
\* that its own stays set.
JobFault ==
  /\ faults < MaxFaults /\ faults' = faults + 1
  /\ \/ wk.pc # "idle" /\ Retried(wk.email) /\ wk' = NoWork
     \/ /\ wk.pc = "idle" /\ UNCHANGED wk
        /\ \E e \in late : job[e].state = "waiting" /\ Retried(e)
  /\ UNCHANGED <<tables, late, early, rq>>

Worker == ReadInvite \/ Expire \/ \E e \in Emails : StartExpiry(e)

-----------------------------------------------------------------------------
(* The rest of the world. *)

\* register makes accounts of its own.
Register(e) ==
  /\ e \notin users
  /\ users' = users \cup {e}
  /\ UNCHANGED <<member, invite, late, early, queue, rq, faults>>

\* Assumption on time: the awaited calls of createInvite take less than 48 hours.
PassExpiry(e) ==
  /\ invite[e].status # "NONE" /\ e \notin late
  /\ ~ \E r \in Requests : Creating(r) /\ rq[r].email = e
  /\ late' = late \cup {e}
  /\ UNCHANGED <<tables, early, queue, rq, faults>>

\* A failed call ends the request with an error, except where the code catches it:
\* a job that cannot be removed is left, one that cannot be scheduled is done without.
RequestFault(r) ==
  /\ faults < MaxFaults /\ faults' = faults + 1
  /\ ~At(r, "idle")
  /\ IF At(r, "cancelJob") THEN Goto(r, rq[r].next) ELSE Finish(r)
  /\ UNCHANGED <<tables, late, early, queue>>

CrashServer ==
  /\ faults < MaxFaults /\ faults' = faults + 1
  /\ \E r \in Requests : ~At(r, "idle")
  /\ rq' = [r \in Requests |-> NoRequest]
  /\ UNCHANGED <<tables, late, early, queue>>

\* BullMQ takes a job back whose worker no longer renews its lock.
CrashWorker ==
  /\ faults < MaxFaults /\ faults' = faults + 1
  /\ wk.pc # "idle"
  /\ job' = [job EXCEPT ![wk.email].state = "waiting"]
  /\ wk' = NoWork
  /\ UNCHANGED <<tables, late, early, claimed, rq>>

Init ==
  /\ users = {Owner}
  /\ member = [e \in Emails |-> IF e = Owner THEN "OWNER" ELSE "NONE"]
  /\ invite = [e \in Emails |-> NoInvite]
  /\ late = {} /\ early = {}
  /\ job = [e \in Emails |-> NoJob]
  /\ claimed = {}
  /\ rq = [r \in Requests |-> NoRequest]
  /\ wk = NoWork
  /\ faults = 0

Continue(r) ==
  \/ CheckMember(r) \/ CheckPending(r) \/ CreateInvite(r) \/ Schedule(r) \/ SaveJob(r)
  \/ CancelJob(r) \/ Revoke(r)
  \/ Accept(r) \/ FindUser(r) \/ FindMember(r) \/ CreateUser(r) \/ Join(r)
  \/ ChangeRole(r) \/ Remove(r)

Start(r, e) ==
  \/ StartRevoke(r, e) \/ StartAccept(r, e) \/ StartRemove(r, e)
  \/ \E role \in Grantable : StartInvite(r, e, role) \/ StartChangeRole(r, e, role)

Next ==
  \/ \E r \in Requests : Continue(r) \/ RequestFault(r) \/ \E e \in Emails : Start(r, e)
  \/ Worker \/ JobFault
  \/ \E e \in Emails : Register(e) \/ PassExpiry(e)
  \/ CrashServer \/ CrashWorker

\* Requests and the worker run on, and time passes; nobody is obliged to ask anything.
Fairness ==
  /\ \A r \in Requests : WF_vars(Continue(r))
  /\ WF_vars(ReadInvite \/ Expire)
  /\ \A e \in Emails : SF_vars(StartExpiry(e))
  /\ \A e \in Emails : WF_vars(PassExpiry(e))

Spec == Init /\ [][Next]_vars
FairSpec == Spec /\ Fairness

-----------------------------------------------------------------------------
(* Properties. *)

RequestPC ==
  {"checkMember", "checkPending", "createInvite", "schedule", "saveJob", "cancelJob", "revoke",
   "accept", "findUser", "findMember", "createUser", "join", "setRole", "remove"}
Request ==
  {NoRequest}
  \cup [pc: RequestPC, email: Emails, role: Grantable, full: BOOLEAN,
        next: {"idle", "revoke", "accept"}]
Invite == [status: {"NONE", "PENDING", "ACCEPTED", "EXPIRED", "REVOKED"}, role: Grantable,
           has: BOOLEAN]
Job == [state: {"none", "waiting", "active", "ended"}, tries: Nat, own: BOOLEAN]

TypeOK ==
  /\ users \subseteq Emails /\ late \subseteq Emails
  /\ early \subseteq Emails /\ claimed \subseteq Emails
  /\ member \in [Emails -> {"NONE", "OWNER", "ADMIN", "MEMBER"}]
  /\ invite \in [Emails -> Invite]
  /\ job \in [Emails -> Job]
  /\ rq \in [Requests -> Request]
  /\ wk \in {NoWork} \cup [pc: {"read", "expire"}, email: Emails]
  /\ faults \in 0..MaxFaults

Settled == {"ACCEPTED", "EXPIRED", "REVOKED"}

\* The workspace always has its creator as its one OWNER: role changes and removals,
\* each of which reads the member before it writes, never reach the owner, and no
\* invite or change makes another one (removeMember and updateMemberRole).
OneOwner == {e \in Emails : member[e] = "OWNER"} = {Owner}

\* The list of pending invites names no member, unless the acceptance was begun before
\* createInvite, which writes PENDING a second time, had ended: everybody else who has
\* joined has an invite that was answered, expired or revoked, whatever invites, renewed
\* invites, acceptances, revocations, expiries and removals cross.
NoPendingMember ==
  \A e \in Emails \ {Owner} : IsMember(e) /\ e \notin early => invite[e].status \in Settled

\* Without faults every invite whose 48 hours have passed is in the end no longer
\* PENDING, although revokeInvite and acceptInvite remove its expiry job before they
\* store their own status and createInvite may undo a revocation or an acceptance.
LateInvitesSettle ==
  [](faults = 0) =>
    \A e \in Emails \ {Owner} : (e \in late) ~> [](invite[e].status # "PENDING")

-----------------------------------------------------------------------------
(* What the steps rely on, as an inductive invariant. *)

\* acceptInvite is on its way, and past the write of ACCEPTED.
Accepting(r) == rq[r].pc \in {"findUser", "findMember", "createUser", "join"}
Answering(r) ==
  At(r, "accept") \/ (At(r, "cancelJob") /\ rq[r].next = "accept") \/ Accepting(r)

\* What a request's program counter says of the tables.
RequestFact(r) ==
  LET e == rq[r].email IN
  /\ rq[r].pc \in {"checkPending", "createInvite", "schedule", "saveJob", "setRole", "remove"} =>
       e # Owner
  /\ At(r, "cancelJob") => rq[r].next # "idle"
  /\ Answering(r) => invite[e].status # "NONE"
  /\ Accepting(r) => e \in early \/ invite[e].status \in Settled
RequestFacts == \A r \in Requests : RequestFact(r)

\* While the invite of an email is being created, nobody answers it and nobody has joined
\* by it, unless early.
CreatedAlone ==
  \A q \in Requests : Creating(q) =>
    \/ rq[q].email \in early
    \/ /\ ~IsMember(rq[q].email)
       /\ \A r \in Requests : Answering(r) => rq[r].email # rq[q].email

\* The unique key lets one request at a time create the invite of an email, which nobody
\* deletes.
OneCreator ==
  /\ \A r \in Requests : Creating(r) => invite[rq[r].email].status # "NONE"
  /\ \A r, q \in Requests : Creating(r) /\ Creating(q) /\ rq[r].email = rq[q].email => r = q

\* Only an email that was invited is a member.
InviteFirst ==
  \A e \in Emails \ {Owner} : IsMember(e) => invite[e].status # "NONE"

Consistent ==
  /\ TypeOK /\ OneOwner /\ NoPendingMember
  /\ RequestFacts /\ CreatedAlone /\ OneCreator /\ InviteFirst

-----------------------------------------------------------------------------
(* Expectations of the documentation that the code does not meet. *)

\* schema.prisma, "ACCEPTED: recipient accepted, WorkspaceMember created": without
\* faults, whoever acceptInvite marks as ACCEPTED becomes a member.
AcceptanceJoins ==
  \A r \in Requests, e \in Emails :
    (At(r, "accept") /\ rq[r].email = e) ~> IsMember(e)
=============================================================================

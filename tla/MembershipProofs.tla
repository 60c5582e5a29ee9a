-------------------------- MODULE MembershipProofs --------------------------
(***************************************************************************)
(* Proofs about Membership: the inductive invariant Consistent, and from   *)
(* it that the workspace keeps its one owner and that no member has a      *)
(* pending invite, unless it was accepted before it was fully created.     *)
(***************************************************************************)
EXTENDS Membership, TLAPS

-----------------------------------------------------------------------------
(* Types. *)

LEMMA RequestUpdates ==
  ASSUME NEW q \in Request, q.pc # "idle", NEW pc \in RequestPC
  PROVE  /\ q.pc \in RequestPC /\ q.email \in Emails /\ q.role \in Grantable
         /\ [q EXCEPT !.pc = pc] \in Request
         /\ [q EXCEPT !.pc = pc].pc = pc
         /\ [q EXCEPT !.pc = pc].email = q.email
         /\ [q EXCEPT !.pc = pc].next = q.next
  BY DEF Request, NoRequest, RequestPC

\* A request that moves on keeps its email, and no other request changes.
LEMMA GotoTyped ==
  ASSUME TypeOK, NEW r \in Requests, rq[r].pc # "idle", NEW pc \in RequestPC, Goto(r, pc)
  PROVE  /\ rq' \in [Requests -> Request]
         /\ rq'[r].pc = pc /\ rq'[r].email = rq[r].email /\ rq'[r].next = rq[r].next
         /\ rq[r].email \in Emails
         /\ \A q \in Requests \ {r} : rq'[q] = rq[q]
<1>1. rq \in [Requests -> Request] /\ rq[r] \in Request
  BY DEF TypeOK
<1>2. rq' = [rq EXCEPT ![r] = [rq[r] EXCEPT !.pc = pc]]
  BY DEF Goto
<1>3. /\ [rq[r] EXCEPT !.pc = pc] \in Request /\ [rq[r] EXCEPT !.pc = pc].pc = pc
      /\ [rq[r] EXCEPT !.pc = pc].email = rq[r].email
      /\ [rq[r] EXCEPT !.pc = pc].next = rq[r].next
      /\ rq[r].email \in Emails
  BY <1>1, RequestUpdates
<1> QED BY <1>1, <1>2, <1>3

LEMMA FinishTyped ==
  ASSUME TypeOK, NEW r \in Requests, Finish(r)
  PROVE  /\ rq' \in [Requests -> Request]
         /\ rq'[r] = NoRequest
         /\ \A q \in Requests \ {r} : rq'[q] = rq[q]
<1>1. NoRequest \in Request
  BY DEF Request
<1> QED BY <1>1 DEF TypeOK, Finish

\* What a request not at rest works on.
LEMMA BusyRequest ==
  ASSUME TypeOK, NEW r \in Requests, rq[r].pc # "idle"
  PROVE  rq[r].email \in Emails /\ rq[r].role \in Grantable /\ rq[r].pc \in RequestPC
         /\ rq[r].next \in {"idle", "revoke", "accept"}
<1>1. rq[r] \in Request
  BY DEF TypeOK
<1> QED BY <1>1 DEF Request, NoRequest

\* A request that starts.
LEMMA BeginTyped ==
  ASSUME TypeOK, NEW r \in Requests, NEW e \in Emails, NEW pc \in RequestPC,
         NEW role \in Grantable, NEW full \in BOOLEAN, NEW next \in {"idle", "revoke", "accept"},
         Begin(r, pc, e, role, full, next)
  PROVE  /\ rq' \in [Requests -> Request]
         /\ rq'[r].pc = pc /\ rq'[r].email = e /\ rq'[r].next = next
         /\ \A q \in Requests \ {r} : rq'[q] = rq[q]
<1>1. [pc |-> pc, email |-> e, role |-> role, full |-> full, next |-> next] \in Request
  BY DEF Request
<1> QED BY <1>1 DEF TypeOK, Begin

\* What each of the five kinds of request is when it starts.
Accepts(pc, next) == pc = "accept" \/ (pc = "cancelJob" /\ next = "accept")
Begun(r, e, pc, role, full, next) ==
  /\ Begin(r, pc, e, role, full, next)
  /\ pc \in {"checkMember", "setRole", "remove", "cancelJob", "revoke", "accept"}
  /\ pc \in {"setRole", "remove"} => e # Owner
  /\ pc = "cancelJob" => next # "idle"
  /\ Accepts(pc, next) =>
       /\ invite[e].status # "NONE"
       /\ e \in early' \/ \A q \in Requests : Creating(q) => rq[q].email # e
  /\ early' \in {early, early \cup {e}}
  /\ UNCHANGED <<tables, late, queue, faults>>

LEMMA Beginnings ==
  ASSUME TypeOK, NEW r \in Requests, NEW e \in Emails, Start(r, e)
  PROVE  \E pc \in RequestPC, role \in Grantable, full \in BOOLEAN,
            next \in {"idle", "revoke", "accept"} : Begun(r, e, pc, role, full, next)
<1>0. /\ "MEMBER" \in Grantable /\ invite[e].role \in Grantable /\ invite[e].has \in BOOLEAN
      /\ {"checkMember", "setRole", "remove", "cancelJob", "revoke", "accept"} \subseteq RequestPC
  BY DEF TypeOK, Invite, Grantable, RequestPC
<1>1. ASSUME NEW role \in Grantable, StartInvite(r, e, role)
      PROVE  Begun(r, e, "checkMember", role, Cardinality(Members) >= MaxMembers, "idle")
  BY <1>1 DEF StartInvite, Begun, Accepts
<1>2. ASSUME NEW role \in Grantable, StartChangeRole(r, e, role)
      PROVE  Begun(r, e, "setRole", role, FALSE, "idle")
  BY <1>2 DEF StartChangeRole, Begun, Accepts
<1>3. ASSUME StartRevoke(r, e)
      PROVE  Begun(r, e, IF invite[e].has THEN "cancelJob" ELSE "revoke",
                   invite[e].role, FALSE, "revoke")
  BY <1>0, <1>3 DEF StartRevoke, CancelThen, Begun, Accepts
<1>4. ASSUME StartAccept(r, e)
      PROVE  Begun(r, e, IF invite[e].has THEN "cancelJob" ELSE "accept",
                   invite[e].role, FALSE, "accept")
  BY <1>0, <1>4 DEF StartAccept, CancelThen, Begun, Accepts
<1>5. ASSUME StartRemove(r, e)
      PROVE  Begun(r, e, "remove", "MEMBER", FALSE, "idle")
  BY <1>0, <1>5 DEF StartRemove, Begun, Accepts
<1>6. (Cardinality(Members) >= MaxMembers) \in BOOLEAN /\ FALSE \in BOOLEAN
      /\ (IF invite[e].has THEN "cancelJob" ELSE "revoke") \in RequestPC
      /\ (IF invite[e].has THEN "cancelJob" ELSE "accept") \in RequestPC
  BY <1>0
<1>7. \/ \E role \in Grantable : StartInvite(r, e, role)
      \/ \E role \in Grantable : StartChangeRole(r, e, role)
      \/ StartRevoke(r, e) \/ StartAccept(r, e) \/ StartRemove(r, e)
  BY DEF Start
<1> HIDE DEF Begun, StartInvite, StartChangeRole, StartRevoke, StartAccept, StartRemove
<1> QED BY <1>0, <1>1, <1>2, <1>3, <1>4, <1>5, <1>6, <1>7, ZenonT(30)

-----------------------------------------------------------------------------
(* The type invariant. *)

LEMMA InitTypes == Init => TypeOK
<1> SUFFICES ASSUME Init PROVE TypeOK
  OBVIOUS
<1>1. NoInvite \in Invite /\ NoJob \in Job /\ NoRequest \in Request
  BY MembershipAssumption
  DEF MembershipAssumption, NoInvite, Invite, Grantable, NoJob, Job, Request
<1> QED BY <1>1, MembershipAssumption DEF MembershipAssumption, Init, TypeOK

LEMMA InviteUpdates ==
  ASSUME NEW v \in Invite,
         NEW st \in {"PENDING", "ACCEPTED", "EXPIRED", "REVOKED"}
  PROVE  /\ [v EXCEPT !.status = st] \in Invite
         /\ [v EXCEPT !.status = st].status = st
         /\ [v EXCEPT !.status = st, !.has = TRUE] \in Invite
         /\ [v EXCEPT !.status = st, !.has = TRUE].status = st
  BY DEF Invite

LEMMA JobUpdates ==
  ASSUME NEW j \in Job, NEW st \in {"waiting", "active", "ended"}
  PROVE  [j EXCEPT !.state = st] \in Job
  BY DEF Job

\* A step of a request keeps the types.
LEMMA RequestTypes ==
  ASSUME TypeOK, RequestFacts, NEW r \in Requests, Continue(r) PROVE TypeOK'
<1>0. /\ rq[r].pc # "idle" => rq[r].email \in Emails /\ rq[r].role \in Grantable
                              /\ rq[r].pc \in RequestPC
                              /\ rq[r].next \in {"idle", "revoke", "accept"}
      /\ invite \in [Emails -> Invite] /\ job \in [Emails -> Job]
      /\ member \in [Emails -> {"NONE", "OWNER", "ADMIN", "MEMBER"}]
  BY BusyRequest DEF TypeOK
<1>1. ASSUME NEW pc \in RequestPC, rq[r].pc # "idle", Goto(r, pc) PROVE rq' \in [Requests -> Request]
  BY <1>1, GotoTyped
<1>2. ASSUME Finish(r) PROVE rq' \in [Requests -> Request]
  BY <1>2, FinishTyped
<1>3. {"checkMember", "checkPending", "createInvite", "schedule", "saveJob", "cancelJob", "revoke",
       "accept", "findUser", "findMember", "createUser", "join", "setRole", "remove"} = RequestPC
  BY DEF RequestPC
<1> HIDE DEF Goto, Finish
<1>4. CASE CheckMember(r)
  BY <1>0, <1>1, <1>2, <1>3, <1>4 DEF CheckMember, At, TypeOK, tables, queue
<1>5. CASE CheckPending(r)
  BY <1>0, <1>1, <1>2, <1>3, <1>5 DEF CheckPending, At, TypeOK, tables, queue
<1>6. CASE CreateInvite(r)
  <2>1. rq[r].email \in Emails /\ rq[r].role \in Grantable /\ rq' \in [Requests -> Request]
    BY <1>0, <1>1, <1>2, <1>3, <1>6 DEF CreateInvite, At
  <2>2. [status |-> "PENDING", role |-> rq[r].role, has |-> FALSE] \in Invite
    BY <2>1 DEF Invite
  <2>3. invite' \in [Emails -> Invite]
    BY <1>0, <1>6, <2>1, <2>2 DEF CreateInvite
  <2> QED BY <1>6, <2>1, <2>3 DEF CreateInvite, TypeOK, queue
<1>7. CASE Schedule(r)
  <2>1. rq[r].email \in Emails /\ rq' \in [Requests -> Request]
    BY <1>0, <1>1, <1>3, <1>7 DEF Schedule, At
  <2>2. [NoJob EXCEPT !.state = "waiting"] \in Job
    BY DEF Job, NoJob
  <2>3. job' \in [Emails -> Job]
    BY <1>0, <1>7, <2>1, <2>2 DEF Schedule
  <2> QED BY <1>7, <2>1, <2>3 DEF Schedule, TypeOK, tables
<1>8. CASE SaveJob(r)
  <2>1. rq[r].email \in Emails /\ rq' \in [Requests -> Request]
    BY <1>0, <1>2, <1>8 DEF SaveJob, At
  <2>2. invite' = [invite EXCEPT ![rq[r].email] =
                     [invite[rq[r].email] EXCEPT !.status = "PENDING", !.has = TRUE]]
    BY <1>8 DEF SaveJob
  <2>3. invite' \in [Emails -> Invite]
    BY <1>0, <2>1, <2>2, InviteUpdates
  <2> QED BY <1>8, <2>1, <2>3 DEF SaveJob, TypeOK, queue
<1>9. CASE CancelJob(r)
  <2>1. rq[r].email \in Emails /\ rq' \in [Requests -> Request]
    BY <1>0, <1>1, <1>3, <1>9 DEF CancelJob, At, RequestFacts, RequestFact
  <2>2. job' \in [Emails -> Job]
    <3>1. job[rq[r].email] \in Job
      BY <1>0, <2>1
    <3>2. [job[rq[r].email] EXCEPT !.state = "ended"] \in Job
      BY <3>1, JobUpdates
    <3>3. job' = job \/ job' = [job EXCEPT ![rq[r].email] =
                                  [job[rq[r].email] EXCEPT !.state = "ended"]]
      BY <1>9 DEF CancelJob
    <3> QED BY <1>0, <2>1, <3>2, <3>3
  <2> QED BY <1>9, <2>1, <2>2 DEF CancelJob, TypeOK, tables
<1>10. CASE Revoke(r)
  <2>1. rq[r].email \in Emails /\ rq' \in [Requests -> Request]
    BY <1>0, <1>2, <1>10 DEF Revoke, At
  <2>2. invite' = [invite EXCEPT ![rq[r].email] =
                     [invite[rq[r].email] EXCEPT !.status = "REVOKED"]]
    BY <1>10 DEF Revoke
  <2>3. invite' \in [Emails -> Invite]
    BY <1>0, <2>1, <2>2, InviteUpdates
  <2> QED BY <1>10, <2>1, <2>3 DEF Revoke, TypeOK, queue
<1>11. CASE Accept(r)
  <2>1. rq[r].email \in Emails /\ rq' \in [Requests -> Request]
    BY <1>0, <1>1, <1>3, <1>11 DEF Accept, At
  <2>2. invite' = [invite EXCEPT ![rq[r].email] =
                     [invite[rq[r].email] EXCEPT !.status = "ACCEPTED"]]
    BY <1>11 DEF Accept
  <2>3. invite' \in [Emails -> Invite]
    BY <1>0, <2>1, <2>2, InviteUpdates
  <2> QED BY <1>11, <2>1, <2>3 DEF Accept, TypeOK, queue
<1>12. CASE FindUser(r)
  BY <1>0, <1>1, <1>3, <1>12 DEF FindUser, At, TypeOK, tables, queue
<1>13. CASE FindMember(r)
  BY <1>0, <1>1, <1>2, <1>3, <1>13 DEF FindMember, At, TypeOK, tables, queue
<1>14. CASE CreateUser(r)
  BY <1>0, <1>1, <1>2, <1>3, <1>14 DEF CreateUser, At, TypeOK, queue
<1>15. CASE Join(r)
  BY <1>0, <1>2, <1>15 DEF Join, At, TypeOK, queue, Grantable
<1>16. CASE ChangeRole(r)
  BY <1>0, <1>2, <1>16 DEF ChangeRole, At, TypeOK, queue, Grantable
<1>17. CASE Remove(r)
  BY <1>0, <1>2, <1>17 DEF Remove, At, TypeOK, queue
<1> QED
  BY <1>4, <1>5, <1>6, <1>7, <1>8, <1>9, <1>10, <1>11, <1>12, <1>13, <1>14, <1>15, <1>16, <1>17
  DEF Continue

\* Any other step keeps them too.
LEMMA OtherTypes ==
  ASSUME TypeOK, RequestFacts,
         \/ Worker \/ JobFault \/ CrashServer \/ CrashWorker
         \/ \E e \in Emails : Register(e) \/ PassExpiry(e)
         \/ \E r \in Requests : RequestFault(r) \/ \E e \in Emails : Start(r, e)
  PROVE  TypeOK'
<1>0. /\ invite \in [Emails -> Invite] /\ job \in [Emails -> Job] /\ rq \in [Requests -> Request]
      /\ wk.pc # "idle" => wk.email \in Emails
      /\ late \subseteq Emails /\ claimed \subseteq Emails /\ NoRequest \in Request
      /\ MaxFaults \in Nat /\ faults \in Nat
  BY MembershipAssumption DEF MembershipAssumption, TypeOK, NoWork, Request
<1>1. ASSUME NEW e \in Emails, NEW st \in {"waiting", "active", "ended"},
             job' = [job EXCEPT ![e].state = st]
      PROVE  job' \in [Emails -> Job]
  <2>1. job[e] \in Job /\ job' = [job EXCEPT ![e] = [job[e] EXCEPT !.state = st]]
    BY <1>0, <1>1
  <2> QED BY <1>0, <2>1, JobUpdates
<1>2. ASSUME NEW e \in Emails, Retried(e)
      PROVE  job' \in [Emails -> Job] /\ claimed' \subseteq Emails
  <2>1. job[e] \in Job
    BY <1>0
  <2>2. /\ [state |-> IF job[e].tries + 1 < Attempts THEN "waiting" ELSE "ended",
            tries |-> job[e].tries + 1, own |-> job[e].own] \in Job
        /\ [state |-> "waiting", tries |-> 0, own |-> FALSE] \in Job
    BY <2>1 DEF Job
  <2> QED BY <1>0, <1>2, <2>2 DEF Retried
<1>3. ASSUME NEW e \in Emails, StartExpiry(e) PROVE TypeOK'
  <2>1. /\ \/ job' = [job EXCEPT ![e].state = "ended"]
           \/ job' = [job EXCEPT ![e].state = "active"]
        /\ claimed' \subseteq Emails
        /\ wk' \in {NoWork} \cup [pc: {"read", "expire"}, email: Emails]
        /\ UNCHANGED <<users, member, invite, late, early, rq, faults>>
    BY <1>0, <1>3 DEF StartExpiry, TypeOK, tables
  <2>2. job' \in [Emails -> Job]
    BY <1>1, <2>1
  <2> QED BY <2>1, <2>2 DEF TypeOK
<1>4. CASE ReadInvite
  <2>1. wk.email \in Emails /\ wk.pc = "read"
    BY <1>0, <1>4 DEF ReadInvite
  <2>2. CASE wk' = [wk EXCEPT !.pc = "expire"] /\ UNCHANGED job
    <3>1. wk' \in [pc: {"read", "expire"}, email: Emails]
      BY <2>1, <2>2 DEF TypeOK, NoWork
    <3> QED BY <1>4, <2>2, <3>1 DEF ReadInvite, TypeOK, tables
  <2>3. CASE EndJob
    <3>1. job' \in [Emails -> Job]
      BY <1>1, <2>1, <2>3 DEF EndJob
    <3> QED BY <1>4, <2>3, <3>1 DEF ReadInvite, EndJob, TypeOK, tables
  <2> QED BY <1>4, <2>2, <2>3 DEF ReadInvite
<1>5. CASE Expire
  <2>1. wk.email \in Emails /\ EndJob
    BY <1>0, <1>5 DEF Expire
  <2>2. job' \in [Emails -> Job]
    BY <1>1, <2>1 DEF EndJob
  <2>3. invite' = [invite EXCEPT ![wk.email] = [invite[wk.email] EXCEPT !.status = "EXPIRED"]]
    BY <1>5 DEF Expire
  <2>4. invite' \in [Emails -> Invite]
    BY <1>0, <2>1, <2>3, InviteUpdates
  <2> QED BY <1>5, <2>2, <2>4 DEF Expire, EndJob, TypeOK
<1>6. CASE JobFault
  <2>1. \/ wk.pc # "idle" /\ Retried(wk.email) /\ wk' = NoWork
        \/ UNCHANGED wk /\ \E e \in late : Retried(e)
    BY <1>6 DEF JobFault
  <2>2. job' \in [Emails -> Job] /\ claimed' \subseteq Emails
    BY <1>0, <1>2, <2>1
  <2> QED BY <1>0, <1>6, <2>1, <2>2 DEF JobFault, TypeOK, tables
<1>7. CASE CrashWorker
  <2>1. job' \in [Emails -> Job]
    BY <1>0, <1>1, <1>7 DEF CrashWorker
  <2> QED BY <1>0, <1>7, <2>1 DEF CrashWorker, TypeOK, tables
<1>8. CASE CrashServer
  BY <1>0, <1>8 DEF CrashServer, TypeOK, tables, queue
<1>9. ASSUME NEW e \in Emails, Register(e) PROVE TypeOK'
  BY <1>9 DEF Register, TypeOK, queue
<1>10. ASSUME NEW e \in Emails, PassExpiry(e) PROVE TypeOK'
  BY <1>10 DEF PassExpiry, TypeOK, queue, tables
<1>11. ASSUME NEW r \in Requests, RequestFault(r) PROVE TypeOK'
  <2>1. rq[r].pc # "idle"
    BY <1>11 DEF RequestFault, At
  <2>2. rq[r].email \in Emails
    BY <2>1, BusyRequest
  <2>3. rq[r].pc = "cancelJob" => rq[r].next \in RequestPC
    <3>1. rq[r].pc = "cancelJob" => rq[r].next # "idle"
      BY DEF RequestFacts, RequestFact, At
    <3> QED BY <2>1, <3>1, BusyRequest DEF RequestPC
  <2>4. rq' \in [Requests -> Request]
    <3>1. CASE rq[r].pc = "cancelJob"
      BY <1>11, <2>1, <2>3, <3>1, GotoTyped DEF RequestFault, At
    <3>2. CASE rq[r].pc # "cancelJob"
      BY <1>11, <3>2, FinishTyped DEF RequestFault, At
    <3> QED BY <3>1, <3>2
  <2> QED BY <1>0, <1>11, <2>2, <2>4 DEF RequestFault, TypeOK, tables, queue
<1>12. ASSUME NEW r \in Requests, NEW e \in Emails, Start(r, e) PROVE TypeOK'
  <2>1. PICK pc \in RequestPC, role \in Grantable, full \in BOOLEAN,
             next \in {"idle", "revoke", "accept"} : Begun(r, e, pc, role, full, next)
    BY <1>12, Beginnings
  <2>2. rq' \in [Requests -> Request]
    BY <2>1, BeginTyped DEF Begun
  <2> QED BY <2>1, <2>2 DEF Begun, TypeOK, tables, queue
<1> QED
  BY <1>3, <1>4, <1>5, <1>6, <1>7, <1>8, <1>9, <1>10, <1>11, <1>12 DEF Worker
-----------------------------------------------------------------------------
(* The claims of the requests and the tables. *)

Facts ==
  OneOwner /\ NoPendingMember /\ RequestFacts /\ CreatedAlone /\ OneCreator /\ InviteFirst

LEMMA InitFacts == Init => Facts
  BY MembershipAssumption
  DEF MembershipAssumption, Init, Facts, OneOwner, NoPendingMember, IsMember, NoInvite,
      RequestFacts, RequestFact, NoRequest, At, Creating, Answering, Accepting, CreatedAlone,
      OneCreator, InviteFirst

\* A request that moves need only be looked at itself: its own claim must hold, and it
\* must not begin to create an invite, nor to answer one that is being created.
Moved(q) ==
  /\ RequestFact(q)'
  /\ Creating(q)' => Creating(q) /\ rq'[q].email = rq[q].email
  /\ Answering(q)' =>
       \/ Answering(q) /\ rq'[q].email = rq[q].email
       \/ rq'[q].email \in early'
       \/ \A c \in Requests : Creating(c) => rq[c].email # rq'[q].email

\* Steps that leave the members alone, and change an invite only to settle it.
LEMMA SettlingSteps ==
  ASSUME TypeOK, Facts, UNCHANGED member, early \subseteq early',
         \A e \in Emails : \/ invite'[e].status = invite[e].status
                           \/ invite'[e].status \in Settled,
         \A q \in Requests : rq'[q] = rq[q] \/ Moved(q)
  PROVE  Facts'
<1>0. /\ \A q \in Requests : rq[q].pc # "idle" => rq[q].email \in Emails
      /\ \A q \in Requests : rq'[q] = rq[q] =>
           (Creating(q)' <=> Creating(q)) /\ (Answering(q)' <=> Answering(q))
  BY BusyRequest DEF Creating, Answering, Accepting, At
<1>1. OneOwner' /\ NoPendingMember'
  BY DEF Facts, OneOwner, NoPendingMember, IsMember
<1>2. \A e \in Emails : invite[e].status # "NONE" => invite'[e].status # "NONE"
  BY DEF Settled
<1>3. RequestFacts'
  <2> SUFFICES ASSUME NEW q \in Requests, rq'[q] = rq[q] PROVE RequestFact(q)'
    BY DEF Moved, RequestFacts
  <2>1. RequestFact(q)
    BY DEF Facts, RequestFacts
  <2>2. Answering(q) => rq[q].email \in Emails
    BY <1>0 DEF Answering, Accepting, At
  <2>3. Accepting(q)' => Accepting(q) /\ Answering(q)
    BY DEF Answering, Accepting
  <2>4. Answering(q)' => invite'[rq'[q].email].status # "NONE"
    BY <1>0, <1>2, <2>1, <2>2 DEF RequestFact
  <2>5. Accepting(q)' => rq'[q].email \in early' \/ invite'[rq'[q].email].status \in Settled
    BY <2>1, <2>2, <2>3 DEF RequestFact
  <2> QED BY <2>1, <2>4, <2>5 DEF RequestFact, At
<1>4. \A q \in Requests : Creating(q)' => /\ Creating(q) /\ rq'[q].email = rq[q].email
                                         /\ rq[q].email \in Emails
  BY <1>0 DEF Moved, Creating
<1>5. OneCreator'
  BY <1>2, <1>4 DEF Facts, OneCreator
<1>6. CreatedAlone'
  <2> SUFFICES ASSUME NEW q \in Requests, Creating(q)', rq'[q].email \notin early'
               PROVE  /\ member'[rq'[q].email] = "NONE"
                      /\ \A r \in Requests : Answering(r)' => rq'[r].email # rq'[q].email
    BY DEF CreatedAlone, IsMember
  <2>1. Creating(q) /\ rq'[q].email = rq[q].email /\ rq[q].email \notin early
    BY <1>4
  <2>2. /\ ~IsMember(rq[q].email)
        /\ \A r \in Requests : Answering(r) => rq[r].email # rq[q].email
    BY <2>1 DEF Facts, CreatedAlone
  <2>3. ASSUME NEW r \in Requests, Answering(r)', rq'[r].email = rq'[q].email PROVE FALSE
    BY <1>0, <2>1, <2>2, <2>3 DEF Moved
  <2> QED BY <2>1, <2>2, <2>3 DEF IsMember
<1>7. InviteFirst'
  BY <1>2 DEF Facts, InviteFirst, IsMember
<1> QED BY <1>1, <1>3, <1>5, <1>6, <1>7 DEF Facts

\* A request that ends has nothing left to claim.
LEMMA Finished ==
  ASSUME NEW q \in Requests, rq'[q] = NoRequest PROVE Moved(q)
  BY DEF Moved, RequestFact, NoRequest, Creating, Answering, At, Accepting

\* The steps of a request that only look, or that settle an invite.
LEMMA QuietRequestFacts ==
  ASSUME TypeOK, Facts, NEW r \in Requests,
         \/ CheckMember(r) \/ CheckPending(r) \/ Schedule(r) \/ CancelJob(r)
         \/ Revoke(r) \/ Accept(r) \/ FindUser(r) \/ FindMember(r) \/ CreateUser(r)
  PROVE  Facts'
<1>0. /\ RequestFact(r) /\ member[Owner] = "OWNER" /\ invite \in [Emails -> Invite]
      /\ rq[r].pc # "idle"
      /\ rq[r].email \in Emails /\ rq[r].next \in {"idle", "revoke", "accept"}
      /\ UNCHANGED early
  <2>1. rq[r].pc # "idle" /\ UNCHANGED early
    BY DEF CheckMember, CheckPending, Schedule, CancelJob, Revoke, Accept, FindUser, FindMember,
           CreateUser, At
  <2> QED BY <2>1, BusyRequest DEF Facts, RequestFacts, OneOwner, TypeOK
<1>1. ASSUME NEW pc \in RequestPC, Goto(r, pc)
      PROVE  /\ rq'[r].pc = pc /\ rq'[r].email = rq[r].email /\ rq'[r].next = rq[r].next
             /\ \A q \in Requests \ {r} : rq'[q] = rq[q]
  BY <1>0, <1>1, GotoTyped
<1>2. ASSUME Finish(r) PROVE Moved(r) /\ \A q \in Requests \ {r} : rq'[q] = rq[q]
  BY <1>2, FinishTyped, Finished
<1>3. {"checkMember", "checkPending", "createInvite", "schedule", "saveJob", "cancelJob", "revoke",
       "accept", "findUser", "findMember", "createUser", "join", "setRole", "remove"} = RequestPC
  BY DEF RequestPC
<1>4. ASSUME UNCHANGED member,
             \A e \in Emails : \/ invite'[e].status = invite[e].status
                               \/ invite'[e].status \in Settled,
             Moved(r) /\ \A q \in Requests \ {r} : rq'[q] = rq[q]
      PROVE  Facts'
  BY <1>0, <1>4, SettlingSteps
<1> HIDE DEF Goto, Finish
<1>5. CASE CheckMember(r)
  <2>1. Moved(r) /\ \A q \in Requests \ {r} : rq'[q] = rq[q]
    <3>1. CASE Finish(r)
      BY <1>2, <3>1
    <3>2. CASE ~IsMember(rq[r].email) /\ Goto(r, "checkPending")
      <4>1. rq[r].email # Owner
        BY <1>0, <3>2 DEF IsMember
      <4> QED BY <1>1, <1>3, <3>2, <4>1
              DEF Moved, RequestFact, Creating, At, Accepting, Answering
    <3> QED BY <1>5, <3>1, <3>2 DEF CheckMember
  <2> QED BY <1>4, <1>5, <2>1 DEF CheckMember, tables
<1>6. CASE CheckPending(r)
  <2>1. Moved(r) /\ \A q \in Requests \ {r} : rq'[q] = rq[q]
    <3>1. CASE Finish(r)
      BY <1>2, <3>1
    <3>2. CASE Goto(r, "createInvite")
      <4>1. rq[r].email # Owner
        BY <1>0, <1>6 DEF CheckPending, At, RequestFact
      <4> QED BY <1>1, <1>3, <3>2, <4>1
              DEF Moved, RequestFact, Creating, At, Accepting, Answering
    <3> QED BY <1>6, <3>1, <3>2 DEF CheckPending
  <2> QED BY <1>4, <1>6, <2>1 DEF CheckPending, tables
<1>7. CASE Schedule(r)
  <2>1. Goto(r, "saveJob") /\ rq[r].pc = "schedule" /\ UNCHANGED <<member, invite>>
    BY <1>7 DEF Schedule, At, tables
  <2>2. rq[r].email # Owner
    BY <1>0, <2>1 DEF RequestFact
  <2>3. Moved(r)
    BY <1>1, <1>3, <2>1, <2>2 DEF Moved, RequestFact, Creating, At, Accepting, Answering
  <2> QED BY <1>1, <1>3, <1>4, <2>1, <2>3
<1>8. CASE CancelJob(r)
  <2>1. Goto(r, rq[r].next) /\ rq[r].pc = "cancelJob" /\ UNCHANGED <<member, invite>>
    BY <1>8 DEF CancelJob, At, tables
  <2>2. /\ rq[r].next \in {"revoke", "accept"}
        /\ rq[r].next = "accept" => invite[rq[r].email].status # "NONE"
    BY <1>0, <2>1 DEF RequestFact, Answering, At
  <2>3. Moved(r)
    BY <1>1, <1>3, <2>1, <2>2 DEF Moved, RequestFact, Creating, At, Accepting, Answering
  <2> QED BY <1>1, <1>3, <1>4, <2>1, <2>2, <2>3
<1>9. CASE Revoke(r)
  <2>1. \A e \in Emails : \/ invite'[e].status = invite[e].status
                          \/ invite'[e].status \in Settled
    BY <1>0, <1>9 DEF Revoke, Settled, Invite
  <2> QED BY <1>2, <1>4, <1>9, <2>1 DEF Revoke
<1>10. CASE Accept(r)
  <2>1. /\ \A e \in Emails : \/ invite'[e].status = invite[e].status
                             \/ invite'[e].status \in Settled
        /\ invite'[rq[r].email].status \in Settled
    BY <1>0, <1>10 DEF Accept, Settled, Invite
  <2>2. Goto(r, "findUser") /\ rq[r].pc = "accept" /\ UNCHANGED member
    BY <1>10 DEF Accept, At
  <2>3. invite'[rq[r].email].status # "NONE"
    BY <2>1 DEF Settled
  <2>4. Moved(r)
    BY <1>1, <1>3, <2>1, <2>2, <2>3 DEF Moved, RequestFact, Creating, At, Accepting, Answering
  <2> QED BY <1>1, <1>3, <1>4, <2>1, <2>2, <2>4
<1>11. ASSUME Accepting(r), NEW pc \in {"findMember", "createUser", "join"}, Goto(r, pc),
              UNCHANGED <<member, invite>>
       PROVE  Facts'
  <2>1. /\ rq[r].email \in early \/ invite[rq[r].email].status \in Settled
        /\ invite[rq[r].email].status # "NONE"
    BY <1>0, <1>11 DEF RequestFact, Answering
  <2>2. Moved(r)
    BY <1>0, <1>1, <1>3, <1>11, <2>1
    DEF Moved, RequestFact, Creating, At, Accepting, Answering
  <2> QED BY <1>1, <1>3, <1>4, <1>11, <2>2
<1>12. ASSUME Finish(r), UNCHANGED <<member, invite>> PROVE Facts'
  BY <1>2, <1>4, <1>12
<1>13. CASE FindUser(r)
  BY <1>11, <1>13 DEF FindUser, At, Accepting, tables
<1>14. CASE FindMember(r)
  BY <1>11, <1>12, <1>14 DEF FindMember, At, Accepting, tables
<1>15. CASE CreateUser(r)
  BY <1>11, <1>12, <1>15 DEF CreateUser, At, Accepting
<1> QED BY <1>5, <1>6, <1>7, <1>8, <1>9, <1>10, <1>13, <1>14, <1>15

\* An invite is created for an email that has none: nobody can have answered it.
LEMMA CreateInviteFacts ==
  ASSUME TypeOK, Facts, NEW r \in Requests, CreateInvite(r) PROVE Facts'
<1> DEFINE e == rq[r].email
<1>0. /\ rq[r].pc = "createInvite" /\ RequestFact(r) /\ e \in Emails
      /\ invite \in [Emails -> Invite] /\ "schedule" \in RequestPC
      /\ UNCHANGED <<member, early>>
      /\ \A q \in Requests : rq[q].pc # "idle" => rq[q].email \in Emails
  BY BusyRequest DEF CreateInvite, At, Facts, RequestFacts, TypeOK, RequestPC
<1>1. CASE Finish(r) /\ UNCHANGED invite
  <2>1. Moved(r) /\ \A q \in Requests \ {r} : rq'[q] = rq[q]
    BY <1>1, FinishTyped, Finished
  <2> QED BY <1>0, <1>1, <2>1, SettlingSteps
<1>2. CASE /\ invite[e].status = "NONE" /\ Goto(r, "schedule")
           /\ invite' = [invite EXCEPT ![e] = [status |-> "PENDING", role |-> rq[r].role,
                                               has |-> FALSE]]
  <2>1. /\ rq'[r].pc = "schedule" /\ rq'[r].email = e
        /\ \A q \in Requests \ {r} : rq'[q] = rq[q]
    BY <1>0, <1>2, GotoTyped
  <2>2. /\ invite'[e].status = "PENDING"
        /\ \A d \in Emails \ {e} : invite'[d] = invite[d]
    BY <1>0, <1>2
  <2>3. e # Owner /\ ~IsMember(e)
    BY <1>0, <1>2 DEF RequestFact, Facts, InviteFirst, At
  <2>4. \A q \in Requests : Creating(q) \/ Answering(q) => rq[q].email \in Emails \ {e}
    BY <1>0, <1>2
    DEF Facts, OneCreator, RequestFacts, RequestFact, Creating, Answering, Accepting, At
  <2>5. \A q \in Requests : /\ Creating(q)' => q = r \/ Creating(q)
                            /\ Answering(q)' => q # r /\ Answering(q)
                            /\ rq'[q].email = rq[q].email
    BY <2>1 DEF Creating, Answering, Accepting, At
  <2>6. OneOwner' /\ NoPendingMember'
    BY <1>0, <2>2, <2>3 DEF Facts, OneOwner, NoPendingMember, IsMember
  <2>7. OneCreator'
    <3>1. \A q, p \in Requests : Creating(q)' /\ Creating(p)' /\ rq'[q].email = rq'[p].email => q = p
      BY <2>4, <2>5 DEF Facts, OneCreator
    <3>2. ASSUME NEW q \in Requests, Creating(q)' PROVE invite'[rq'[q].email].status # "NONE"
      <4>1. CASE q = r
        BY <2>1, <2>2, <4>1
      <4>2. CASE Creating(q)
        BY <2>2, <2>4, <2>5, <4>2 DEF Facts, OneCreator
      <4> QED BY <2>5, <3>2, <4>1, <4>2
    <3> QED BY <3>1, <3>2 DEF OneCreator
  <2>8. CreatedAlone'
    <3> SUFFICES ASSUME NEW q \in Requests, Creating(q)', rq'[q].email \notin early'
                 PROVE  /\ member'[rq'[q].email] = "NONE"
                        /\ \A p \in Requests : Answering(p)' => rq'[p].email # rq'[q].email
      BY DEF CreatedAlone, IsMember
    <3>1. CASE q = r
      BY <1>0, <2>1, <2>3, <2>4, <2>5, <3>1 DEF IsMember
    <3>2. CASE Creating(q)
      <4>1. /\ ~IsMember(rq[q].email)
            /\ \A p \in Requests : Answering(p) => rq[p].email # rq[q].email
        BY <1>0, <2>5, <3>2 DEF Facts, CreatedAlone
      <4> QED BY <1>0, <2>5, <4>1 DEF IsMember
    <3> QED BY <2>5, <3>1, <3>2
  <2>9. InviteFirst'
    BY <1>0, <2>2, <2>3 DEF Facts, InviteFirst, IsMember
  <2>10. RequestFacts'
    <3>1. RequestFact(r)'
      BY <2>1, <2>3 DEF RequestFact, Answering, At, Accepting
    <3>2. ASSUME NEW q \in Requests \ {r} PROVE RequestFact(q)'
      <4>1. RequestFact(q) /\ rq'[q] = rq[q]
        BY <2>1 DEF Facts, RequestFacts
      <4>2. Answering(q) => rq[q].email \in Emails \ {e} /\ invite'[rq[q].email] = invite[rq[q].email]
        BY <2>2, <2>4
      <4> QED BY <1>0, <4>1, <4>2 DEF RequestFact, At, Answering, Accepting
    <3> QED BY <3>1, <3>2 DEF RequestFacts
  <2> QED BY <2>6, <2>7, <2>8, <2>9, <2>10 DEF Facts
<1> QED BY <1>1, <1>2 DEF CreateInvite

\* createInvite ends by writing the invite as PENDING once more: whoever has joined by
\* it, or is about to, began before.
LEMMA SaveJobFacts ==
  ASSUME TypeOK, Facts, NEW r \in Requests, SaveJob(r) PROVE Facts'
<1> DEFINE e == rq[r].email
<1>0. /\ rq[r].pc = "saveJob" /\ Creating(r) /\ Finish(r) /\ UNCHANGED <<member, early>>
      /\ invite \in [Emails -> Invite]
      /\ invite' = [invite EXCEPT ![e] = [invite[e] EXCEPT !.status = "PENDING", !.has = TRUE]]
      /\ RequestFact(r)
  BY DEF SaveJob, Creating, At, TypeOK, Facts, RequestFacts
<1>1. /\ e \in Emails /\ e # Owner
      /\ rq'[r] = NoRequest /\ \A q \in Requests \ {r} : rq'[q] = rq[q]
      /\ \A q \in Requests : rq[q].pc # "idle" => rq[q].email \in Emails
  BY <1>0, BusyRequest, FinishTyped DEF RequestFact
<1>2. invite'[e].status = "PENDING" /\ \A d \in Emails \ {e} : invite'[d] = invite[d]
  <2>1. invite[e] \in Invite
    BY <1>0, <1>1
  <2>2. [invite[e] EXCEPT !.status = "PENDING", !.has = TRUE].status = "PENDING"
    BY <2>1, InviteUpdates
  <2> QED BY <1>0, <1>1, <2>2
<1>3. \/ e \in early
      \/ ~IsMember(e) /\ \A q \in Requests : Answering(q) => rq[q].email # e
  BY <1>0 DEF Facts, CreatedAlone
<1>4. \A d \in Emails : invite[d].status # "NONE" => invite'[d].status # "NONE"
  BY <1>2
<1>5. \A q \in Requests : /\ Creating(q)' => q # r /\ Creating(q)
                          /\ Answering(q)' => q # r /\ Answering(q)
                          /\ Accepting(q)' => Accepting(q)
                          /\ q # r => rq'[q] = rq[q]
                          /\ Creating(q) \/ Answering(q) => rq[q].email \in Emails
                          /\ Accepting(q) => Answering(q)
  BY <1>1 DEF Creating, Answering, Accepting, At, NoRequest
<1>6. OneOwner'
  BY <1>0 DEF Facts, OneOwner
<1>7. NoPendingMember'
  BY <1>0, <1>2, <1>3 DEF Facts, NoPendingMember, IsMember
<1>8. OneCreator'
  BY <1>4, <1>5 DEF Facts, OneCreator
<1>9. CreatedAlone'
  <2> SUFFICES ASSUME NEW q \in Requests, Creating(q)', rq'[q].email \notin early'
               PROVE  /\ member'[rq'[q].email] = "NONE"
                      /\ \A p \in Requests : Answering(p)' => rq'[p].email # rq'[q].email
    BY DEF CreatedAlone, IsMember
  <2>1. Creating(q) /\ rq'[q] = rq[q] /\ rq[q].email \notin early
    BY <1>0, <1>5
  <2>2. /\ ~IsMember(rq[q].email)
        /\ \A p \in Requests : Answering(p) => rq[p].email # rq[q].email
    BY <2>1 DEF Facts, CreatedAlone
  <2> QED BY <1>0, <1>5, <2>1, <2>2 DEF IsMember
<1>10. InviteFirst'
  BY <1>0, <1>4 DEF Facts, InviteFirst, IsMember
<1>11. RequestFacts'
  <2>1. RequestFact(r)'
    BY <1>1, Finished DEF Moved
  <2>2. ASSUME NEW q \in Requests \ {r} PROVE RequestFact(q)'
    <3>1. RequestFact(q) /\ rq'[q] = rq[q]
      BY <1>1 DEF Facts, RequestFacts
    <3>2. Answering(q)' => invite'[rq'[q].email].status # "NONE"
      BY <1>4, <1>5, <3>1 DEF RequestFact
    <3>3. ASSUME Accepting(q)', rq'[q].email \notin early'
          PROVE  invite'[rq'[q].email].status \in Settled
      <4>1. /\ Accepting(q) /\ Answering(q) /\ rq[q].email \in Emails
            /\ rq[q].email \notin early
        BY <1>0, <1>5, <3>1, <3>3
      <4>2. rq[q].email # e
        BY <1>3, <4>1
      <4> QED BY <1>2, <3>1, <4>1, <4>2 DEF RequestFact
    <3> QED BY <3>1, <3>2, <3>3 DEF RequestFact, At
  <2> QED BY <2>1, <2>2 DEF RequestFacts
<1> QED BY <1>6, <1>7, <1>8, <1>9, <1>10, <1>11 DEF Facts

\* Members come by an invite that was settled, or answered early, and leave without a
\* trace in the invites.
LEMMA MemberFacts ==
  ASSUME TypeOK, Facts, NEW r \in Requests, Join(r) \/ ChangeRole(r) \/ Remove(r) PROVE Facts'
<1> DEFINE e == rq[r].email
<1>0. /\ RequestFact(r) /\ e \in Emails /\ rq[r].role \in Grantable
      /\ rq'[r] = NoRequest /\ \A q \in Requests \ {r} : rq'[q] = rq[q]
      /\ UNCHANGED <<invite, early>> /\ member[Owner] = "OWNER"
      /\ member \in [Emails -> {"NONE", "OWNER", "ADMIN", "MEMBER"}]
      /\ \A q \in Requests : rq[q].pc # "idle" => rq[q].email \in Emails
  BY BusyRequest, FinishTyped
  DEF Join, ChangeRole, Remove, At, Facts, RequestFacts, OneOwner, TypeOK
<1>1. /\ \A d \in Emails \ {e} : member'[d] = member[d]
      /\ member'[e] \in {member[e], "NONE", "ADMIN", "MEMBER"}
      /\ member'[e] # "NONE" =>
           \/ IsMember(e)
           \/ /\ Answering(r) /\ invite[e].status # "NONE"
              /\ e \in early \/ invite[e].status \in Settled
      /\ e = Owner => member'[e] = member[e]
  <2>1. CASE Join(r)
    BY <1>0, <2>1 DEF Join, At, Accepting, Answering, RequestFact, IsMember, Grantable
  <2>2. CASE ChangeRole(r)
    BY <1>0, <2>2 DEF ChangeRole, At, RequestFact, IsMember, Grantable
  <2>3. CASE Remove(r)
    BY <1>0, <2>3 DEF Remove, At, RequestFact, IsMember
  <2> QED BY <2>1, <2>2, <2>3
<1>2. OneOwner'
  BY <1>0, <1>1, MembershipAssumption DEF MembershipAssumption, Facts, OneOwner
<1>3. NoPendingMember' /\ InviteFirst'
  <2>1. \A d \in Emails \ {Owner} : member'[d] # "NONE" =>
          /\ invite[d].status # "NONE"
          /\ d \in early \/ invite[d].status \in Settled
    BY <1>0, <1>1 DEF Facts, NoPendingMember, InviteFirst, IsMember
  <2> QED BY <1>0, <2>1 DEF NoPendingMember, InviteFirst, IsMember
<1>4. \A q \in Requests : /\ Creating(q)' => Creating(q) /\ rq'[q] = rq[q] /\ rq[q].email \in Emails
                          /\ Answering(q)' => Answering(q) /\ rq'[q] = rq[q]
  BY <1>0 DEF Creating, Answering, Accepting, At, NoRequest
<1>5. OneCreator'
  BY <1>0, <1>4 DEF Facts, OneCreator
<1>6. CreatedAlone'
  <2> SUFFICES ASSUME NEW q \in Requests, Creating(q)', rq'[q].email \notin early'
               PROVE  /\ member'[rq'[q].email] = "NONE"
                      /\ \A p \in Requests : Answering(p)' => rq'[p].email # rq'[q].email
    BY DEF CreatedAlone, IsMember
  <2>1. Creating(q) /\ rq'[q] = rq[q] /\ rq[q].email \notin early /\ rq[q].email \in Emails
    BY <1>0, <1>4
  <2>2. /\ ~IsMember(rq[q].email)
        /\ \A p \in Requests : Answering(p) => rq[p].email # rq[q].email
    BY <2>1 DEF Facts, CreatedAlone
  <2>3. member'[rq[q].email] = "NONE"
    BY <1>1, <2>1, <2>2 DEF IsMember
  <2> QED BY <1>4, <2>1, <2>2, <2>3 DEF IsMember
<1>7. RequestFacts'
  <2>1. RequestFact(r)'
    BY <1>0, Finished DEF Moved
  <2>2. ASSUME NEW q \in Requests \ {r} PROVE RequestFact(q)'
    BY <1>0 DEF Facts, RequestFacts, RequestFact, At, Accepting, Answering
  <2> QED BY <2>1, <2>2 DEF RequestFacts
<1> QED BY <1>2, <1>3, <1>5, <1>6, <1>7 DEF Facts

LEMMA RequestFaultFacts ==
  ASSUME TypeOK, Facts, NEW r \in Requests, RequestFault(r) PROVE Facts'
<1>0. rq[r].pc # "idle" /\ UNCHANGED <<member, invite, early>> /\ RequestFact(r)
  BY DEF RequestFault, At, tables, Facts, RequestFacts
<1>1. CASE Finish(r)
  <2>1. Moved(r) /\ \A q \in Requests \ {r} : rq'[q] = rq[q]
    BY <1>1, FinishTyped, Finished
  <2> QED BY <1>0, <2>1, SettlingSteps
<1>2. CASE At(r, "cancelJob") /\ Goto(r, rq[r].next)
  <2>1. /\ rq[r].next \in {"revoke", "accept"} /\ rq[r].next \in RequestPC
        /\ rq[r].next = "accept" => invite[rq[r].email].status # "NONE"
    BY <1>0, <1>2, BusyRequest DEF RequestFact, At, RequestPC, Answering
  <2>2. /\ rq'[r].pc = rq[r].next /\ rq'[r].email = rq[r].email
        /\ \A q \in Requests \ {r} : rq'[q] = rq[q]
    BY <1>0, <1>2, <2>1, GotoTyped
  <2>3. Moved(r)
    BY <1>0, <1>2, <2>1, <2>2 DEF Moved, RequestFact, Creating, At, Accepting, Answering
  <2> QED BY <1>0, <2>2, <2>3, SettlingSteps
<1> QED BY <1>1, <1>2 DEF RequestFault

LEMMA StartFacts ==
  ASSUME TypeOK, Facts, NEW r \in Requests, NEW e \in Emails, Start(r, e) PROVE Facts'
<1>1. PICK pc \in RequestPC, role \in Grantable, full \in BOOLEAN,
           next \in {"idle", "revoke", "accept"} : Begun(r, e, pc, role, full, next)
  BY Beginnings
<1>2. /\ rq'[r].pc = pc /\ rq'[r].email = e /\ rq'[r].next = next
      /\ \A q \in Requests \ {r} : rq'[q] = rq[q]
  BY <1>1, BeginTyped DEF Begun
<1>3. UNCHANGED <<member, invite>> /\ early \subseteq early'
  BY <1>1 DEF Begun, tables
<1>4. Answering(r)' <=> Accepts(pc, next)
  BY <1>1, <1>2 DEF Begun, Answering, Accepts, Accepting, At
<1>5. Moved(r)
  BY <1>1, <1>2, <1>3, <1>4 DEF Begun, Moved, RequestFact, Creating, At, Accepting
<1> QED BY <1>2, <1>3, <1>5, SettlingSteps

\* The worker, the world and the crashes.
LEMMA OtherFacts ==
  ASSUME TypeOK, Facts,
         \/ Worker \/ JobFault \/ CrashServer \/ CrashWorker
         \/ \E e \in Emails : Register(e) \/ PassExpiry(e)
  PROVE  Facts'
<1>1. CASE Expire
  <2>1. \A e \in Emails : \/ invite'[e].status = invite[e].status
                          \/ invite'[e].status \in Settled
    BY <1>1 DEF Expire, TypeOK, Invite, Settled
  <2> QED BY <1>1, <2>1, SettlingSteps DEF Expire
<1>2. CASE CrashServer
  <2>1. \A q \in Requests : Moved(q)
    BY <1>2, Finished DEF CrashServer
  <2> QED BY <1>2, <2>1, SettlingSteps DEF CrashServer, tables
<1>3. ASSUME UNCHANGED <<member, invite, early, rq>> PROVE Facts'
  BY <1>3, SettlingSteps
<1>4. CASE ReadInvite \/ \E e \in Emails : StartExpiry(e)
  BY <1>3, <1>4 DEF ReadInvite, StartExpiry, tables
<1>5. CASE JobFault \/ CrashWorker
  BY <1>3, <1>5 DEF JobFault, CrashWorker, tables
<1>6. CASE \E e \in Emails : Register(e) \/ PassExpiry(e)
  BY <1>3, <1>6 DEF Register, PassExpiry, tables
<1> QED BY <1>1, <1>2, <1>4, <1>5, <1>6 DEF Worker

-----------------------------------------------------------------------------
(* The inductive invariant, and what follows from it. *)

LEMMA ConsistentNext ==
  ASSUME Consistent, [Next]_vars PROVE Consistent'
<1>1. TypeOK /\ Facts /\ RequestFacts
  BY DEF Consistent, Facts
<1>2. ASSUME NEW r \in Requests, Continue(r) PROVE TypeOK' /\ Facts'
  <2>1. TypeOK'
    BY <1>1, <1>2, RequestTypes
  <2> QED
    BY <1>1, <1>2, <2>1, QuietRequestFacts, CreateInviteFacts, SaveJobFacts, MemberFacts
    DEF Continue
<1>3. ASSUME NEW r \in Requests, RequestFault(r) PROVE TypeOK' /\ Facts'
  BY <1>1, <1>3, OtherTypes, RequestFaultFacts
<1>4. ASSUME NEW r \in Requests, NEW e \in Emails, Start(r, e) PROVE TypeOK' /\ Facts'
  BY <1>1, <1>4, OtherTypes, StartFacts
<1>5. ASSUME \/ Worker \/ JobFault \/ CrashServer \/ CrashWorker
             \/ \E e \in Emails : Register(e) \/ PassExpiry(e)
      PROVE  TypeOK' /\ Facts'
  BY <1>1, <1>5, OtherTypes, OtherFacts
<1>6. CASE UNCHANGED vars
  BY <1>6
  DEF Consistent, vars, tables, queue, TypeOK, OneOwner, NoPendingMember, IsMember, RequestFacts,
      RequestFact, At, Creating, Answering, Accepting, CreatedAlone, OneCreator, InviteFirst
<1>7. TypeOK' /\ Facts' => Consistent'
  BY DEF Consistent, Facts
<1> QED BY <1>2, <1>3, <1>4, <1>5, <1>6, <1>7 DEF Next

\* Consistent is an invariant: the claims that the requests' program counters make of
\* the tables hold in every interleaving, with every fault and crash.
THEOREM MembershipConsistent == Spec => []Consistent
<1>1. Init => Consistent
  BY InitTypes, InitFacts DEF Consistent, Facts
<1>2. Consistent /\ [Next]_vars => Consistent'
  BY ConsistentNext
<1> QED BY <1>1, <1>2, PTL DEF Spec

\* Every variable of Membership keeps its type.
THEOREM MembershipTypes == Spec => []TypeOK
<1>1. Consistent => TypeOK
  BY DEF Consistent
<1> QED BY <1>1, MembershipConsistent, PTL

\* No interleaving of invites, role changes and removals leaves the workspace without
\* its owner or with a second one.
THEOREM AlwaysOneOwner == Spec => []OneOwner
<1>1. Consistent => OneOwner
  BY DEF Consistent
<1> QED BY <1>1, MembershipConsistent, PTL

\* Nobody is a member and has a pending invite at the same time, unless the acceptance
\* was begun before createInvite had ended.
THEOREM NeverPendingMember == Spec => []NoPendingMember
<1>1. Consistent => NoPendingMember
  BY DEF Consistent
<1> QED BY <1>1, MembershipConsistent, PTL
=============================================================================

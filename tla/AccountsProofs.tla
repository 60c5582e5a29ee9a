--------------------------- MODULE AccountsProofs ---------------------------
(***************************************************************************)
(* Proofs about Accounts: the inductive invariant Consistent in four parts *)
(* (types, registration, outcomes, sessions), and from it that             *)
(* workspaces are apart, that a registration completes, that the stored    *)
(* token is delivered and that what was revoked stays revoked.             *)
(***************************************************************************)
EXTENDS Accounts, TLAPS

\* The four parts of Consistent.
Tokens == UsersFirst /\ OneRegistration /\ OwnToken /\ WorkspacesApart
Outcomes == FoundFree /\ TokenDelivered /\ RegistrationComplete
Sessions == Distinct /\ RevokedKnown /\ RevokedStaysRevoked
Sound == TypeOK /\ Bounded

LEMMA Parts == Consistent <=> Sound /\ Tokens /\ Outcomes /\ Sessions
BY DEF Consistent, Sound, Tokens, Outcomes, Sessions

-----------------------------------------------------------------------------
(* Types and bounds. *)

LEMMA NoRequestType == NoRequest \in Request /\ NoSession \in SessionType
BY DEF NoRequest, NoSession, Request, SessionType, Pcs, Kinds

\* What Begin, Carry, Goto and Done make of a request.
LEMMA RequestTyped ==
  ASSUME TypeOK, NEW r \in Requests
  PROVE  /\ \A pc \in Pcs : Goto(r, pc) => rq' \in [Requests -> Request]
         /\ Done(r) => rq' \in [Requests -> Request]
         /\ \A pc \in Pcs, t \in Nat : Carry(r, pc, t) => rq' \in [Requests -> Request]
         /\ \A pc \in Pcs, e \in Emails, k \in Kinds, t \in Nat, s \in SessionType :
              Begin(r, pc, e, k, t, s) => rq' \in [Requests -> Request]
<1>1. \A pc \in Pcs : Goto(r, pc) => rq' \in [Requests -> Request]
  BY DEF TypeOK, Goto, Request
<1>2. Done(r) => rq' \in [Requests -> Request]
  BY NoRequestType DEF TypeOK, Done
<1>3. \A pc \in Pcs, t \in Nat : Carry(r, pc, t) => rq' \in [Requests -> Request]
  BY DEF TypeOK, Carry, Request
<1>4. \A pc \in Pcs, e \in Emails, k \in Kinds, t \in Nat, s \in SessionType :
              Begin(r, pc, e, k, t, s) => rq' \in [Requests -> Request]
  BY DEF TypeOK, Begin, Request
<1> QED BY <1>1, <1>2, <1>3, <1>4

LEMMA StartTyped ==
  ASSUME TypeOK, NEW r \in Requests, Start(r) PROVE TypeOK'
<1> USE RequestTyped, NoRequestType
<1>1. PICK e \in Emails :
        \/ StartRegister(r, e) \/ StartResend(r, e) \/ StartForget(r, e)
        \/ StartLogin(r, e) \/ StartRefresh(r, e) \/ StartAccept(r, e)
        \/ \E kind \in Kinds : StartUse(r, kind, e)
  BY DEF Start
<1>2. UnchangedBut_rq
  BY <1>1 DEF StartRegister, StartResend, StartForget, StartLogin, StartRefresh, StartAccept, StartUse
<1>3. rq' \in [Requests -> Request]
  <2>1. CASE StartRegister(r, e) \/ StartResend(r, e) \/ StartForget(r, e) \/ StartAccept(r, e)
    BY <2>1 DEF StartRegister, StartResend, StartForget, StartAccept, Pcs, Kinds
  <2>2. CASE StartLogin(r, e)
    <3>1. [id |-> 0, login |-> 0, pw |-> password[e]] \in SessionType
      BY DEF TypeOK, SessionType
    <3> QED BY <2>2, <3>1 DEF StartLogin, Pcs, Kinds
  <2>3. CASE StartRefresh(r, e)
    <3>1. session[e] \in SessionType
      BY DEF TypeOK
    <3> QED BY <2>3, <3>1 DEF StartRefresh, Pcs, Kinds
  <2>4. CASE \E kind \in Kinds : StartUse(r, kind, e)
    <3>1. ASSUME NEW kind \in Kinds, StartUse(r, kind, e) PROVE rq' \in [Requests -> Request]
      <4>1. token[kind, e] \in Nat /\ kind \in Pcs
        BY DEF TypeOK, Pcs, Kinds
      <4>2. Begin(r, kind, e, kind, token[kind, e], NoSession)
        BY <3>1 DEF StartUse
      <4> QED BY <4>1, <4>2
    <3> QED BY <2>4, <3>1
  <2> QED BY <1>1, <2>1, <2>2, <2>3, <2>4
<1> QED BY <1>2, <1>3 DEF UnchangedBut_rq, rows, history, TypeOK

LEMMA StepTyped ==
  ASSUME TypeOK, UsersFirst, NEW r \in Requests, RequestStep(r) PROVE TypeOK'
<1> DEFINE q == rq[r]
<1> DEFINE e == rq[r].email
<1>1. q \in Request /\ Fresh \in Nat
  BY DEF TypeOK, Fresh
<1>2. q.token \in Nat /\ q.slug \in Nat /\ q.kind \in Kinds /\ q.session \in SessionType
  BY <1>1 DEF Request
<1>3. q.pc # "idle" => e \in Emails
  BY DEF UsersFirst, At
<1>4. /\ Done(r) => rq' \in [Requests -> Request]
      /\ Goto(r, "workspace") \/ Goto(r, "mail") \/ Goto(r, "store") => rq' \in [Requests -> Request]
      /\ Carry(r, "slug", Fresh) \/ Carry(r, "mail", Fresh) \/ Carry(r, "cool", Fresh)
            => rq' \in [Requests -> Request]
  BY <1>1, RequestTyped DEF Pcs
<1>5. CASE CreateUser(r)
  <2>1. CASE Done(r) /\ UNCHANGED <<rows, drawn>>
    BY <1>4, <1>5, <2>1 DEF CreateUser, rows, history, TypeOK
  <2>2. CASE Draw /\ Carry(r, "slug", Fresh)
    <3>1. rq' \in [Requests -> Request] /\ e \in Emails /\ drawn' \in Nat
      BY <1>1, <1>3, <1>4, <1>5, <2>2 DEF CreateUser, At, Draw
    <3> QED BY <1>1, <1>5, <2>2, <3>1 DEF CreateUser, rows, history, TypeOK, Kinds
  <2> QED BY <1>5, <2>1, <2>2 DEF CreateUser
<1>6. CASE FindSlug(r)
  <2>1. rq' \in [Requests -> Request]
    BY <1>1, <1>2, <1>4, <1>6 DEF FindSlug, TypeOK, Request
  <2>2. Found(r) \in [email : Emails, slug : Nat, token : Nat]
    BY <1>2, <1>3, <1>6 DEF FindSlug, At, Found
  <2> QED BY <1>6, <2>1, <2>2 DEF FindSlug, rows, TypeOK
<1>7. CASE CreateWorkspace(r)
  <2>1. [slug |-> q.slug, owner |-> e] \in [slug : Nat, owner : Emails]
    BY <1>2, <1>3, <1>7 DEF CreateWorkspace, At
  <2> QED BY <1>4, <1>7, <2>1 DEF CreateWorkspace, rows, history, TypeOK
<1>8. CASE Mail(r)
  BY <1>2, <1>4, <1>8 DEF Mail, rows, history, TypeOK
<1>9. CASE CheckCooldown(r)
  BY <1>4, <1>9 DEF CheckCooldown, rows, history, TypeOK
<1>10. CASE StoreToken(r)
  BY <1>1, <1>4, <1>10 DEF StoreToken, Draw, history, TypeOK
<1>11. CASE SetCooldown(r)
  <2>1. <<q.kind, e>> \in Kinds \X Emails
    BY <1>2, <1>3, <1>11 DEF SetCooldown, At
  <2> QED BY <1>4, <1>11, <2>1 DEF SetCooldown, rows, history, TypeOK
<1>12. CASE Verify(r)
  BY <1>3, <1>4, <1>12 DEF Verify, At, history, TypeOK
<1>13. CASE Reset(r)
  <2>1. password[e] \in Nat /\ session[e].login \in Nat
    BY <1>3, <1>13 DEF Reset, At, TypeOK, SessionType
  <2> QED BY <1>1, <1>4, <1>13, <2>1, NoRequestType DEF Reset, Draw, Revoke, TypeOK
<1>14. CASE SetUp(r)
  BY <1>1, <1>4, <1>14 DEF SetUp, Draw, history, TypeOK
<1>15. CASE StoreSession(r)
  <2>1. session[e].login \in Nat
    BY <1>3, <1>15 DEF StoreSession, TypeOK, SessionType
  <2>2. [id |-> Fresh, login |-> Fresh, pw |-> q.session.pw] \in SessionType
    BY <1>1, <1>2 DEF SessionType
  <2> QED BY <1>1, <1>4, <1>15, <2>1, <2>2 DEF StoreSession, Draw, Revoke, TypeOK
<1>16. CASE Rotate(r)
  <2>1. [id |-> Fresh, login |-> q.session.login, pw |-> q.session.pw] \in SessionType
    BY <1>1, <1>2 DEF SessionType
  <2> QED BY <1>1, <1>4, <1>16, <2>1 DEF Rotate, Draw, history, TypeOK
<1>17. CASE CreateGuest(r)
  <2>1. CASE Done(r) /\ UNCHANGED <<rows, drawn, guests>>
    BY <1>4, <1>17, <2>1 DEF CreateGuest, rows, TypeOK
  <2>2. CASE Draw /\ Carry(r, "mail", Fresh)
    <3>1. rq' \in [Requests -> Request] /\ e \in Emails /\ drawn' \in Nat
      BY <1>1, <1>3, <1>4, <1>17, <2>2 DEF CreateGuest, At, Draw
    <3>2. \/ UNCHANGED <<rows, guests>>
          \/ /\ users' = users \cup {e} /\ verified' = verified \cup {e} /\ guests' = guests \cup {e}
             /\ password' = [password EXCEPT ![e] = Fresh]
             /\ token' = [token EXCEPT ![<<"setup", e>>] = Fresh]
             /\ UNCHANGED session
      BY <1>17 DEF CreateGuest
    <3>3. UNCHANGED <<workspaces, cooling, mailed, revoked, outlived, found, cut, failures>>
      BY <1>17 DEF CreateGuest
    <3> QED BY <1>1, <3>1, <3>2, <3>3 DEF rows, TypeOK, Kinds
  <2> QED BY <1>17, <2>1, <2>2 DEF CreateGuest
<1> QED BY <1>5, <1>6, <1>7, <1>8, <1>9, <1>10, <1>11, <1>12, <1>13, <1>14, <1>15, <1>16, <1>17
        DEF RequestStep

LEMMA NextTyped == TypeOK /\ UsersFirst /\ [Next]_vars => TypeOK'
<1> SUFFICES ASSUME TypeOK, UsersFirst, [Next]_vars PROVE TypeOK'
  OBVIOUS
<1>1. CASE \E r \in Requests : Start(r) \/ RequestStep(r)
  BY <1>1, StartTyped, StepTyped
<1>6. ASSUME NEW S \in SUBSET Requests, Cut(S) PROVE cut' \subseteq Cuts
  <2>1. ASSUME NEW q \in Requests, rq[q].pc \in {"slug", "workspace", "cool", "mail"}
        PROVE  Lost(q) \in Cuts
    <3>1. rq[q].email \in Emails /\ rq[q].token \in Nat
      BY <2>1 DEF UsersFirst, At, TypeOK, Request
    <3>2. (rq[q].pc \in {"slug", "workspace"}) \in BOOLEAN
      OBVIOUS
    <3> QED BY <3>1, <3>2 DEF Lost, Cuts
  <2> QED BY <1>6, <2>1 DEF Cut, TypeOK
<1>2. CASE \E r \in Requests : Fault(r)
  <2>1. rq' \in [Requests -> Request] /\ cut' \subseteq Cuts
    BY <1>2, <1>6, RequestTyped DEF Fault
  <2> QED BY <1>2, <2>1 DEF Fault, rows, TypeOK
<1>3. CASE \E e \in Emails : Logout(e)
  <2>1. PICK e \in Emails : Logout(e)
    BY <1>3
  <2>2. /\ UNCHANGED <<users, verified, password, token, workspaces, cooling, mailed, drawn, rq, failures>>
        /\ UNCHANGED <<guests, found, cut>>
        /\ session' = [session EXCEPT ![e] = NoSession]
        /\ revoked' \subseteq revoked \cup {session[e].login}
        /\ outlived' \subseteq outlived \cup {session[e].login}
    BY <2>1 DEF Logout, Revoke
  <2>3. session[e].login \in Nat /\ session' \in [Emails -> SessionType]
    BY <2>2, NoRequestType DEF TypeOK, SessionType
  <2> QED BY <2>2, <2>3 DEF TypeOK
<1>4. CASE Crash
  BY <1>4, <1>6, NoRequestType DEF Crash, rows, TypeOK
<1>5. CASE UNCHANGED vars
  BY <1>5 DEF vars, rows, history, TypeOK
<1> QED BY <1>1, <1>2, <1>3, <1>4, <1>5 DEF Next

-----------------------------------------------------------------------------
(* Bounds. *)

RequestsBelow(f, n) ==
  \A r \in Requests : /\ f[r].token <= n
                      /\ f[r].session.login <= n /\ f[r].session.pw <= n
RowsBelow(n) ==
  /\ \A x \in Kinds \X Emails : token[x] <= n
  /\ \A e \in Emails : password[e] <= n /\ session[e].login <= n /\ session[e].pw <= n

LEMMA BoundedParts ==
  Bounded <=> RowsBelow(drawn) /\ RequestsBelow(rq, drawn) /\ \A c \in revoked : c <= drawn
BY DEF Bounded, RowsBelow, RequestsBelow

LEMMA Drawing == TypeOK => Fresh \in Nat /\ drawn \in Nat /\ drawn <= Fresh /\ 0 <= drawn
BY DEF TypeOK, Fresh

\* What Begin, Carry, Goto and Done make of the bounds of the requests.
LEMMA RequestBelow ==
  ASSUME Sound, NEW r \in Requests
  PROVE  \A n \in Nat : drawn <= n =>
         /\ \A pc \in Pcs : Goto(r, pc) => RequestsBelow(rq', n)
         /\ Done(r) => RequestsBelow(rq', n)
         /\ \A pc \in Pcs, t \in 0..n : Carry(r, pc, t) => RequestsBelow(rq', n)
         /\ \A pc \in Pcs, e \in Emails, k \in Kinds, t \in 0..n, s \in SessionType :
              Begin(r, pc, e, k, t, s) /\ s.login <= n /\ s.pw <= n => RequestsBelow(rq', n)
         /\ UNCHANGED rq => RequestsBelow(rq', n)
<1> SUFFICES ASSUME NEW n \in Nat, drawn <= n
             PROVE  /\ \A pc \in Pcs : Goto(r, pc) => RequestsBelow(rq', n)
                    /\ Done(r) => RequestsBelow(rq', n)
                    /\ \A pc \in Pcs, t \in 0..n : Carry(r, pc, t) => RequestsBelow(rq', n)
                    /\ \A pc \in Pcs, e \in Emails, k \in Kinds, t \in 0..n, s \in SessionType :
                         Begin(r, pc, e, k, t, s) /\ s.login <= n /\ s.pw <= n => RequestsBelow(rq', n)
                    /\ UNCHANGED rq => RequestsBelow(rq', n)
  OBVIOUS
<1>1. drawn \in Nat /\ rq \in [Requests -> Request]
  BY DEF Sound, TypeOK
<1>2. \A q \in Requests : /\ rq[q].token \in Nat /\ rq[q].session.login \in Nat /\ rq[q].session.pw \in Nat
                           /\ rq[q].token <= n /\ rq[q].session.login <= n /\ rq[q].session.pw <= n
  BY <1>1 DEF Sound, Bounded, Request, SessionType
<1>3. \A pc \in Pcs : Goto(r, pc) => RequestsBelow(rq', n)
  BY <1>1, <1>2 DEF Goto, RequestsBelow, Request
<1>4. Done(r) => RequestsBelow(rq', n)
  BY <1>1, <1>2 DEF Done, RequestsBelow, NoRequest, NoSession
<1>5. \A pc \in Pcs, t \in 0..n : Carry(r, pc, t) => RequestsBelow(rq', n)
  BY <1>1, <1>2 DEF Carry, RequestsBelow
<1>6. \A pc \in Pcs, e \in Emails, k \in Kinds, t \in 0..n, s \in SessionType :
        Begin(r, pc, e, k, t, s) /\ s.login <= n /\ s.pw <= n => RequestsBelow(rq', n)
  BY <1>1, <1>2 DEF Begin, RequestsBelow
<1>7. UNCHANGED rq => RequestsBelow(rq', n)
  BY <1>2 DEF RequestsBelow
<1> QED BY <1>3, <1>4, <1>5, <1>6, <1>7

LEMMA StartBounded ==
  ASSUME Sound, NEW r \in Requests, Start(r) PROVE Bounded'
<1>1. PICK e \in Emails :
        \/ StartRegister(r, e) \/ StartResend(r, e) \/ StartForget(r, e)
        \/ StartLogin(r, e) \/ StartRefresh(r, e) \/ StartAccept(r, e)
        \/ \E kind \in Kinds : StartUse(r, kind, e)
  BY DEF Start
<1>2. UnchangedBut_rq
  BY <1>1 DEF StartRegister, StartResend, StartForget, StartLogin, StartRefresh, StartAccept, StartUse
<1>3. /\ drawn \in Nat /\ drawn <= drawn /\ 0 \in 0..drawn
      /\ NoSession \in SessionType /\ NoSession.login <= drawn /\ NoSession.pw <= drawn
  BY NoRequestType DEF Sound, TypeOK, NoSession
<1>4. RequestsBelow(rq', drawn)
  <2>1. CASE StartRegister(r, e) \/ StartResend(r, e) \/ StartForget(r, e) \/ StartAccept(r, e)
    BY <1>3, <2>1, RequestBelow DEF StartRegister, StartResend, StartForget, StartAccept, Pcs, Kinds
  <2>2. CASE StartLogin(r, e)
    <3>1. [id |-> 0, login |-> 0, pw |-> password[e]] \in SessionType /\ password[e] <= drawn
      BY DEF Sound, TypeOK, Bounded, SessionType
    <3> QED BY <1>3, <2>2, <3>1, RequestBelow DEF StartLogin, Pcs, Kinds
  <2>3. CASE StartRefresh(r, e)
    <3>1. session[e] \in SessionType /\ session[e].login <= drawn /\ session[e].pw <= drawn
      BY DEF Sound, TypeOK, Bounded
    <3> QED BY <1>3, <2>3, <3>1, RequestBelow DEF StartRefresh, Pcs, Kinds
  <2>4. CASE \E kind \in Kinds : StartUse(r, kind, e)
    <3>1. \A x \in Kinds \X Emails : token[x] \in 0..drawn
      BY <1>3 DEF Sound, TypeOK, Bounded
    <3>2. ASSUME NEW kind \in Kinds, StartUse(r, kind, e) PROVE RequestsBelow(rq', drawn)
      <4>1. token[kind, e] \in 0..drawn /\ kind \in Pcs
        BY <3>1 DEF Pcs, Kinds
      <4>2. Begin(r, kind, e, kind, token[kind, e], NoSession)
        BY <3>2 DEF StartUse
      <4> QED BY <1>3, <4>1, <4>2, RequestBelow
    <3> QED BY <2>4, <3>2
  <2> QED BY <1>1, <2>1, <2>2, <2>3, <2>4
<1>5. UNCHANGED <<token, password, session, drawn, revoked>>
  BY <1>2 DEF UnchangedBut_rq, rows, history
<1> QED BY <1>4, <1>5 DEF Sound, Bounded, RequestsBelow

\* What is new in the rows is behind the new counter.
BoundedStep ==
  /\ drawn' = drawn \/ drawn' = Fresh
  /\ RequestsBelow(rq', drawn')
  /\ \A x \in Kinds \X Emails : token'[x] = token[x] \/ token'[x] <= drawn'
  /\ \A f \in Emails : password'[f] = password[f] \/ password'[f] <= drawn'
  /\ \A f \in Emails :
       session'[f] = session[f] \/ (session'[f].login <= drawn' /\ session'[f].pw <= drawn')
  /\ \A c \in revoked' : c \in revoked \/ c \in 0..drawn

LEMMA BoundedFrame ==
  ASSUME Sound, BoundedStep PROVE Bounded'
<1> USE DEF BoundedStep
<1>1. TypeOK /\ Fresh \in Nat /\ drawn \in Nat /\ drawn <= Fresh
  BY Drawing DEF Sound
<1>2. drawn' \in Nat /\ drawn <= drawn'
  BY <1>1
<1>3. \A x \in Kinds \X Emails : token[x] \in Nat /\ token[x] <= drawn
  BY <1>1 DEF Sound, Bounded, TypeOK
<1>4. \A f \in Emails : /\ password[f] \in Nat /\ session[f].login \in Nat /\ session[f].pw \in Nat
                         /\ password[f] <= drawn /\ session[f].login <= drawn /\ session[f].pw <= drawn
  BY <1>1 DEF Sound, Bounded, TypeOK, SessionType
<1>5. \A x \in Kinds \X Emails : token'[x] <= drawn'
  BY <1>1, <1>2, <1>3
<1>6. \A f \in Emails : password'[f] <= drawn' /\ session'[f].login <= drawn' /\ session'[f].pw <= drawn'
  BY <1>1, <1>2, <1>4
<1>7. \A c \in revoked' : c <= drawn'
  <2>1. \A c \in revoked : c \in Nat /\ c <= drawn
    BY <1>1 DEF Sound, Bounded, TypeOK
  <2> QED BY <1>1, <1>2, <2>1
<1> QED BY <1>5, <1>6, <1>7 DEF Bounded, RequestsBelow

LEMMA StepBounded ==
  ASSUME Sound, UsersFirst, NEW r \in Requests, RequestStep(r) PROVE BoundedStep
<1> DEFINE e == rq[r].email
<1>1. TypeOK /\ Fresh \in Nat /\ drawn \in Nat /\ drawn <= Fresh /\ drawn <= drawn /\ Fresh \in 0..Fresh
  BY Drawing DEF Sound
<1>2. rq[r].pc # "idle" => e \in Emails
  BY DEF UsersFirst, At
<1>3. /\ \A f \in Emails : password[f] \in 0..drawn /\ session[f].login \in 0..drawn
      /\ rq[r].session.login \in 0..drawn /\ rq[r].session.pw \in 0..drawn
  BY <1>1 DEF Sound, TypeOK, Bounded, SessionType, Request
<1>4. /\ Done(r) \/ UNCHANGED rq => RequestsBelow(rq', drawn) /\ RequestsBelow(rq', Fresh)
      /\ \A pc \in Pcs : Goto(r, pc) => RequestsBelow(rq', drawn)
      /\ \A pc \in Pcs : Carry(r, pc, Fresh) => RequestsBelow(rq', Fresh)
  BY <1>1, RequestBelow
<1>5. CASE CreateUser(r)
  <2>1. CASE Done(r) /\ UNCHANGED <<rows, drawn>>
    <3>1. RequestsBelow(rq', drawn)
      BY <1>4, <2>1
    <3>2. drawn' = drawn /\ UNCHANGED <<token, password, session, revoked>>
      BY <1>5, <2>1 DEF CreateUser, rows, history
    <3>3. RequestsBelow(rq', drawn')
      BY <3>1, <3>2
    <3> QED BY <3>2, <3>3 DEF BoundedStep
  <2>2. CASE Draw /\ Carry(r, "slug", Fresh)
    <3>1. RequestsBelow(rq', drawn') /\ drawn' = Fresh
      BY <1>4, <2>2 DEF Pcs, Draw
    <3>2. /\ password' = password \/ password' = [password EXCEPT ![e] = Fresh]
          /\ token' = token \/ token' = [token EXCEPT ![<<"verify", e>>] = Fresh]
          /\ UNCHANGED <<session, revoked>>
      BY <1>5 DEF CreateUser, rows, history
    <3>3. \A f \in Emails : password'[f] = password[f] \/ password'[f] <= Fresh
      BY <1>1, <3>2 DEF TypeOK
    <3>4. \A x \in Kinds \X Emails : token'[x] = token[x] \/ token'[x] <= Fresh
      BY <1>1, <3>2 DEF TypeOK
    <3> QED BY <3>1, <3>2, <3>3, <3>4 DEF BoundedStep
  <2> QED BY <1>5, <2>1, <2>2 DEF CreateUser
<1>6. CASE FindSlug(r)
  <2>1. RequestsBelow(rq', drawn)
    BY <1>1, <1>4, <1>6 DEF FindSlug, Pcs, RequestsBelow, Sound, Bounded, TypeOK, Request
  <2> QED BY <1>6, <2>1 DEF BoundedStep, FindSlug, UnchangedBut_rq, rows, history
<1>7. CASE CreateWorkspace(r) \/ Mail(r) \/ CheckCooldown(r) \/ SetCooldown(r) \/ Verify(r)
  <2>1. RequestsBelow(rq', drawn)
    BY <1>4, <1>7 DEF CreateWorkspace, Mail, CheckCooldown, SetCooldown, Verify, Pcs
  <2>2. UNCHANGED <<password, session, drawn, revoked>>
    BY <1>7 DEF CreateWorkspace, Mail, CheckCooldown, SetCooldown, Verify, rows, history
  <2>3. token' = token \/ token' = [token EXCEPT ![<<"verify", e>>] = 0]
    BY <1>7 DEF CreateWorkspace, Mail, CheckCooldown, SetCooldown, Verify, rows
  <2> QED BY <1>1, <2>1, <2>2, <2>3 DEF BoundedStep, TypeOK
<1>8. CASE StoreToken(r)
  <2>1. RequestsBelow(rq', drawn') /\ drawn' = Fresh
    BY <1>4, <1>8 DEF StoreToken, Pcs, Draw
  <2>2. UNCHANGED <<password, session, revoked>> /\ token' = [token EXCEPT ![<<rq[r].kind, e>>] = Fresh]
    BY <1>8 DEF StoreToken, history
  <2> QED BY <1>1, <2>1, <2>2 DEF BoundedStep, TypeOK
<1>9. CASE Reset(r) \/ SetUp(r) \/ StoreSession(r) \/ Rotate(r)
  <2>1. RequestsBelow(rq', drawn') /\ drawn' = Fresh
    BY <1>4, <1>9 DEF Reset, SetUp, StoreSession, Rotate, Draw
  <2>2. e \in Emails
    BY <1>2, <1>9 DEF Reset, SetUp, StoreSession, Rotate, At
  <2>3. \A c \in revoked' : c \in revoked \/ c \in 0..drawn
    BY <1>3, <1>9, <2>2 DEF Reset, SetUp, StoreSession, Rotate, Revoke, history
  <2>4. password' = password \/ password' = [password EXCEPT ![e] = Fresh]
    BY <1>9 DEF Reset, SetUp, StoreSession, Rotate
  <2>5. token' = token \/ \E k \in Kinds : token' = [token EXCEPT ![<<k, e>>] = 0]
    BY <1>9 DEF Reset, SetUp, StoreSession, Rotate, Kinds
  <2>6. \/ session' = session
        \/ session' = [session EXCEPT ![e] = NoSession]
        \/ session' = [session EXCEPT ![e] = [id |-> Fresh, login |-> Fresh, pw |-> rq[r].session.pw]]
        \/ session' = [session EXCEPT ![e] = [id |-> Fresh, login |-> rq[r].session.login,
                                              pw |-> rq[r].session.pw]]
    BY <1>9 DEF Reset, SetUp, StoreSession, Rotate
  <2>7. \A f \in Emails : session'[f] = session[f] \/ (session'[f].login <= Fresh /\ session'[f].pw <= Fresh)
    <3>1. rq[r].session.login <= Fresh /\ rq[r].session.pw <= Fresh /\ 0 <= Fresh
      BY <1>1, <1>3
    <3>2. \A f \in Emails \ {e} : session'[f] = session[f]
      BY <1>1, <2>2, <2>6 DEF TypeOK
    <3>3. session'[e] = session[e] \/ (session'[e].login <= Fresh /\ session'[e].pw <= Fresh)
      <4>1. session \in [Emails -> SessionType] /\ Fresh <= Fresh
        BY <1>1 DEF TypeOK
      <4> QED BY <2>2, <2>6, <3>1, <4>1 DEF NoSession
    <3> QED BY <3>2, <3>3
  <2>8. \A x \in Kinds \X Emails : token'[x] = token[x] \/ token'[x] <= Fresh
    <3>1. token \in [Kinds \X Emails -> Nat] /\ 0 <= Fresh
      BY <1>1 DEF TypeOK
    <3>2. ASSUME NEW k \in Kinds, token' = [token EXCEPT ![<<k, e>>] = 0]
          PROVE  \A x \in Kinds \X Emails : token'[x] = token[x] \/ token'[x] <= Fresh
      BY <3>1, <3>2
    <3> QED BY <2>5, <3>2
  <2>9. \A f \in Emails : password'[f] = password[f] \/ password'[f] <= Fresh
    BY <1>1, <2>4 DEF TypeOK
  <2> QED BY <2>1, <2>3, <2>7, <2>8, <2>9 DEF BoundedStep
<1>10. CASE CreateGuest(r)
  <2>1. CASE Done(r) /\ UNCHANGED <<rows, drawn, guests>>
    BY <1>4, <1>10, <2>1 DEF BoundedStep, CreateGuest, rows
  <2>2. CASE Draw /\ Carry(r, "mail", Fresh)
    <3>1. RequestsBelow(rq', drawn') /\ drawn' = Fresh
      BY <1>4, <2>2 DEF Pcs, Draw
    <3>2. /\ password' = password \/ password' = [password EXCEPT ![e] = Fresh]
          /\ token' = token \/ token' = [token EXCEPT ![<<"setup", e>>] = Fresh]
          /\ UNCHANGED <<session, revoked>>
      BY <1>10 DEF CreateGuest, rows
    <3>3. \A f \in Emails : password'[f] = password[f] \/ password'[f] <= Fresh
      BY <1>1, <3>2 DEF TypeOK
    <3>4. \A x \in Kinds \X Emails : token'[x] = token[x] \/ token'[x] <= Fresh
      BY <1>1, <3>2 DEF TypeOK
    <3> QED BY <3>1, <3>2, <3>3, <3>4 DEF BoundedStep
  <2> QED BY <1>10, <2>1, <2>2 DEF CreateGuest
<1> QED BY <1>5, <1>6, <1>7, <1>8, <1>9, <1>10 DEF RequestStep

LEMMA NextSound == Sound /\ UsersFirst /\ [Next]_vars => Sound'
<1> SUFFICES ASSUME Sound, UsersFirst, [Next]_vars PROVE Bounded'
  BY NextTyped DEF Sound
<1>1. TypeOK /\ drawn \in Nat /\ drawn <= drawn /\ 0 <= drawn
  BY Drawing DEF Sound
<1>2. CASE \E r \in Requests : Start(r) \/ RequestStep(r)
  BY <1>2, StartBounded, StepBounded, BoundedFrame
<1>3. ASSUME NEW r \in Requests, Fault(r) PROVE BoundedStep
  <2>1. RequestsBelow(rq', drawn)
    BY <1>1, <1>3, RequestBelow DEF Fault
  <2> QED BY <1>3, <2>1 DEF BoundedStep, Fault, rows, history
<1>4. ASSUME NEW e \in Emails, Logout(e) PROVE BoundedStep
  <2>1. RequestsBelow(rq', drawn) /\ session[e].login \in 0..drawn
    BY <1>1, <1>4 DEF Logout, RequestsBelow, Sound, Bounded, TypeOK, SessionType
  <2>2. UNCHANGED <<token, password, drawn>> /\ session' = [session EXCEPT ![e] = NoSession]
    BY <1>4 DEF Logout
  <2>3. \A f \in Emails : session'[f] = session[f] \/ (session'[f].login <= drawn /\ session'[f].pw <= drawn)
    BY <1>1, <2>2 DEF TypeOK, NoSession
  <2>4. \A c \in revoked' : c \in revoked \/ c \in 0..drawn
    BY <1>4, <2>1 DEF Logout, Revoke
  <2> QED BY <2>1, <2>2, <2>3, <2>4 DEF BoundedStep
<1>5. ASSUME Crash PROVE BoundedStep
  <2>1. RequestsBelow(rq', drawn)
    BY <1>1, <1>5 DEF Crash, RequestsBelow, NoRequest, NoSession
  <2> QED BY <1>5, <2>1 DEF BoundedStep, Crash, rows, history
<1>6. CASE UNCHANGED vars
  BY <1>6 DEF vars, rows, history, Sound, Bounded
<1> QED BY <1>2, <1>3, <1>4, <1>5, <1>6, BoundedFrame DEF Next

-----------------------------------------------------------------------------
(* Registration and tokens. *)

Holding == {"slug", "workspace", "cool", "mail"}

\* A request goes on with what it holds, or holds nothing before and after.
GoesOn(q) ==
  \/ rq'[q] = rq[q]
  \/ /\ rq[q].pc \notin Holding /\ rq'[q].pc \notin Holding
     /\ rq'[q].pc # "idle" => rq'[q].email \in Emails
     /\ rq'[q].pc \notin Starting => rq'[q].email \in users
     /\ rq'[q].pc = "create" => rq'[q].kind = "verify"
     /\ rq'[q].pc = "invite" => rq'[q].kind = "setup"
  \/ /\ rq[q].pc \in Holding /\ rq'[q].pc \in Holding
     /\ rq'[q].email = rq[q].email /\ rq'[q].kind = rq[q].kind /\ rq'[q].token = rq[q].token
     /\ rq'[q].pc \in {"slug", "workspace"} <=> rq[q].pc \in {"slug", "workspace"}
     /\ rq'[q].pc = "workspace" => Found(q)' \in found'

\* A step that neither stores a token nor adds to the tables.
Quiet ==
  /\ UNCHANGED <<users, workspaces, mailed, cut, guests>> /\ found \subseteq found'
  /\ verified' \subseteq users
  /\ \A e \in Emails : session'[e].id # 0 => e \in users
  /\ \A x \in Kinds \X Emails : token'[x] \in {token[x], 0}
  /\ \A q \in Requests : GoesOn(q)

LEMMA UsersInEmails == Sound => users \subseteq Emails
BY DEF Sound, TypeOK

LEMMA QuietTokens == ASSUME Sound, Tokens, Quiet PROVE Tokens'
<1> USE DEF Quiet, GoesOn, Holding
<1>1. UsersFirst'
  BY DEF Tokens, UsersFirst, At, Starting
<1>2. \A q \in Requests, e \in Emails : Registering(q, e)' <=> Registering(q, e)
  BY DEF Registering
<1>4. \A e \in Emails : Owns(e)' <=> Owns(e)
  BY DEF Owns
<1>5. \A k \in Kinds, e \in Emails : token[k, e] \in Nat /\ token'[k, e] \in {token[k, e], 0}
  BY DEF Sound, TypeOK
<1>6. OneRegistration'
  BY <1>2, <1>4 DEF Tokens, OneRegistration, Registering
<1>7. OwnToken'
  <2>1. ASSUME NEW q \in Requests
        PROVE  /\ rq'[q].pc = "create" => rq'[q].kind = "verify"
               /\ rq'[q].pc = "invite" => rq'[q].kind = "setup"
    BY DEF Tokens, OwnToken, At
  <2>2. ASSUME NEW q \in Requests, rq'[q].pc \in Holding, NEW k \in Kinds, NEW e \in Emails,
               rq'[q].token # 0, token'[k, e] = rq'[q].token
        PROVE  k = rq'[q].kind /\ e = rq'[q].email
    <3>1. rq[q].pc \in Holding /\ rq[q].token = rq'[q].token /\ rq[q].kind = rq'[q].kind /\ rq[q].email = rq'[q].email
      BY <2>2
    <3>2. token[k, e] = rq[q].token /\ rq[q].token # 0
      BY <1>5, <2>2, <3>1
    <3> QED BY <3>1, <3>2 DEF Tokens, OwnToken
  <2> QED BY <2>1, <2>2 DEF OwnToken, At
<1>9. WorkspacesApart'
  BY DEF Tokens, WorkspacesApart
<1> QED BY <1>1, <1>6, <1>7, <1>9 DEF Tokens

\* What Carry, Goto and Done do to the requests.
Others(r) == \A q \in Requests \ {r} : rq'[q] = rq[q]
Keeps(r) == /\ rq'[r].email = rq[r].email /\ rq'[r].kind = rq[r].kind
            /\ rq'[r].session = rq[r].session

LEMMA Moves ==
  ASSUME TypeOK, NEW r \in Requests
  PROVE  /\ \A pc \in Pcs : Goto(r, pc) =>
              Others(r) /\ Keeps(r) /\ rq'[r].pc = pc /\ rq'[r].token = rq[r].token
         /\ Done(r) => Others(r) /\ rq'[r] = NoRequest
         /\ \A pc \in Pcs, t \in Nat : Carry(r, pc, t) =>
              Others(r) /\ Keeps(r) /\ rq'[r].pc = pc /\ rq'[r].token = t
<1> USE DEF Others, Keeps
<1>1. rq \in [Requests -> Request] /\ rq[r] \in Request
  BY DEF TypeOK
<1>2. \A pc \in Pcs : Goto(r, pc) =>
        Others(r) /\ Keeps(r) /\ rq'[r].pc = pc /\ rq'[r].token = rq[r].token
  BY <1>1 DEF Goto, Request
<1>3. Done(r) => Others(r) /\ rq'[r] = NoRequest
  BY <1>1 DEF Done
<1>4. \A pc \in Pcs, t \in Nat : Carry(r, pc, t) =>
        Others(r) /\ Keeps(r) /\ rq'[r].pc = pc /\ rq'[r].token = t
  BY <1>1 DEF Carry
<1> QED BY <1>2, <1>3, <1>4

LEMMA StartQuiet == ASSUME Sound, Tokens, NEW r \in Requests, Start(r) PROVE Quiet
<1>1. PICK e \in Emails :
        \/ StartRegister(r, e) \/ StartResend(r, e) \/ StartForget(r, e)
        \/ StartLogin(r, e) \/ StartRefresh(r, e) \/ StartAccept(r, e)
        \/ \E kind \in Kinds : StartUse(r, kind, e)
  BY DEF Start
<1>2. UnchangedBut_rq
  BY <1>1 DEF StartRegister, StartResend, StartForget, StartLogin, StartRefresh, StartAccept, StartUse
<1>3. TypeOK
  BY DEF Sound
<1>5. /\ verified \subseteq users /\ \A f \in Emails : session[f].id # 0 => f \in users
      /\ \A k \in Kinds : token[k, e] # 0 => e \in users
  BY DEF Tokens, UsersFirst
<1>6. /\ Others(r) /\ rq[r].pc = "idle" /\ rq'[r].email = e /\ rq'[r].pc \notin Holding
      /\ rq'[r].pc = "create" => rq'[r].kind = "verify"
      /\ rq'[r].pc = "invite" => rq'[r].kind = "setup"
      /\ rq'[r].pc \notin Starting => e \in users
  <2> USE DEF Holding, Starting, Begin, Others, At
  <2> rq \in [Requests -> Request]
    BY <1>3 DEF TypeOK
  <2>1. CASE StartRegister(r, e)
    BY <2>1 DEF StartRegister
  <2>2. CASE StartResend(r, e) \/ StartForget(r, e)
    BY <2>2 DEF StartResend, StartForget
  <2>3. CASE StartAccept(r, e)
    BY <2>3 DEF StartAccept
  <2>4. CASE StartLogin(r, e)
    BY <1>5, <2>4 DEF StartLogin
  <2>5. CASE StartRefresh(r, e)
    BY <1>5, <2>5 DEF StartRefresh
  <2>6. ASSUME NEW kind \in Kinds, StartUse(r, kind, e)
        PROVE  /\ Others(r) /\ rq[r].pc = "idle" /\ rq'[r].email = e /\ rq'[r].pc = kind
               /\ e \in users
    BY <1>5, <2>6 DEF StartUse
  <2>7. CASE \E kind \in Kinds : StartUse(r, kind, e)
    BY <2>6, <2>7 DEF Kinds
  <2> QED BY <1>1, <2>1, <2>2, <2>3, <2>4, <2>5, <2>7
<1>7. \A q \in Requests : GoesOn(q)
  BY <1>6 DEF GoesOn, Others, Holding
<1> QED BY <1>2, <1>5, <1>7 DEF Quiet, UnchangedBut_rq, rows, history

\* The steps of a request that are quiet, and those that are not.
QuietStep(r) ==
  \/ FindSlug(r) \/ CheckCooldown(r) \/ SetCooldown(r) \/ Verify(r) \/ Reset(r) \/ SetUp(r)
  \/ StoreSession(r) \/ Rotate(r)
  \/ (CreateUser(r) /\ rq[r].email \in users) \/ (CreateGuest(r) /\ rq[r].email \in users)

LEMMA StepQuiet == ASSUME Sound, Tokens, NEW r \in Requests, QuietStep(r) PROVE Quiet
<1> DEFINE e == rq[r].email
<1>1. TypeOK /\ rq \in [Requests -> Request] /\ rq[r] \in Request
  BY DEF Sound, TypeOK
<1>2. /\ rq[r].pc # "idle" => e \in Emails
      /\ rq[r].pc \notin Starting => e \in users
      /\ verified \subseteq users /\ \A f \in Emails : session[f].id # 0 => f \in users
  BY DEF Tokens, UsersFirst, At
<1>3. NoRequest.pc = "idle"
  BY DEF NoRequest
<1>4. CASE FindSlug(r)
  <2>1. /\ Others(r) /\ Keeps(r) /\ rq'[r].token = rq[r].token
        /\ rq[r].pc = "slug" /\ rq'[r].pc \in {"slug", "workspace"}
    BY <1>1, <1>4, Moves DEF FindSlug, At, Others, Keeps, Pcs, Request
  <2>2. rq'[r].pc = "workspace" => rq'[r].slug = rq[r].slug /\ Found(r) \in found'
    <3>1. CASE Taken(rq[r].slug)
      BY <1>1, <1>4, <3>1 DEF FindSlug, At, Request
    <3>2. CASE ~Taken(rq[r].slug)
      BY <1>1, <1>4, <3>2 DEF FindSlug, Goto, Request
    <3> QED BY <3>1, <3>2
  <2>3. rq'[r].pc = "workspace" => Found(r)' \in found'
    BY <2>1, <2>2 DEF Found, Keeps
  <2>4. \A q \in Requests : GoesOn(q)
    BY <2>1, <2>3 DEF GoesOn, Others, Keeps, Holding
  <2> QED BY <1>2, <1>4, <2>4 DEF Quiet, FindSlug, rows
<1>5. CASE CheckCooldown(r)
  <2>1. Others(r) /\ rq[r].pc = "cooldown" /\ (rq'[r].pc = "idle" \/ (rq'[r].pc = "store" /\ Keeps(r)))
    BY <1>1, <1>3, <1>5, Moves DEF CheckCooldown, At, Pcs
  <2>2. \A q \in Requests : GoesOn(q)
    BY <1>2, <2>1 DEF GoesOn, Others, Keeps, Holding, Starting
  <2> QED BY <1>2, <1>5, <2>2 DEF Quiet, CheckCooldown, rows, history
<1>6. CASE SetCooldown(r)
  <2>1. /\ Others(r) /\ Keeps(r) /\ rq'[r].token = rq[r].token
        /\ rq[r].pc = "cool" /\ rq'[r].pc = "mail"
    BY <1>1, <1>6, Moves DEF SetCooldown, At, Pcs
  <2>2. \A q \in Requests : GoesOn(q)
    BY <2>1 DEF GoesOn, Others, Keeps, Holding
  <2> QED BY <1>2, <1>6, <2>2 DEF Quiet, SetCooldown, rows, history
<1>7. CASE Verify(r) \/ Reset(r) \/ SetUp(r) \/ StoreSession(r) \/ Rotate(r)
  <2> USE DEF Verify, Reset, SetUp, StoreSession, Rotate
  <2>1. Others(r) /\ rq'[r].pc = "idle"
    BY <1>1, <1>3, <1>7, Moves
  <2>2. rq[r].pc \notin Holding /\ e \in users /\ e \in Emails
    BY <1>2, <1>7 DEF At, Holding, Starting
  <2>3. \A q \in Requests : GoesOn(q)
    BY <2>1, <2>2 DEF GoesOn, Others, Holding, Starting
  <2>4. UNCHANGED <<users, workspaces, mailed, cut, found, guests>> /\ verified' \subseteq users
    BY <1>2, <1>7, <2>2 DEF history, Revoke
  <2>5. token' = token \/ \E k \in Kinds : token' = [token EXCEPT ![<<k, e>>] = 0]
    BY <1>7 DEF Kinds
  <2>6. \A x \in Kinds \X Emails : token'[x] \in {token[x], 0}
    <3>1. token \in [Kinds \X Emails -> Nat]
      BY <1>1 DEF TypeOK
    <3>2. ASSUME NEW k \in Kinds, token' = [token EXCEPT ![<<k, e>>] = 0]
          PROVE  \A x \in Kinds \X Emails : token'[x] \in {token[x], 0}
      BY <3>1, <3>2
    <3> QED BY <2>5, <3>2
  <2>7. \A f \in Emails \ {e} : session'[f] = session[f]
    BY <1>1, <1>7 DEF TypeOK
  <2>8. \A f \in Emails : session'[f].id # 0 => f \in users
    BY <1>2, <2>2, <2>7
  <2> QED BY <2>3, <2>4, <2>6, <2>8 DEF Quiet
<1>8. CASE (CreateUser(r) \/ CreateGuest(r)) /\ e \in users
  <2>1. /\ Done(r) /\ UNCHANGED <<rows, drawn, workspaces, mailed, cut, found, guests>>
        /\ rq[r].pc \notin Holding
    BY <1>8 DEF CreateUser, CreateGuest, At, history, Holding
  <2>2. Others(r) /\ rq'[r].pc = "idle"
    BY <1>1, <1>3, <2>1, Moves
  <2>3. \A q \in Requests : GoesOn(q)
    BY <2>1, <2>2 DEF GoesOn, Others, Holding, Starting
  <2> QED BY <1>2, <2>1, <2>3 DEF Quiet, rows
<1> QED BY <1>4, <1>5, <1>6, <1>7, <1>8 DEF QuietStep

\* Fewer requests, and the rows as they were.
LEMMA Dropped ==
  ASSUME Sound, Tokens, UNCHANGED <<rows, workspaces>>,
         \A q \in Requests : rq'[q] = rq[q] \/ rq'[q] = NoRequest
  PROVE  Tokens'
<1> /\ users' = users /\ verified' = verified /\ token' = token /\ session' = session
    /\ workspaces' = workspaces
    /\ \A q \in Requests : rq'[q] = rq[q] \/ rq'[q].pc = "idle"
  BY DEF rows, NoRequest
<1> USE DEF Tokens
<1>1. UsersFirst'
  BY DEF UsersFirst, At, Starting
<1>2. \A q \in Requests, e \in Emails : Registering(q, e)' => Registering(q, e) /\ rq'[q] = rq[q]
  BY DEF Registering
<1>3. OneRegistration'
  BY <1>2 DEF OneRegistration, Owns
<1>4. OwnToken'
  <2>1. ASSUME NEW q \in Requests
        PROVE  /\ rq'[q].pc = "create" => rq'[q].kind = "verify"
               /\ rq'[q].pc = "invite" => rq'[q].kind = "setup"
    BY <2>1 DEF OwnToken, At
  <2>2. ASSUME NEW q \in Requests, rq'[q].pc \in Holding, NEW k \in Kinds, NEW e \in Emails,
               rq'[q].token # 0, token[k, e] = rq'[q].token
        PROVE  k = rq'[q].kind /\ e = rq'[q].email
    <3>1. rq'[q] = rq[q]
      BY <2>2 DEF Holding
    <3> QED BY <2>2, <3>1 DEF OwnToken, Holding
  <2> QED BY <2>1, <2>2 DEF OwnToken, At, Holding
<1>5. WorkspacesApart'
  BY DEF WorkspacesApart
<1> QED BY <1>1, <1>3, <1>4, <1>5

LEMMA FailureTokens ==
  ASSUME Sound, Tokens, Crash \/ \E r \in Requests : Fault(r) PROVE Tokens'
<1>1. \A q \in Requests : rq'[q] = rq[q] \/ rq'[q] = NoRequest
  BY Moves DEF Crash, Fault, Sound, Others
<1> QED BY <1>1, Dropped DEF Crash, Fault

LEMMA MailTokens == ASSUME Sound, Tokens, NEW r \in Requests, Mail(r) PROVE Tokens'
<1>1. \A q \in Requests : rq'[q] = rq[q] \/ rq'[q] = NoRequest
  BY Moves DEF Mail, Sound, Others
<1> QED BY <1>1, Dropped DEF Mail

LEMMA CreateWorkspaceTokens ==
  ASSUME Sound, Tokens, NEW r \in Requests, CreateWorkspace(r) PROVE Tokens'
<1> DEFINE e == rq[r].email
<1> DEFINE w == [slug |-> rq[r].slug, owner |-> e]
<1> USE DEF Tokens
<1>1. /\ UNCHANGED rows /\ rq[r].pc = "workspace"
      /\ \/ ~Taken(w.slug) /\ workspaces' = workspaces \cup {w} /\ Goto(r, "mail")
         \/ Taken(w.slug) /\ Done(r) /\ UNCHANGED workspaces
  BY DEF CreateWorkspace, At
<1>2. e \in users /\ e \in Emails /\ Registering(r, e)
  BY <1>1 DEF UsersFirst, Starting, At, Registering
<1>3. /\ ~Owns(e) /\ rq[r].kind = "verify"
      /\ \A q \in Requests \ {r} : ~Registering(q, e)
  BY <1>2 DEF OneRegistration
<1>5. CASE Taken(w.slug) /\ Done(r) /\ UNCHANGED workspaces
  BY <1>1, <1>5, Moves, Dropped DEF Others, Sound
<1>6. CASE ~Taken(w.slug) /\ workspaces' = workspaces \cup {w} /\ Goto(r, "mail")
  <2>1. /\ Others(r) /\ Keeps(r) /\ rq'[r].pc = "mail" /\ rq'[r].token = rq[r].token
    BY <1>6, Moves DEF Sound, Pcs
  <2>2. /\ users' = users /\ verified' = verified /\ token' = token /\ session' = session
    BY <1>1 DEF rows
  <2>3. \A q \in Requests, f \in Emails :
          Registering(q, f)' <=> Registering(q, f) /\ f # e
    BY <1>3, <2>1 DEF Registering, Others, Keeps
  <2>5. \A f \in Emails : Owns(f)' <=> Owns(f) \/ f = e
    <3>1. workspaces' = workspaces \cup {w} /\ w.owner = e
      BY <1>6
    <3> QED BY <3>1 DEF Owns
  <2>6. UsersFirst'
    <3>1. \A v \in workspaces' : v.owner \in users
      <4>1. \A v \in workspaces : v.owner \in users
        BY DEF UsersFirst
      <4>2. workspaces' = workspaces \cup {w} /\ w.owner = e
        BY <1>6
      <4> QED BY <1>2, <4>1, <4>2
    <3>2. \A q \in Requests : rq'[q].email = rq[q].email /\ (rq'[q].pc = rq[q].pc \/ rq[q].email = e)
      BY <2>1 DEF Others, Keeps
    <3>3. \A q \in Requests : (rq'[q].pc # "idle" => rq'[q].email \in Emails)
                              /\ (rq'[q].pc \notin Starting => rq'[q].email \in users)
      BY <1>2, <3>2 DEF UsersFirst, At
    <3> QED BY <2>2, <3>1, <3>3 DEF UsersFirst, At
  <2>7. OneRegistration'
    <3>1. ASSUME NEW q \in Requests, NEW f \in Emails, Registering(q, f)'
          PROVE  rq'[q].kind = "verify" /\ ~Owns(f)' /\ \A g \in Requests : Registering(g, f)' => g = q
      BY <2>1, <2>3, <2>5, <3>1 DEF OneRegistration, Others, Keeps
    <3> QED BY <3>1 DEF OneRegistration
  <2>8. OwnToken'
    <3>1. \A q \in Requests : /\ rq'[q].kind = rq[q].kind /\ rq'[q].email = rq[q].email
                              /\ rq'[q].token = rq[q].token
                              /\ rq'[q].pc = rq[q].pc \/ (rq[q].pc \in Holding /\ rq'[q].pc = "mail")
      BY <1>1, <2>1 DEF Others, Keeps, Holding
    <3>2. ASSUME NEW q \in Requests
          PROVE  /\ rq'[q].pc = "create" => rq'[q].kind = "verify"
                 /\ rq'[q].pc = "invite" => rq'[q].kind = "setup"
      BY <3>1 DEF OwnToken, At
    <3>3. ASSUME NEW q \in Requests, rq'[q].pc \in Holding, NEW k \in Kinds, NEW f \in Emails,
                 rq'[q].token # 0, token[k, f] = rq'[q].token
          PROVE  k = rq'[q].kind /\ f = rq'[q].email
      <4>1. rq[q].pc \in Holding /\ rq[q].token # 0 /\ token[k, f] = rq[q].token
        BY <3>1, <3>3
      <4>2. k = rq[q].kind /\ f = rq[q].email
        BY <4>1 DEF OwnToken, Holding
      <4> QED BY <3>1, <4>2
    <3> QED BY <2>2, <3>2, <3>3 DEF OwnToken, At, Holding
  <2>10. WorkspacesApart'
    BY <1>3, <1>6 DEF WorkspacesApart, Taken, Owns
  <2> QED BY <2>6, <2>7, <2>8, <2>10
<1> QED BY <1>1, <1>5, <1>6

\* A request stores the fresh token for a kind and a person and is to mail it.
Stores(r, k, e) ==
  /\ Sound /\ Tokens /\ Others(r) /\ rq[r].pc \notin Holding
  /\ token' = [token EXCEPT ![<<k, e>>] = Fresh]
  /\ rq'[r].pc \in Holding /\ rq'[r].token = Fresh /\ rq'[r].kind = k /\ rq'[r].email = e
  /\ UNCHANGED <<workspaces, mailed, cut, found>>

LEMMA Stored ==
  ASSUME NEW r \in Requests, NEW k \in Kinds, NEW e \in Emails, Stores(r, k, e)
  PROVE  OwnToken'
<1> USE DEF Stores, Holding
<1>1. TypeOK /\ Fresh \in Nat /\ Fresh # 0
  BY Drawing DEF Sound, Fresh, TypeOK
<1>2. /\ token'[k, e] = Fresh
      /\ \A j \in Kinds, f \in Emails : <<j, f>> # <<k, e>> => token'[j, f] = token[j, f]
  BY <1>1 DEF TypeOK
<1>3. /\ \A j \in Kinds, f \in Emails : token[j, f] \in Nat /\ token[j, f] # Fresh
      /\ \A q \in Requests : rq[q].token # Fresh
  <2>1. drawn \in Nat /\ Fresh = drawn + 1
    BY <1>1 DEF Fresh, TypeOK
  <2>2. \A j \in Kinds, f \in Emails : token[j, f] \in Nat /\ token[j, f] <= drawn
    <3>1. \A x \in Kinds \X Emails : token[x] \in Nat /\ token[x] <= drawn
      BY <1>1 DEF Sound, Bounded, TypeOK
    <3> QED BY <3>1
  <2>3. \A q \in Requests : rq[q].token \in Nat /\ rq[q].token <= drawn
    BY <1>1 DEF Sound, Bounded, TypeOK, Request
  <2>4. \A n \in Nat : n <= drawn => n # Fresh
    BY <2>1
  <2>5. \A j \in Kinds, f \in Emails : token[j, f] \in Nat /\ token[j, f] # Fresh
    BY <2>2, <2>4
  <2>6. \A q \in Requests : rq[q].token # Fresh
    BY <2>3, <2>4
  <2> QED BY <2>5, <2>6
<1>4. OwnToken'
  <2>1. ASSUME NEW q \in Requests
        PROVE  /\ rq'[q].pc = "create" => rq'[q].kind = "verify"
               /\ rq'[q].pc = "invite" => rq'[q].kind = "setup"
    BY DEF Tokens, OwnToken, At, Others
  <2>2. ASSUME NEW q \in Requests, rq'[q].pc \in Holding, NEW j \in Kinds, NEW f \in Emails,
               rq'[q].token # 0, token'[j, f] = rq'[q].token
        PROVE  j = rq'[q].kind /\ f = rq'[q].email
    <3>1. CASE q = r
      <4>1. rq'[q].token = Fresh /\ rq'[q].kind = k /\ rq'[q].email = e
        BY <3>1
      <4>2. <<j, f>> = <<k, e>>
        BY <1>2, <1>3, <2>2, <4>1
      <4> QED BY <4>1, <4>2
    <3>2. CASE q # r
      <4>1. rq'[q] = rq[q] /\ rq'[q].token # Fresh
        BY <1>3, <3>2 DEF Others
      <4>2. token[j, f] = rq[q].token
        BY <1>2, <2>2, <4>1
      <4> QED BY <2>2, <4>1, <4>2 DEF Tokens, OwnToken
    <3> QED BY <3>1, <3>2
  <2> QED BY <2>1, <2>2 DEF OwnToken, At
<1> HIDE DEF Stores, Holding
<1> QED BY <1>4

\* The person is a user by then: one already, or one who registers or is invited.
Admits(r, k, e) ==
  /\ Stores(r, k, e) /\ e \in Emails
  /\ users' = users \cup {e} /\ verified' \subseteq users' /\ session' = session
  /\ \A f \in users' \ guests' : f \in users \ guests \/ (f = e /\ rq'[r].pc = "slug")
  /\ rq'[r].pc \in {"slug", "workspace"} => e \notin users /\ k = "verify"
  /\ rq'[r].pc # "workspace"

LEMMA AdmittedTokens ==
  ASSUME NEW r \in Requests, NEW k \in Kinds, NEW e \in Emails, Admits(r, k, e)
  PROVE  Tokens'
<1>1. Stores(r, k, e) /\ TypeOK /\ Tokens
  BY DEF Admits, Stores, Sound
<1>2. /\ users' = users \cup {e} /\ verified' \subseteq users' /\ session' = session
      /\ workspaces' = workspaces
      /\ Others(r) /\ rq[r].pc \notin Holding /\ rq'[r].pc \in Holding
      /\ rq'[r].email = e /\ rq'[r].kind = k
  BY <1>1 DEF Admits, Stores
<1>3. rq'[r].pc \in {"slug", "workspace"} => e \notin users /\ k = "verify"
  BY DEF Admits
<1>4. e \notin users => ~Owns(e) /\ \A q \in Requests : ~Registering(q, e)
  BY <1>1 DEF Tokens, UsersFirst, Owns, Registering, Starting
<1>5. OwnToken'
  BY <1>1, Stored
<1>6. UsersFirst'
  <2>1. \A j \in Kinds, f \in Emails : token'[j, f] # 0 => f \in users'
    <3>1. ASSUME NEW j \in Kinds, NEW f \in Emails, token'[j, f] # 0, f # e PROVE f \in users
      <4>1. token'[j, f] = token[j, f]
        BY <1>1, <3>1 DEF Stores, TypeOK
      <4> QED BY <1>1, <3>1, <4>1 DEF Tokens, UsersFirst
    <3> QED BY <1>2, <3>1
  <2>2. \A q \in Requests : (rq'[q].pc # "idle" => rq'[q].email \in Emails)
                            /\ (rq'[q].pc \notin Starting => rq'[q].email \in users')
    BY <1>1, <1>2 DEF Tokens, UsersFirst, At, Others
  <2> QED BY <1>1, <1>2, <2>1, <2>2 DEF Tokens, UsersFirst, At
<1>7. \A q \in Requests, f \in Emails :
        Registering(q, f)' <=> Registering(q, f) \/ (q = r /\ f = e /\ rq'[r].pc \in {"slug", "workspace"})
  BY <1>2 DEF Registering, Others, Holding
<1>8. \A f \in Emails : Owns(f)' <=> Owns(f)
  BY <1>2 DEF Owns
<1>9. OneRegistration'
  <2>1. ASSUME NEW q \in Requests, NEW f \in Emails, Registering(q, f)'
        PROVE  ~Owns(f)' /\ rq'[q].kind = "verify" /\ \A g \in Requests : Registering(g, f)' => g = q
    <3>1. CASE q = r
      <4>1. f = e /\ rq'[r].pc \in {"slug", "workspace"}
        BY <1>2, <2>1, <3>1 DEF Registering
      <4> QED BY <1>2, <1>3, <1>4, <1>7, <1>8, <3>1, <4>1
    <3>2. CASE q # r
      <4>1. Registering(q, f) /\ rq'[q] = rq[q]
        BY <1>2, <1>7, <2>1, <3>2 DEF Others
      <4>2. ~Owns(f) /\ rq[q].kind = "verify" /\ \A g \in Requests : Registering(g, f) => g = q
        BY <1>1, <4>1 DEF Tokens, OneRegistration
      <4>3. ~(f = e /\ rq'[r].pc \in {"slug", "workspace"})
        BY <1>3, <1>4, <4>1
      <4> QED BY <1>7, <1>8, <4>1, <4>2, <4>3
    <3> QED BY <3>1, <3>2
  <2> QED BY <2>1 DEF OneRegistration
<1>10. WorkspacesApart'
  BY <1>1, <1>2 DEF Tokens, WorkspacesApart
<1> QED BY <1>5, <1>6, <1>9, <1>10 DEF Tokens

LEMMA StoreTokenAdmits ==
  ASSUME Sound, Tokens, NEW r \in Requests,
         \/ StoreToken(r)
         \/ CreateUser(r) /\ rq[r].email \notin users
         \/ CreateGuest(r) /\ rq[r].email \notin users
  PROVE  \E k \in Kinds, e \in Emails : Admits(r, k, e)
<1> DEFINE e == rq[r].email
<1>1. TypeOK /\ rq[r] \in Request
  BY DEF Sound, TypeOK
<1>2. /\ rq[r].pc # "idle" => e \in Emails
      /\ rq[r].pc \notin Starting => e \in users
      /\ verified \subseteq users /\ rq[r].kind \in Kinds
      /\ rq[r].pc = "create" => rq[r].kind = "verify"
      /\ rq[r].pc = "invite" => rq[r].kind = "setup"
  BY <1>1 DEF Tokens, UsersFirst, OwnToken, At, Request
<1>3. \A pc \in Pcs : Carry(r, pc, Fresh) =>
        Others(r) /\ Keeps(r) /\ rq'[r].pc = pc /\ rq'[r].token = Fresh
  BY <1>1, Moves, Drawing
<1>4. CASE StoreToken(r)
  <2>1. Others(r) /\ Keeps(r) /\ rq'[r].pc = "cool" /\ rq'[r].token = Fresh
    BY <1>3, <1>4 DEF StoreToken, Pcs
  <2>2. /\ UNCHANGED <<users, verified, session, workspaces, mailed, cut, found, guests>>
        /\ token' = [token EXCEPT ![<<rq[r].kind, e>>] = Fresh]
        /\ rq[r].pc = "store"
    BY <1>4 DEF StoreToken, At, history
  <2>3. Admits(r, rq[r].kind, e)
    BY <1>2, <2>1, <2>2 DEF Admits, Stores, Keeps, Holding, Starting
  <2> QED BY <1>2, <2>2, <2>3
<1>5. CASE CreateUser(r) /\ e \notin users
  <2>1. Others(r) /\ Keeps(r) /\ rq'[r].pc = "slug" /\ rq'[r].token = Fresh
    BY <1>3, <1>5 DEF CreateUser, Pcs
  <2>2. /\ UNCHANGED <<verified, session, workspaces, mailed, cut, found, guests>>
        /\ users' = users \cup {e}
        /\ token' = [token EXCEPT ![<<"verify", e>>] = Fresh]
        /\ rq[r].pc = "create"
    BY <1>5 DEF CreateUser, At, history
  <2>3. Admits(r, "verify", e)
    BY <1>2, <1>5, <2>1, <2>2 DEF Admits, Stores, Keeps, Holding, Starting
  <2> QED BY <1>2, <2>2, <2>3 DEF Kinds
<1>6. CASE CreateGuest(r) /\ e \notin users
  <2>1. Others(r) /\ Keeps(r) /\ rq'[r].pc = "mail" /\ rq'[r].token = Fresh
    BY <1>3, <1>6 DEF CreateGuest, Pcs
  <2>2. /\ UNCHANGED <<session, workspaces, mailed, cut, found>>
        /\ users' = users \cup {e} /\ verified' = verified \cup {e} /\ guests' = guests \cup {e}
        /\ token' = [token EXCEPT ![<<"setup", e>>] = Fresh]
        /\ rq[r].pc = "invite"
    BY <1>6 DEF CreateGuest, At
  <2>3. Admits(r, "setup", e)
    BY <1>2, <1>6, <2>1, <2>2 DEF Admits, Stores, Keeps, Holding, Starting
  <2> QED BY <1>2, <2>2, <2>3 DEF Kinds
<1> QED BY <1>4, <1>5, <1>6

LEMMA LogoutQuiet == ASSUME Sound, Tokens, NEW e \in Emails, Logout(e) PROVE Quiet
<1>1. /\ UNCHANGED <<users, verified, token, workspaces, mailed, cut, found, guests, rq>>
      /\ session' = [session EXCEPT ![e] = NoSession]
  BY DEF Logout, Revoke
<1>2. \A f \in Emails : session'[f] = session[f] \/ session'[f].id = 0
  BY <1>1 DEF Sound, TypeOK, NoSession
<1> QED BY <1>1, <1>2 DEF Quiet, GoesOn, Tokens, UsersFirst

LEMMA IdleQuiet == ASSUME Sound, Tokens, UNCHANGED vars PROVE Quiet
BY DEF Quiet, GoesOn, Tokens, UsersFirst, vars, rows, history

LEMMA NextTokens == Sound /\ Tokens /\ [Next]_vars => Tokens'
<1> SUFFICES ASSUME Sound, Tokens, [Next]_vars PROVE Tokens'
  OBVIOUS
<1>1. ASSUME NEW r \in Requests, Start(r) PROVE Tokens'
  BY <1>1, StartQuiet, QuietTokens
<1>2. ASSUME NEW r \in Requests, RequestStep(r) PROVE Tokens'
  <2>1. CASE QuietStep(r)
    BY <2>1, StepQuiet, QuietTokens
  <2>2. CASE Mail(r) \/ CreateWorkspace(r)
    BY <2>2, MailTokens, CreateWorkspaceTokens
  <2>3. CASE \/ StoreToken(r)
             \/ (CreateUser(r) /\ rq[r].email \notin users)
             \/ (CreateGuest(r) /\ rq[r].email \notin users)
    BY <2>3, StoreTokenAdmits, AdmittedTokens
  <2> QED BY <1>2, <2>1, <2>2, <2>3 DEF RequestStep, QuietStep
<1>3. CASE Crash \/ \E r \in Requests : Fault(r)
  BY <1>3, FailureTokens
<1>4. ASSUME NEW e \in Emails, Logout(e) PROVE Quiet
  BY <1>4, LogoutQuiet
<1>5. CASE UNCHANGED vars
  BY <1>5, IdleQuiet, QuietTokens
<1> QED BY <1>1, <1>2, <1>3, <1>4, <1>5, QuietTokens DEF Next

-----------------------------------------------------------------------------
(* Outcomes: the token of every request and the workspace of every registration *)
(* are seen to, or it is known what became of them.                             *)

SeenTo(t) ==
  \/ t = 0 \/ t \in mailed
  \/ \E q \in cut : q.token = t
  \/ \E f \in found : f.token = t /\ Outrun(f)

Housed(e) ==
  \/ Owns(e)
  \/ \E q \in cut : q.email = e /\ q.joining
  \/ \E f \in found : f.email = e /\ Outrun(f)

\* What a step has to leave behind.
Accounts(r) ==
  /\ \A t \in Nat : Mailing(r, t) => Mailing(r, t)' \/ SeenTo(t)'
  /\ \A e \in Emails : Registering(r, e) => Registering(r, e)' \/ Housed(e)'
  /\ rq'[r].pc = "workspace" => rq'[r] = rq[r] \/ Found(r)' \in found'

Follows ==
  /\ mailed \subseteq mailed' /\ cut \subseteq cut' /\ found \subseteq found'
  /\ workspaces \subseteq workspaces'
  /\ \A r \in Requests : Accounts(r)
  /\ \A k \in Kinds, e \in Emails, t \in Nat : token'[k, e] = t =>
       t \in {token[k, e], 0} \/ \E r \in Requests : Mailing(r, t)'
  /\ \A e \in users' \ guests' :
       e \in users \ guests \/ (e \in Emails /\ \E r \in Requests : Registering(r, e)')

LEMMA OutcomesParts ==
  Outcomes <=>
    /\ FoundFree
    /\ \A k \in Kinds, e \in Emails :
         SeenTo(token[k, e]) \/ \E r \in Requests : Mailing(r, token[k, e])
    /\ \A e \in users \ guests : Housed(e) \/ \E r \in Requests : Registering(r, e)
BY DEF Outcomes, TokenDelivered, RegistrationComplete, SeenTo, Housed

LEMMA FollowsOutcomes == ASSUME Sound, Sound', Outcomes, Follows PROVE Outcomes'
<1>1. /\ \A f : Outrun(f) => Outrun(f)'
      /\ \A e : Owns(e) => Owns(e)'
  BY DEF Follows, Outrun, Owns
<1>2. \A t \in Nat : SeenTo(t) => SeenTo(t)'
  BY <1>1 DEF Follows, SeenTo
<1>3. \A e \in Emails : Housed(e) => Housed(e)'
  BY <1>1 DEF Follows, Housed
<1>4. FoundFree'
  <2> SUFFICES ASSUME NEW r \in Requests, rq'[r].pc = "workspace" PROVE Found(r)' \in found'
    BY DEF FoundFree, At
  <2>1. CASE rq'[r] = rq[r]
    <3>1. Found(r)' = Found(r) /\ Found(r) \in found
      BY <2>1 DEF Outcomes, FoundFree, At, Found
    <3> QED BY <3>1 DEF Follows
  <2> QED BY <2>1 DEF Follows, Accounts
<1>5. TokenDelivered'
  <2> SUFFICES ASSUME NEW k \in Kinds, NEW e \in Emails, NEW t \in Nat, token'[k, e] = t
               PROVE  SeenTo(t)' \/ \E r \in Requests : Mailing(r, t)'
    <3>1. \A x \in Kinds \X Emails : token'[x] \in Nat
      BY DEF Sound, TypeOK
    <3>2. \A k \in Kinds, e \in Emails : token'[k, e] \in Nat
      BY <3>1
    <3> QED BY <3>2 DEF TokenDelivered, SeenTo
  <2>1. CASE t = 0
    BY <2>1 DEF SeenTo
  <2>2. CASE t = token[k, e]
    <3>1. SeenTo(t) \/ \E r \in Requests : Mailing(r, t)
      BY <2>2, OutcomesParts
    <3> QED BY <1>2, <3>1 DEF Follows, Accounts
  <2> QED BY <2>1, <2>2 DEF Follows
<1>6. RegistrationComplete'
  <2> SUFFICES ASSUME NEW e \in users' \ guests'
               PROVE  Housed(e)' \/ \E r \in Requests : Registering(r, e)'
    BY DEF RegistrationComplete, Housed
  <2>1. CASE e \in users \ guests
    <3>1. Housed(e) \/ \E r \in Requests : Registering(r, e)
      BY <2>1, OutcomesParts
    <3>2. e \in Emails
      BY <2>1, UsersInEmails
    <3> QED BY <1>3, <3>1, <3>2 DEF Follows, Accounts
  <2> QED BY <2>1 DEF Follows
<1> QED BY <1>4, <1>5, <1>6 DEF Outcomes

LEMMA QuietFollows == ASSUME Sound, Quiet PROVE Follows
<1>1. ASSUME NEW r \in Requests PROVE Accounts(r)
  BY DEF Quiet, GoesOn, Accounts, Mailing, Registering, Holding
<1>2. \A k \in Kinds, e \in Emails : token'[k, e] \in {token[k, e], 0}
  BY DEF Quiet
<1> QED BY <1>1, <1>2 DEF Follows, Quiet

\* A request that goes on as it was.
LEMMA SameAccounts == ASSUME NEW r \in Requests, rq'[r] = rq[r] PROVE Accounts(r)
BY DEF Accounts, Mailing, Registering

LEMMA FailureFollows ==
  ASSUME Sound, Tokens, Crash \/ \E r \in Requests : Fault(r) PROVE Follows
<1>1. PICK S \in SUBSET Requests :
        /\ Cut(S)
        /\ \A q \in S : rq'[q] = NoRequest
        /\ \A q \in Requests \ S : rq'[q] = rq[q]
  <2>1. ASSUME NEW r \in Requests, Fault(r)
        PROVE  Cut({r}) /\ rq'[r] = NoRequest /\ \A q \in Requests \ {r} : rq'[q] = rq[q]
    BY <2>1, Moves DEF Fault, Sound, Others
  <2>2. CASE Crash
    BY <2>2 DEF Crash
  <2> QED BY <2>1, <2>2
<1>2. cut \subseteq cut' /\ \A q \in S : rq[q].pc \in Holding => Lost(q) \in cut'
  BY <1>1 DEF Cut, Holding
<1>3. /\ UNCHANGED <<rows, workspaces, mailed, found, guests>>
  BY DEF Crash, Fault
<1>4. ASSUME NEW q \in S PROVE Accounts(q)
  <2>1. \A t \in Nat : Mailing(q, t) => SeenTo(t)'
    <3> SUFFICES ASSUME NEW t \in Nat, rq[q].token = t, rq[q].pc \in Holding PROVE SeenTo(t)'
      BY DEF Mailing, Holding
    <3>1. Lost(q) \in cut' /\ Lost(q).token = t
      BY <1>2 DEF Lost
    <3> QED BY <3>1 DEF SeenTo
  <2>2. \A e \in Emails : Registering(q, e) => Housed(e)'
    <3> SUFFICES ASSUME NEW e \in Emails, rq[q].email = e, rq[q].pc \in {"slug", "workspace"}
                 PROVE  Housed(e)'
      BY DEF Registering
    <3>1. Lost(q) \in cut' /\ Lost(q).email = e /\ Lost(q).joining
      BY <1>2 DEF Lost, Holding
    <3> QED BY <3>1 DEF Housed
  <2>3. rq'[q].pc # "workspace"
    BY <1>1 DEF NoRequest
  <2> QED BY <2>1, <2>2, <2>3 DEF Accounts
<1>5. \A q \in Requests : Accounts(q)
  BY <1>1, <1>4, SameAccounts
<1> QED BY <1>2, <1>3, <1>5 DEF Follows, rows

LEMMA MailFollows == ASSUME Sound, Tokens, NEW r \in Requests, Mail(r) PROVE Follows
<1>1. /\ UNCHANGED <<rows, workspaces, cut, found, guests>> /\ mailed' = mailed \cup {rq[r].token}
      /\ Others(r) /\ rq'[r] = NoRequest /\ rq[r].pc = "mail"
  BY Moves DEF Mail, history, Sound, At
<1>2. Accounts(r)
  BY <1>1 DEF Accounts, Mailing, Registering, SeenTo, NoRequest
<1>3. \A q \in Requests : Accounts(q)
  BY <1>1, <1>2, SameAccounts DEF Others
<1> QED BY <1>1, <1>3 DEF Follows, rows

LEMMA CreateWorkspaceFollows ==
  ASSUME Sound, Tokens, Outcomes, NEW r \in Requests, CreateWorkspace(r) PROVE Follows
<1> DEFINE e == rq[r].email
<1> DEFINE w == [slug |-> rq[r].slug, owner |-> e]
<1>1. /\ UNCHANGED <<rows, mailed, cut, found, guests>> /\ rq[r].pc = "workspace"
      /\ \/ ~Taken(w.slug) /\ workspaces' = workspaces \cup {w} /\ Goto(r, "mail")
         \/ Taken(w.slug) /\ Done(r) /\ UNCHANGED workspaces
  BY DEF CreateWorkspace, At, history
<1>2. e \in Emails /\ Registering(r, e)
  BY <1>1 DEF Tokens, UsersFirst, At, Registering
<1>3. workspaces \subseteq workspaces' /\ Others(r)
  BY <1>1, Moves DEF Sound, Pcs
<1>4. Accounts(r)
  <2>1. CASE ~Taken(w.slug) /\ workspaces' = workspaces \cup {w} /\ Goto(r, "mail")
    <3>1. /\ rq'[r].pc = "mail" /\ rq'[r].token = rq[r].token /\ w \in workspaces' /\ w.owner = e
      BY <2>1, Moves DEF Sound, Pcs
    <3>2. \A f \in Emails : f = e => Housed(f)'
      BY <3>1 DEF Owns, Housed
    <3>3. \A f \in Emails : Registering(r, f) => f = e
      BY DEF Registering
    <3>4. \A t \in Nat : Mailing(r, t) => Mailing(r, t)'
      BY <3>1 DEF Mailing
    <3> QED BY <3>1, <3>2, <3>3, <3>4 DEF Accounts
  <2>2. CASE Taken(w.slug) /\ Done(r) /\ UNCHANGED workspaces
    <3>1. rq'[r] = NoRequest
      BY <2>2, Moves DEF Sound
    <3>2. Found(r) \in found /\ Outrun(Found(r))
      BY <1>1, <1>2, <2>2 DEF Outcomes, FoundFree, At, Found, Outrun, Taken, Tokens,
                              OneRegistration, Owns
    <3>3. PICK f \in found, v \in workspaces :
            f.email = e /\ f.token = rq[r].token /\ v.slug = f.slug /\ v.owner # f.email
      BY <3>2 DEF Found, Outrun
    <3>4. f \in found' /\ v \in workspaces'
      BY <1>1, <1>3
    <3>5. Outrun(f)'
      BY <3>3, <3>4 DEF Outrun
    <3>6. \A t \in Nat : t = rq[r].token => SeenTo(t)'
      BY <3>3, <3>4, <3>5 DEF SeenTo
    <3>7. \A g \in Emails : g = e => Housed(g)'
      BY <3>3, <3>4, <3>5 DEF Housed
    <3>8. rq'[r].pc # "workspace"
      BY <3>1 DEF NoRequest
    <3> QED BY <3>6, <3>7, <3>8 DEF Accounts, Mailing, Registering
  <2> QED BY <1>1, <2>1, <2>2
<1>5. \A q \in Requests : Accounts(q)
  BY <1>3, <1>4, SameAccounts DEF Others
<1> QED BY <1>1, <1>3, <1>5 DEF Follows, rows

LEMMA AdmittedFollows ==
  ASSUME Sound, NEW r \in Requests, NEW k \in Kinds, NEW e \in Emails, Admits(r, k, e)
  PROVE  Follows
<1>1. /\ Others(r) /\ rq[r].pc \notin Holding /\ rq'[r].pc \in Holding /\ rq'[r].pc # "workspace"
      /\ rq'[r].token = Fresh /\ rq'[r].email = e
      /\ token' = [token EXCEPT ![<<k, e>>] = Fresh]
      /\ UNCHANGED <<workspaces, mailed, cut, found>>
      /\ \A f \in users' \ guests' : f \in users \ guests \/ (f = e /\ rq'[r].pc = "slug")
  BY DEF Admits, Stores
<1>2. Accounts(r)
  BY <1>1 DEF Accounts, Mailing, Registering, Holding
<1>3. \A q \in Requests : Accounts(q)
  BY <1>1, <1>2, SameAccounts DEF Others
<1>4. ASSUME NEW j \in Kinds, NEW f \in Emails, NEW t \in Nat, token'[j, f] = t
      PROVE  t \in {token[j, f], 0} \/ \E q \in Requests : Mailing(q, t)'
  <2>1. t = Fresh => Mailing(r, t)'
    BY <1>1 DEF Mailing, Holding
  <2>2. t = Fresh \/ t = token[j, f]
    BY <1>1, <1>4 DEF Sound, TypeOK
  <2> QED BY <2>1, <2>2
<1>5. rq'[r].pc = "slug" => Registering(r, e)'
  BY <1>1 DEF Registering
<1> QED BY <1>1, <1>3, <1>4, <1>5 DEF Follows

LEMMA NextOutcomes ==
  Sound /\ Sound' /\ Tokens /\ Outcomes /\ [Next]_vars => Outcomes'
<1> SUFFICES ASSUME Sound, Sound', Tokens, Outcomes, [Next]_vars PROVE Follows
  BY FollowsOutcomes
<1>1. ASSUME NEW r \in Requests, Start(r) PROVE Follows
  BY <1>1, StartQuiet, QuietFollows
<1>2. ASSUME NEW r \in Requests, RequestStep(r) PROVE Follows
  <2>1. CASE QuietStep(r)
    BY <2>1, StepQuiet, QuietFollows
  <2>2. CASE Mail(r) \/ CreateWorkspace(r)
    BY <2>2, MailFollows, CreateWorkspaceFollows
  <2>3. CASE \/ StoreToken(r)
             \/ (CreateUser(r) /\ rq[r].email \notin users)
             \/ (CreateGuest(r) /\ rq[r].email \notin users)
    BY <2>3, StoreTokenAdmits, AdmittedFollows
  <2> QED BY <1>2, <2>1, <2>2, <2>3 DEF RequestStep, QuietStep
<1>3. CASE Crash \/ \E r \in Requests : Fault(r)
  BY <1>3, FailureFollows
<1>4. ASSUME NEW e \in Emails, Logout(e) PROVE Follows
  BY <1>4, LogoutQuiet, QuietFollows
<1>5. CASE UNCHANGED vars
  BY <1>5, IdleQuiet, QuietFollows
<1> QED BY <1>1, <1>2, <1>3, <1>4, <1>5 DEF Next

-----------------------------------------------------------------------------
(* Sessions. *)

\* What is new among the logins and passwords is the fresh secret, for one person and as one sort.
Renewed(e, sort) ==
  /\ drawn' \in {drawn, Fresh}
  /\ \A f \in Emails, x \in Nat \ {0} :
       /\ LoginOf(f, x)' => LoginOf(f, x) \/ (x = Fresh /\ f = e /\ sort = "login")
       /\ PwOf(f, x)' => PwOf(f, x) \/ (x = Fresh /\ f = e /\ sort = "pw")

LEMMA FreshUnused ==
  ASSUME Sound, NEW f \in Emails PROVE ~LoginOf(f, Fresh) /\ ~PwOf(f, Fresh)
<1>1. drawn \in Nat /\ Fresh = drawn + 1
  BY DEF Sound, TypeOK, Fresh
<1>2. \A n \in Nat : n <= drawn => n # Fresh
  BY <1>1
<1>3. /\ session[f].login \in Nat /\ session[f].login <= drawn
      /\ session[f].pw \in Nat /\ session[f].pw <= drawn
      /\ password[f] \in Nat /\ password[f] <= drawn
  BY DEF Sound, TypeOK, Bounded, SessionType
<1>4. \A q \in Requests : /\ rq[q].session.login \in Nat /\ rq[q].session.login <= drawn
                           /\ rq[q].session.pw \in Nat /\ rq[q].session.pw <= drawn
  BY DEF Sound, TypeOK, Bounded, Request, SessionType
<1> QED BY <1>2, <1>3, <1>4 DEF LoginOf, PwOf

LEMMA RenewedDistinct ==
  ASSUME Sound, Distinct, NEW e, NEW sort, Renewed(e, sort) PROVE Distinct'
<1>1. drawn \in Nat /\ drawn' \in {drawn, Fresh} /\ Fresh = drawn + 1
  BY DEF Sound, TypeOK, Renewed, Fresh
<1>2. SUFFICES ASSUME NEW f \in Emails, NEW g \in Emails, NEW x \in 1..drawn'
               PROVE  /\ LoginOf(f, x)' /\ LoginOf(g, x)' => f = g
                      /\ PwOf(f, x)' /\ PwOf(g, x)' => f = g
                      /\ ~(LoginOf(f, x)' /\ PwOf(g, x)')
  BY DEF Distinct
<1>3. x \in Nat \ {0} /\ (x = Fresh \/ x \in 1..drawn)
  BY <1>1, <1>2
<1>4. CASE x = Fresh
  <2>1. /\ ~LoginOf(f, x) /\ ~PwOf(f, x) /\ ~LoginOf(g, x) /\ ~PwOf(g, x)
    BY <1>4, FreshUnused
  <2> QED BY <1>3, <2>1 DEF Renewed
<1>5. CASE x # Fresh /\ x \in 1..drawn
  <2>1. /\ LoginOf(f, x)' => LoginOf(f, x)
        /\ LoginOf(g, x)' => LoginOf(g, x)
        /\ PwOf(f, x)' => PwOf(f, x)
        /\ PwOf(g, x)' => PwOf(g, x)
    BY <1>3, <1>5 DEF Renewed
  <2> QED BY <1>5, <2>1 DEF Distinct
<1> QED BY <1>3, <1>4, <1>5

\* A step that leaves passwords and sessions alone and lets no request read them.
SessionsQuiet ==
  /\ UNCHANGED <<password, session, revoked, outlived>> /\ drawn' \in {drawn, Fresh}
  /\ \A q \in Requests : rq'[q] = rq[q] \/ rq'[q].session = NoSession

LEMMA QuietSessions == ASSUME Sound, Sessions, SessionsQuiet PROVE Sessions'
<1> USE DEF SessionsQuiet
<1>1. NoSession.login = 0 /\ NoSession.pw = 0
  BY DEF NoSession
<1>2. Renewed(None, "none")
  <2>1. \A f \in Emails, x \in Nat \ {0} : LoginOf(f, x)' => LoginOf(f, x)
    BY <1>1 DEF LoginOf
  <2>2. \A f \in Emails, x \in Nat \ {0} : PwOf(f, x)' => PwOf(f, x)
    BY <1>1 DEF PwOf
  <2> QED BY <2>1, <2>2 DEF Renewed
<1>3. Distinct'
  BY <1>2, RenewedDistinct DEF Sessions
<1>4. RevokedKnown'
  BY <1>1 DEF Sessions, RevokedKnown
<1>5. RevokedStaysRevoked'
  BY DEF Sessions, RevokedStaysRevoked
<1> QED BY <1>3, <1>4, <1>5 DEF Sessions

\* A login or a refresh begins with what is stored.
LEMMA ReadSessions ==
  ASSUME Sound, Sessions, NEW r \in Requests, NEW e \in Emails,
         StartLogin(r, e) \/ StartRefresh(r, e)
  PROVE  Sessions'
<1>1. rq \in [Requests -> Request] /\ rq[r].pc = "idle"
  BY DEF Sound, TypeOK, StartLogin, StartRefresh, Begin, At
<1>2. UNCHANGED <<password, session, drawn, revoked, outlived>>
  BY DEF StartLogin, StartRefresh, UnchangedBut_rq, rows, history
<1>3. /\ Others(r) /\ rq'[r].email = e /\ rq'[r].pc \in {"login", "rotate"}
      /\ rq'[r].session.login = 0 \/ rq'[r].session.login = session[e].login
      /\ rq'[r].session.pw \in {password[e], session[e].pw}
      /\ {rq'[r].session.login, rq'[r].session.pw} \cap revoked \subseteq outlived
  <2> USE DEF Others, Begin
  <2>1. CASE StartLogin(r, e)
    BY <1>1, <2>1 DEF StartLogin, Sessions, RevokedKnown
  <2>2. CASE StartRefresh(r, e)
    BY <1>1, <2>2 DEF StartRefresh, Sessions, RevokedStaysRevoked
  <2> QED BY <2>1, <2>2
<1>4. Renewed(None, "none")
  <2>1. \A f \in Emails, x \in Nat \ {0} : LoginOf(f, x)' => LoginOf(f, x)
    BY <1>2, <1>3 DEF LoginOf, Others
  <2>2. \A f \in Emails, x \in Nat \ {0} : PwOf(f, x)' => PwOf(f, x)
    BY <1>2, <1>3 DEF PwOf, Others
  <2> QED BY <1>2, <2>1, <2>2 DEF Renewed
<1>5. Distinct'
  BY <1>4, RenewedDistinct DEF Sessions
<1>6. RevokedKnown'
  BY <1>2, <1>3 DEF Sessions, RevokedKnown, Others
<1>7. RevokedStaysRevoked'
  BY <1>2 DEF Sessions, RevokedStaysRevoked
<1> QED BY <1>5, <1>6, <1>7 DEF Sessions

\* N, of what e has stored, is ended.
Ends(e, N) ==
  /\ N \subseteq {password[e], session[e].login} \ {0}
  /\ revoked' = revoked \cup N
  /\ outlived' = outlived \cup {c \in N : \E r \in Requests : Relies(r, c)}

\* It concerns nobody but e, and whoever relies on it is known.
LEMMA EndedKnown ==
  ASSUME Sound, Sessions, NEW e \in Emails, NEW N, Ends(e, N)
  PROVE  /\ 0 \notin revoked' /\ Fresh \notin revoked' /\ outlived \subseteq outlived'
         /\ \A f \in Emails \ {e} :
              /\ password[f] \notin revoked'
              /\ session[f].id # 0 => {session[f].login, session[f].pw} \cap revoked' \subseteq outlived'
         /\ password[e] \notin N => password[e] \notin revoked'
         /\ \A q \in Requests :
              {rq[q].session.login, rq[q].session.pw} \cap revoked' \subseteq outlived'
<1>1. /\ N \subseteq {password[e], session[e].login} \ {0}
      /\ revoked' = revoked \cup N
      /\ outlived' = outlived \cup {c \in N : \E r \in Requests : Relies(r, c)}
  BY DEF Ends
<1>2. /\ drawn \in Nat /\ Fresh = drawn + 1
      /\ \A f \in Emails : password[f] \in 0..drawn /\ session[f].login \in 0..drawn
  BY DEF Sound, TypeOK, Bounded, SessionType, Fresh
<1>3. N \subseteq 1..drawn
  BY <1>1, <1>2
<1>4. \A c \in N : LoginOf(e, c) \/ PwOf(e, c)
  BY <1>1 DEF LoginOf, PwOf
<1>5. \A c \in N, f \in Emails \ {e} : ~LoginOf(f, c) /\ ~PwOf(f, c)
  BY <1>3, <1>4 DEF Sessions, Distinct
<1>6. 0 \notin revoked' /\ Fresh \notin revoked' /\ outlived \subseteq outlived'
  <2>1. 0 \notin revoked /\ 0 \notin N
    BY <1>1 DEF Sessions, RevokedKnown
  <2>2. Fresh \notin 0..drawn /\ revoked \subseteq 0..drawn
    BY <1>2 DEF Sound, TypeOK, Bounded
  <2> QED BY <1>1, <1>2, <1>3, <2>1, <2>2
<1>7. \A f \in Emails \ {e} : password[f] \notin revoked'
  BY <1>1, <1>5 DEF Sessions, RevokedKnown, PwOf
<1>8. ASSUME NEW f \in Emails \ {e}, session[f].id # 0
      PROVE  {session[f].login, session[f].pw} \cap revoked' \subseteq outlived'
  <2>1. session[f].login \notin N /\ session[f].pw \notin N
    BY <1>5 DEF LoginOf, PwOf
  <2>2. {session[f].login, session[f].pw} \cap revoked \subseteq outlived
    BY <1>8 DEF Sessions, RevokedStaysRevoked
  <2> QED BY <1>1, <1>6, <2>1, <2>2
<1>9. password[e] \notin N => password[e] \notin revoked'
  BY <1>1 DEF Sessions, RevokedKnown
<1>10. ASSUME NEW q \in Requests, NEW c \in {rq[q].session.login, rq[q].session.pw}, c \in revoked'
       PROVE  c \in outlived'
  <2>1. CASE c \in revoked
    BY <1>6, <1>10, <2>1 DEF Sessions, RevokedKnown
  <2>2. CASE c \in N
    <3>1. c # 0
      BY <1>1, <2>2
    <3>2. rq[q].pc \in {"login", "rotate"}
      BY <1>10, <3>1 DEF Sessions, RevokedKnown, NoSession
    <3> QED BY <1>1, <1>10, <2>2, <3>2 DEF Relies
  <2> QED BY <1>1, <1>10, <2>1, <2>2
<1> QED BY <1>6, <1>7, <1>8, <1>9, <1>10

\* What a request does to the password and the session of e, ending N of them.
Rewrites(e, N, sort) ==
  /\ Sound /\ Sessions /\ Ends(e, N) /\ drawn' \in {drawn, Fresh}
  /\ \A f \in Emails \ {e} : password'[f] = password[f] /\ session'[f] = session[f]
  /\ \/ password'[e] = Fresh /\ sort = "pw"
     \/ password'[e] = password[e] /\ password[e] \notin N
  /\ \/ session'[e] = session[e] /\ N = {}
     \/ session'[e] = NoSession
     \/ \E r \in Requests :
          /\ rq[r].email = e /\ session'[e].pw = rq[r].session.pw
          /\ \/ session'[e].login = rq[r].session.login
             \/ session'[e].login = Fresh /\ sort = "login"
  /\ \A q \in Requests : rq'[q] = rq[q] \/ rq'[q].session = NoSession

LEMMA RewritesSessions ==
  ASSUME NEW e \in Emails, NEW N, NEW sort, Rewrites(e, N, sort) PROVE Sessions'
<1>1. Sound /\ Sessions /\ Ends(e, N) /\ drawn' \in {drawn, Fresh}
  BY DEF Rewrites
<1>2. /\ \A f \in Emails \ {e} : password'[f] = password[f] /\ session'[f] = session[f]
      /\ \/ password'[e] = Fresh /\ sort = "pw"
         \/ password'[e] = password[e] /\ password[e] \notin N
      /\ \/ session'[e] = session[e] /\ N = {}
         \/ session'[e] = NoSession
         \/ \E r \in Requests :
              /\ rq[r].email = e /\ session'[e].pw = rq[r].session.pw
              /\ \/ session'[e].login = rq[r].session.login
                 \/ session'[e].login = Fresh /\ sort = "login"
      /\ \A q \in Requests : rq'[q] = rq[q] \/ rq'[q].session = NoSession
  BY DEF Rewrites
<1>3. NoSession.login = 0 /\ NoSession.pw = 0 /\ NoSession.id = 0
  BY DEF NoSession
<1>4. Renewed(e, sort)
  <2>1. ASSUME NEW f \in Emails, NEW x \in Nat \ {0}, LoginOf(f, x)'
        PROVE  LoginOf(f, x) \/ (x = Fresh /\ f = e /\ sort = "login")
    <3>1. CASE x = session'[f].login
      BY <1>2, <1>3, <2>1, <3>1 DEF LoginOf
    <3>2. CASE \E q \in Requests : rq'[q].email = f /\ x = rq'[q].session.login
      BY <1>2, <1>3, <2>1, <3>2 DEF LoginOf
    <3> QED BY <2>1, <3>1, <3>2 DEF LoginOf
  <2>2. ASSUME NEW f \in Emails, NEW x \in Nat \ {0}, PwOf(f, x)'
        PROVE  PwOf(f, x) \/ (x = Fresh /\ f = e /\ sort = "pw")
    <3>1. CASE x = password'[f]
      BY <1>2, <2>2, <3>1 DEF PwOf
    <3>2. CASE x = session'[f].pw
      BY <1>2, <1>3, <2>2, <3>2 DEF PwOf
    <3>3. CASE \E q \in Requests : rq'[q].email = f /\ x = rq'[q].session.pw
      BY <1>2, <1>3, <2>2, <3>3 DEF PwOf
    <3> QED BY <2>2, <3>1, <3>2, <3>3 DEF PwOf
  <2> QED BY <1>1, <2>1, <2>2 DEF Renewed
<1>5. Distinct'
  BY <1>1, <1>4, RenewedDistinct DEF Sessions
<1>6. /\ 0 \notin revoked' /\ Fresh \notin revoked' /\ outlived \subseteq outlived'
      /\ \A f \in Emails \ {e} :
           /\ password[f] \notin revoked'
           /\ session[f].id # 0 => {session[f].login, session[f].pw} \cap revoked' \subseteq outlived'
      /\ password[e] \notin N => password[e] \notin revoked'
      /\ \A q \in Requests :
           {rq[q].session.login, rq[q].session.pw} \cap revoked' \subseteq outlived'
  BY <1>1, EndedKnown
<1>7. RevokedKnown'
  <2>1. \A f \in Emails : password'[f] \notin revoked'
    BY <1>2, <1>6
  <2>2. ASSUME NEW q \in Requests
        PROVE  /\ {rq'[q].session.login, rq'[q].session.pw} \cap revoked' \subseteq outlived'
               /\ rq'[q].pc \notin {"login", "rotate"} => rq'[q].session = NoSession
    BY <1>1, <1>2, <1>3, <1>6 DEF Sessions, RevokedKnown
  <2> QED BY <1>6, <2>1, <2>2 DEF RevokedKnown
<1>8. RevokedStaysRevoked'
  <2>1. ASSUME NEW f \in Emails \ {e}, session'[f].id # 0
        PROVE  {session'[f].login, session'[f].pw} \cap revoked' \subseteq outlived'
    BY <1>2, <1>6, <2>1
  <2>2. ASSUME session'[e].id # 0
        PROVE  {session'[e].login, session'[e].pw} \cap revoked' \subseteq outlived'
    <3>1. CASE session'[e] = session[e] /\ N = {}
      <4>1. revoked' = revoked
        BY <1>1, <3>1 DEF Ends
      <4>2. {session[e].login, session[e].pw} \cap revoked \subseteq outlived
        BY <1>1, <2>2, <3>1 DEF Sessions, RevokedStaysRevoked
      <4> QED BY <1>6, <3>1, <4>1, <4>2
    <3>2. ASSUME NEW r \in Requests, session'[e].pw = rq[r].session.pw,
                 session'[e].login \in {rq[r].session.login, Fresh}
          PROVE  {session'[e].login, session'[e].pw} \cap revoked' \subseteq outlived'
      BY <1>6, <3>2
    <3> QED BY <1>2, <1>3, <2>2, <3>1, <3>2
  <2> QED BY <2>1, <2>2 DEF RevokedStaysRevoked
<1> QED BY <1>5, <1>7, <1>8 DEF Sessions

LEMMA StepSessions ==
  ASSUME Sound, Tokens, Sessions, NEW r \in Requests, RequestStep(r) PROVE Sessions'
<1> DEFINE e == rq[r].email
<1>1. TypeOK /\ rq[r] \in Request /\ rq \in [Requests -> Request]
  BY DEF Sound, TypeOK
<1>2. /\ rq[r].pc # "idle" => e \in Emails
      /\ rq[r].pc \notin {"login", "rotate"} => rq[r].session = NoSession
  BY DEF Tokens, UsersFirst, Sessions, RevokedKnown, At
<1>3. /\ Done(r) => \A q \in Requests : rq'[q] = rq[q] \/ rq'[q].session = NoSession
      /\ rq[r].session = NoSession =>
           /\ \A pc \in Pcs : Goto(r, pc) =>
                \A q \in Requests : rq'[q] = rq[q] \/ rq'[q].session = NoSession
           /\ \A pc \in Pcs, t \in Nat : Carry(r, pc, t) =>
                \A q \in Requests : rq'[q] = rq[q] \/ rq'[q].session = NoSession
  BY <1>1, Moves DEF Others, Keeps, NoRequest
<1>4. Fresh \in Nat /\ password \in [Emails -> Nat] /\ session \in [Emails -> SessionType]
  BY <1>1, Drawing DEF TypeOK
<1>5. UNCHANGED <<revoked, outlived>> => Ends(e, {})
  BY DEF Ends
<1>6. CASE FindSlug(r)
  <2>1. \A q \in Requests : rq'[q] = rq[q] \/ rq'[q].session = NoSession
    BY <1>1, <1>2, <1>3, <1>6 DEF FindSlug, Pcs, At, Request
  <2> QED BY <1>6, <2>1, QuietSessions DEF SessionsQuiet, FindSlug, rows
<1>7. CASE CreateWorkspace(r) \/ Mail(r) \/ CheckCooldown(r) \/ SetCooldown(r) \/ Verify(r)
  <2> USE DEF CreateWorkspace, Mail, CheckCooldown, SetCooldown, Verify
  <2>1. \A q \in Requests : rq'[q] = rq[q] \/ rq'[q].session = NoSession
    BY <1>2, <1>3, <1>7 DEF Pcs, At
  <2> QED BY <1>7, <2>1, QuietSessions DEF SessionsQuiet, rows, history
<1>8. CASE StoreToken(r)
  <2>1. \A q \in Requests : rq'[q] = rq[q] \/ rq'[q].session = NoSession
    BY <1>2, <1>3, <1>4, <1>8 DEF StoreToken, Pcs, At
  <2> QED BY <1>8, <2>1, QuietSessions DEF SessionsQuiet, StoreToken, Draw, history
<1>9. CASE (CreateUser(r) \/ CreateGuest(r)) /\ e \in users
  <2>1. \A q \in Requests : rq'[q] = rq[q] \/ rq'[q].session = NoSession
    BY <1>3, <1>9 DEF CreateUser, CreateGuest
  <2> QED BY <1>9, <2>1, QuietSessions DEF SessionsQuiet, CreateUser, CreateGuest, rows, history
<1>10. CASE (CreateUser(r) \/ CreateGuest(r)) /\ e \notin users
  <2>1. /\ e \in Emails /\ drawn' = Fresh /\ UNCHANGED <<session, revoked, outlived>>
        /\ password' = [password EXCEPT ![e] = Fresh]
    BY <1>2, <1>10 DEF CreateUser, CreateGuest, At, Draw, history
  <2>2. \A q \in Requests : rq'[q] = rq[q] \/ rq'[q].session = NoSession
    BY <1>2, <1>3, <1>4, <1>10 DEF CreateUser, CreateGuest, At, Pcs
  <2>3. Rewrites(e, {}, "pw")
    BY <1>4, <1>5, <2>1, <2>2 DEF Rewrites
  <2> QED BY <2>1, <2>3, RewritesSessions
<1>11. CASE SetUp(r)
  <2>1. /\ e \in Emails /\ drawn' = Fresh /\ UNCHANGED <<session, revoked, outlived>>
        /\ password' = [password EXCEPT ![e] = Fresh]
    BY <1>2, <1>11 DEF SetUp, At, Draw, history
  <2>2. \A q \in Requests : rq'[q] = rq[q] \/ rq'[q].session = NoSession
    BY <1>3, <1>11 DEF SetUp
  <2>3. Rewrites(e, {}, "pw")
    BY <1>4, <1>5, <2>1, <2>2 DEF Rewrites
  <2> QED BY <2>1, <2>3, RewritesSessions
<1>12. CASE Reset(r)
  <2> DEFINE N == {password[e], session[e].login} \ {0}
  <2>1. /\ e \in Emails /\ drawn' = Fresh /\ session' = [session EXCEPT ![e] = NoSession]
        /\ password' = [password EXCEPT ![e] = Fresh] /\ Ends(e, N)
    BY <1>2, <1>12 DEF Reset, At, Draw, Revoke, Ends
  <2>2. \A q \in Requests : rq'[q] = rq[q] \/ rq'[q].session = NoSession
    BY <1>3, <1>12 DEF Reset
  <2>3. Rewrites(e, N, "pw")
    BY <1>4, <2>1, <2>2 DEF Rewrites
  <2> QED BY <2>1, <2>3, RewritesSessions
<1>13. CASE StoreSession(r)
  <2> DEFINE N == {session[e].login} \ {0}
  <2>1. /\ e \in Emails /\ drawn' = Fresh /\ password' = password /\ Ends(e, N)
        /\ session' = [session EXCEPT ![e] = [id |-> Fresh, login |-> Fresh, pw |-> rq[r].session.pw]]
    BY <1>2, <1>13 DEF StoreSession, Draw, Revoke, Ends
  <2>2. \A q \in Requests : rq'[q] = rq[q] \/ rq'[q].session = NoSession
    BY <1>3, <1>13 DEF StoreSession
  <2>3. password[e] \notin N
    <3>1. \A x \in 1..drawn : ~(LoginOf(e, x) /\ PwOf(e, x))
      BY <2>1 DEF Sessions, Distinct
    <3>2. password[e] \in Nat /\ password[e] <= drawn /\ drawn \in Nat
      BY <1>1, <2>1 DEF Sound, Bounded, TypeOK
    <3>3. password[e] # 0 => password[e] \in 1..drawn
      BY <3>2
    <3> QED BY <3>1, <3>3 DEF LoginOf, PwOf
  <2>4. Rewrites(e, N, "login")
    BY <1>4, <2>1, <2>2, <2>3 DEF Rewrites
  <2> QED BY <2>1, <2>4, RewritesSessions
<1>14. CASE Rotate(r)
  <2>1. /\ e \in Emails /\ drawn' = Fresh /\ UNCHANGED <<password, revoked, outlived>>
        /\ session' = [session EXCEPT ![e] = [id |-> Fresh, login |-> rq[r].session.login,
                                              pw |-> rq[r].session.pw]]
    BY <1>2, <1>14 DEF Rotate, At, Draw, history
  <2>2. \A q \in Requests : rq'[q] = rq[q] \/ rq'[q].session = NoSession
    BY <1>3, <1>14 DEF Rotate
  <2>3. Rewrites(e, {}, "login")
    BY <1>4, <1>5, <2>1, <2>2 DEF Rewrites
  <2> QED BY <2>1, <2>3, RewritesSessions
<1> QED BY <1>6, <1>7, <1>8, <1>9, <1>10, <1>11, <1>12, <1>13, <1>14 DEF RequestStep

LEMMA StartSessions ==
  ASSUME Sound, Tokens, Sessions, NEW r \in Requests, Start(r) PROVE Sessions'
<1>1. PICK e \in Emails :
        \/ StartRegister(r, e) \/ StartResend(r, e) \/ StartForget(r, e)
        \/ StartLogin(r, e) \/ StartRefresh(r, e) \/ StartAccept(r, e)
        \/ \E kind \in Kinds : StartUse(r, kind, e)
  BY DEF Start
<1>2. CASE StartLogin(r, e) \/ StartRefresh(r, e)
  BY <1>2, ReadSessions
<1>3. CASE \/ StartRegister(r, e) \/ StartResend(r, e) \/ StartForget(r, e) \/ StartAccept(r, e)
           \/ \E kind \in Kinds : StartUse(r, kind, e)
  <2> USE DEF StartRegister, StartResend, StartForget, StartAccept, StartUse
  <2>1. UNCHANGED <<password, session, drawn, revoked, outlived>>
    BY <1>3 DEF UnchangedBut_rq, rows, history
  <2>2. \A q \in Requests : rq'[q] = rq[q] \/ rq'[q].session = NoSession
    <3>1. rq \in [Requests -> Request]
      BY DEF Sound, TypeOK
    <3>2. CASE StartRegister(r, e) \/ StartResend(r, e) \/ StartForget(r, e) \/ StartAccept(r, e)
      BY <3>1, <3>2 DEF Begin
    <3>3. ASSUME NEW kind \in Kinds, StartUse(r, kind, e)
          PROVE  \A q \in Requests : rq'[q] = rq[q] \/ rq'[q].session = NoSession
      BY <3>1, <3>3 DEF Begin
    <3> QED BY <1>3, <3>2, <3>3
  <2> QED BY <2>1, <2>2, QuietSessions DEF SessionsQuiet
<1> QED BY <1>1, <1>2, <1>3

LEMMA NextSessions == Sound /\ Tokens /\ Sessions /\ [Next]_vars => Sessions'
<1> SUFFICES ASSUME Sound, Tokens, Sessions, [Next]_vars PROVE Sessions'
  OBVIOUS
<1>1. CASE \E r \in Requests : Start(r) \/ RequestStep(r)
  BY <1>1, StartSessions, StepSessions
<1>2. ASSUME Crash \/ \E r \in Requests : Fault(r) PROVE SessionsQuiet
  <2>1. \A q \in Requests : rq'[q] = rq[q] \/ rq'[q] = NoRequest
    BY <1>2, Moves DEF Crash, Fault, Sound, Others
  <2>2. UNCHANGED <<password, session, revoked, outlived, drawn>>
    BY <1>2 DEF Crash, Fault, rows
  <2>3. NoRequest.session = NoSession
    BY DEF NoRequest
  <2> QED BY <2>1, <2>2, <2>3 DEF SessionsQuiet
<1>3. ASSUME NEW e \in Emails, Logout(e) PROVE Sessions'
  <2> DEFINE N == {session[e].login} \ {0}
  <2>1. /\ UNCHANGED <<password, drawn, rq>> /\ Ends(e, N)
        /\ session' = [session EXCEPT ![e] = NoSession] /\ session \in [Emails -> SessionType]
    BY <1>3 DEF Logout, Revoke, Ends, Sound, TypeOK
  <2>2. password[e] \notin N
    <3>1. \A x \in 1..drawn : ~(LoginOf(e, x) /\ PwOf(e, x))
      BY DEF Sessions, Distinct
    <3>2. password[e] \in Nat /\ password[e] <= drawn /\ drawn \in Nat
      BY DEF Sound, Bounded, TypeOK
    <3>3. password[e] # 0 => password[e] \in 1..drawn
      BY <3>2
    <3> QED BY <3>1, <3>3 DEF LoginOf, PwOf
  <2>3. Rewrites(e, N, "none")
    BY <2>1, <2>2 DEF Rewrites
  <2> QED BY <2>3, RewritesSessions
<1>4. CASE UNCHANGED vars
  BY <1>4, QuietSessions DEF SessionsQuiet, vars, rows, history
<1> QED BY <1>1, <1>2, <1>3, <1>4, QuietSessions DEF Next

-----------------------------------------------------------------------------
(* The theorems. *)

LEMMA InitConsistent == Init => Consistent
<1> SUFFICES ASSUME Init PROVE Consistent
  OBVIOUS
<1> USE DEF Init, NoRequest, NoSession
<1>1. TypeOK
  BY NoRequestType DEF TypeOK
<1>2. Bounded
  <2>1. /\ \A x \in Kinds \X Emails : token[x] = 0
        /\ \A e \in Emails : password[e] = 0 /\ session[e].login = 0 /\ session[e].pw = 0
        /\ drawn = 0 /\ revoked = {}
    OBVIOUS
  <2>2. \A r \in Requests : rq[r].token = 0 /\ rq[r].session.login = 0 /\ rq[r].session.pw = 0
    OBVIOUS
  <2> HIDE DEF Init
  <2> QED BY <2>1, <2>2 DEF Bounded
<1>3. /\ \A r \in Requests : rq[r].pc = "idle"
      /\ users = {} /\ verified = {} /\ workspaces = {}
      /\ \A k \in Kinds, e \in Emails : token[k, e] = 0
      /\ \A e \in Emails : session[e].id = 0
  <2>1. \A k \in Kinds, e \in Emails : <<k, e>> \in Kinds \X Emails
    OBVIOUS
  <2> QED BY <2>1
<1>4. UsersFirst /\ OneRegistration /\ OwnToken /\ WorkspacesApart
  <2> HIDE DEF Init
  <2>1. UsersFirst
    BY <1>3 DEF UsersFirst, At, Starting
  <2>2. OneRegistration /\ OwnToken
    BY <1>3 DEF OneRegistration, OwnToken, At, Registering
  <2> QED BY <1>3, <2>1, <2>2 DEF WorkspacesApart
<1>7. FoundFree /\ TokenDelivered /\ RegistrationComplete
  <2> HIDE DEF Init
  <2> QED BY <1>3 DEF FoundFree, TokenDelivered, RegistrationComplete, At
<1>5. Distinct
  BY DEF Distinct
<1>6. RevokedKnown /\ RevokedStaysRevoked
  BY DEF RevokedKnown, RevokedStaysRevoked
<1> QED BY <1>1, <1>2, <1>4, <1>5, <1>6, <1>7 DEF Consistent

\* Everything that the tables, the requests and the history have to do with each other
\* holds of any number of persons and of requests that overlap in any way (auth.service.ts).
THEOREM AccountsConsistent == Spec => []Consistent
<1>1. Consistent /\ [Next]_vars => Consistent'
  <2> SUFFICES ASSUME Consistent, [Next]_vars PROVE Consistent'
    OBVIOUS
  <2>1. Sound /\ Tokens /\ Outcomes /\ Sessions
    BY Parts
  <2>2. Sound' /\ Tokens' /\ Sessions'
    BY <2>1, NextSound, NextTokens, NextSessions DEF Tokens
  <2>3. Outcomes'
    BY <2>1, <2>2, NextOutcomes
  <2> QED BY <2>2, <2>3 DEF Consistent, Sound, Tokens, Outcomes, Sessions
<1> QED BY <1>1, InitConsistent, PTL DEF Spec

\* Two registrations, however they overlap, share neither a slug nor an email.
THEOREM WorkspacesAlwaysApart == Spec => []WorkspacesApart
<1>1. Consistent => WorkspacesApart
  BY DEF Consistent
<1> QED BY <1>1, AccountsConsistent, PTL

\* One who registered has a workspace or is about to, unless a failure ended that registration
\* or another one took the slug after it had been found free.
THEOREM RegistrationAlwaysComplete == Spec => []RegistrationComplete
<1>1. Consistent => RegistrationComplete
  BY DEF Consistent
<1> QED BY <1>1, AccountsConsistent, PTL

\* The stored token is one that was mailed or is about to be, unless the request that was to
\* mail it ended in one of these two ways.
THEOREM TokenAlwaysDelivered == Spec => []TokenDelivered
<1>1. Consistent => TokenDelivered
  BY DEF Consistent
<1> QED BY <1>1, AccountsConsistent, PTL

\* A session that outlives its revocation was stored by a request that had read it before.
THEOREM RevokedAlwaysStays == Spec => []RevokedStaysRevoked
<1>1. Consistent => RevokedStaysRevoked
  BY DEF Consistent
<1> QED BY <1>1, AccountsConsistent, PTL
=============================================================================

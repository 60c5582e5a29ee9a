------------------------------ MODULE Accounts ------------------------------
(***************************************************************************)
(* Registration, verification, sessions and passwords: the requests that   *)
(* auth.service.ts serves, and what acceptInvite (workspace.service.ts)    *)
(* does to the table User.                                                 *)
(*                                                                         *)
(* A person is an email.  A request is a process of which each awaited     *)
(* call is an action; nothing but the unique keys keeps two requests       *)
(* apart.  Tokens, passwords and sessions are numbers, each drawn fresh.   *)
(* All registrations ask for the same workspace name, so that they compete *)
(* for one series of slugs.  A definition directly above the one it        *)
(* resembles is a deliberately broken variant of it, which the properties  *)
(* are shown to reject.                                                    *)
(***************************************************************************)
EXTENDS Naturals, FiniteSets

CONSTANTS
  Emails,
  None,           \* no email
  Requests,       \* requests the API process serves at once
  MaxSecrets,     \* bound: tokens, passwords and sessions drawn
  MaxFailures     \* bound: awaited calls that fail, and crashes of the API process

ASSUME AccountsAssumption ==
  /\ None \notin Emails
  /\ MaxSecrets \in Nat /\ MaxFailures \in Nat

VARIABLES
  users,       \* emails with a row in table User, which none ever leaves
  verified,    \* those with emailVerified
  password,    \* passwordHash, by email
  token,       \* by kind and email: emailVerificationToken, resetPasswordToken and
               \* profileSetupToken; 0 is null
  session,     \* by email: refreshTokenHash (id, 0 is null), with the login it goes
               \* back to and the password that login was made with (history)
  workspaces,  \* table Workspace with the owner's row of WorkspaceMember
  cooling,     \* cooldown keys in Redis: kind and email
  mailed,      \* tokens that were queued to be mailed
  drawn,       \* how many secrets were drawn
  guests,      \* history: users whose row acceptInvite created
  revoked,     \* history: logins and passwords that a logout, a reset or a newer login ended
  outlived,    \* history: those of them that a request then under way had read
  found,       \* history: slugs that were found free, with the email and token of the request
  cut,         \* history: emails and tokens of requests that a failure ended while they had
               \* a token to mail, and whether they still had a workspace to create
  rq,          \* the requests
  failures

rows == <<users, verified, password, token, session>>
history == <<guests, revoked, outlived, found, cut>>
vars == <<rows, workspaces, cooling, mailed, drawn, history, rq, failures>>

Kinds == {"verify", "reset", "setup"}
NoSession == [id |-> 0, login |-> 0, pw |-> 0]
NoRequest == [pc |-> "idle", email |-> None, kind |-> "verify", token |-> 0,
              session |-> NoSession, slug |-> 0]

Fresh == drawn + 1
Draw == drawn' = Fresh

At(r, pc) == rq[r].pc = pc
\* Each request draws at most one secret, and one that begins is not to run out of them.
Room == drawn + Cardinality({r \in Requests : ~At(r, "idle")}) < MaxSecrets
Goto(r, pc) == rq' = [rq EXCEPT ![r].pc = pc]
Done(r) == rq' = [rq EXCEPT ![r] = NoRequest]
Begin(r, pc, e, kind, t, s) ==
  /\ At(r, "idle")
  /\ pc = "verify" \/ Room
  /\ rq' = [rq EXCEPT ![r] = [pc |-> pc, email |-> e, kind |-> kind, token |-> t,
                              session |-> s, slug |-> 0]]
Carry(r, pc, t) ==
  rq' = [rq EXCEPT ![r] = [pc |-> pc, email |-> rq[r].email, kind |-> rq[r].kind,
                           token |-> t, session |-> rq[r].session, slug |-> rq[r].slug]]

Taken(n) == \E w \in workspaces : w.slug = n
Owns(e) == \E w \in workspaces : w.owner = e

UnchangedBut_rq == UNCHANGED <<rows, workspaces, cooling, mailed, drawn, history, failures>>

-----------------------------------------------------------------------------
(* register *)

StartRegister(r, e) ==
  /\ e \notin users
  /\ Begin(r, "create", e, "verify", 0, NoSession)
  /\ UnchangedBut_rq

\* As if the row were upserted.
CreateUserOver(r) ==
  /\ At(r, "create")
  /\ LET e == rq[r].email IN
       /\ Draw
       /\ users' = users \cup {e}
       /\ password' = [password EXCEPT ![e] = Fresh]
       /\ token' = [token EXCEPT ![<<"verify", e>>] = Fresh]
       /\ Carry(r, "slug", Fresh)
       /\ UNCHANGED <<verified, session>>
  /\ UNCHANGED <<workspaces, cooling, mailed, history, failures>>

\* The email is unique: the second of two registrations fails here.
CreateUser(r) ==
  /\ At(r, "create")
  /\ LET e == rq[r].email IN
       \/ /\ e \notin users
          /\ Draw
          /\ users' = users \cup {e}
          /\ password' = [password EXCEPT ![e] = Fresh]
          /\ token' = [token EXCEPT ![<<"verify", e>>] = Fresh]
          /\ Carry(r, "slug", Fresh)
          /\ UNCHANGED <<verified, session>>
       \/ e \in users /\ Done(r) /\ UNCHANGED <<rows, drawn>>
  /\ UNCHANGED <<workspaces, cooling, mailed, history, failures>>

Found(r) == [email |-> rq[r].email, slug |-> rq[r].slug, token |-> rq[r].token]

\* As if the counter were not increased.
FindSlugAgain(r) ==
  /\ At(r, "slug")
  /\ IF Taken(rq[r].slug) THEN UNCHANGED <<rq, found>>
                          ELSE Goto(r, "workspace") /\ found' = found \cup {Found(r)}
  /\ UNCHANGED <<rows, workspaces, cooling, mailed, drawn, guests, revoked, outlived, cut,
                 failures>>

\* As if a slug that is taken were an error.
FindSlugOnce(r) ==
  /\ At(r, "slug")
  /\ IF Taken(rq[r].slug) THEN Done(r) /\ UNCHANGED found
                          ELSE Goto(r, "workspace") /\ found' = found \cup {Found(r)}
  /\ UNCHANGED <<rows, workspaces, cooling, mailed, drawn, guests, revoked, outlived, cut,
                 failures>>

\* One turn of the loop in generateUniqueSlug.
FindSlug(r) ==
  /\ At(r, "slug")
  /\ IF Taken(rq[r].slug)
       THEN rq' = [rq EXCEPT ![r].slug = rq[r].slug + 1] /\ UNCHANGED found
       ELSE Goto(r, "workspace") /\ found' = found \cup {Found(r)}
  /\ UNCHANGED <<rows, workspaces, cooling, mailed, drawn, guests, revoked, outlived, cut,
                 failures>>

\* As if slug were not unique.
CreateWorkspaceAnyway(r) ==
  /\ At(r, "workspace")
  /\ workspaces' = workspaces \cup {[slug |-> rq[r].slug, owner |-> rq[r].email]}
  /\ Goto(r, "mail")
  /\ UNCHANGED <<rows, cooling, mailed, drawn, history, failures>>

\* The transaction of createWithOwner.  If the slug has been taken since it was found
\* free, the unique key fails it: the registration ends, and the user stays.
CreateWorkspace(r) ==
  /\ At(r, "workspace")
  /\ LET w == [slug |-> rq[r].slug, owner |-> rq[r].email] IN
       \/ ~Taken(w.slug) /\ workspaces' = workspaces \cup {w} /\ Goto(r, "mail")
       \/ Taken(w.slug) /\ Done(r) /\ UNCHANGED workspaces
  /\ UNCHANGED <<rows, cooling, mailed, drawn, history, failures>>

\* emailQueue.add, the last call of every request that mails a token.
Mail(r) ==
  /\ At(r, "mail")
  /\ mailed' = mailed \cup {rq[r].token}
  /\ Done(r)
  /\ UNCHANGED <<rows, workspaces, cooling, drawn, history, failures>>

-----------------------------------------------------------------------------
(* resendVerification and forgetPassword: check the cooldown, store a token,
   set the cooldown, mail the token. *)

StartResend(r, e) ==
  /\ e \in users /\ e \notin verified
  /\ Begin(r, "cooldown", e, "verify", 0, NoSession)
  /\ UnchangedBut_rq

StartForget(r, e) ==
  /\ e \in users
  /\ Begin(r, "cooldown", e, "reset", 0, NoSession)
  /\ UnchangedBut_rq

\* The key lapses some time after it was set; that it has is known when it is looked for.
CheckCooldown(r) ==
  /\ At(r, "cooldown")
  /\ LET key == <<rq[r].kind, rq[r].email>> IN
       \/ key \in cooling /\ Done(r) /\ UNCHANGED cooling
       \/ Goto(r, "store") /\ cooling' = cooling \ {key}
  /\ UNCHANGED <<rows, workspaces, mailed, drawn, history, failures>>

StoreToken(r) ==
  /\ At(r, "store") /\ Draw
  /\ token' = [token EXCEPT ![<<rq[r].kind, rq[r].email>>] = Fresh]
  /\ Carry(r, "cool", Fresh)
  /\ UNCHANGED <<users, verified, password, session, workspaces, cooling, mailed,
                 history, failures>>

\* As if nothing were mailed to one whose cooldown another request has begun.
SetCooldownOnce(r) ==
  /\ At(r, "cool")
  /\ LET key == <<rq[r].kind, rq[r].email>> IN
       /\ cooling' = cooling \cup {key}
       /\ IF key \in cooling THEN Done(r) ELSE Goto(r, "mail")
  /\ UNCHANGED <<rows, workspaces, mailed, drawn, history, failures>>

SetCooldown(r) ==
  /\ At(r, "cool")
  /\ cooling' = cooling \cup {<<rq[r].kind, rq[r].email>>}
  /\ Goto(r, "mail")
  /\ UNCHANGED <<rows, workspaces, mailed, drawn, history, failures>>

-----------------------------------------------------------------------------
(* verifyEmail, resetPassword and completeProfile: find the user by a token
   that was mailed, check its time, and write to the row found, whatever has
   become of it since.  A token whose time has passed is refused like one that
   is not found, which is as if it were not presented. *)

StartUse(r, kind, e) ==
  /\ token[kind, e] \in mailed \ {0}
  /\ kind = "verify" => e \notin verified
  /\ Begin(r, kind, e, kind, token[kind, e], NoSession)
  /\ UnchangedBut_rq

Verify(r) ==
  /\ At(r, "verify")
  /\ verified' = verified \cup {rq[r].email}
  /\ token' = [token EXCEPT ![<<"verify", rq[r].email>>] = 0]
  /\ Done(r)
  /\ UNCHANGED <<users, password, session, workspaces, cooling, mailed, drawn,
                 history, failures>>

\* Requests about to store a session on the strength of c, a login or a password.
Relies(r, c) ==
  /\ rq[r].pc \in {"login", "rotate"}
  /\ c \in {rq[r].session.login, rq[r].session.pw}

Revoke(S) ==
  /\ revoked' = revoked \cup (S \ {0})
  /\ outlived' = outlived \cup {c \in S \ {0} : \E r \in Requests : Relies(r, c)}
  /\ UNCHANGED <<guests, found, cut>>

\* As if a reset left the session alone.
ResetKeepingSession(r) ==
  /\ At(r, "reset") /\ Draw
  /\ LET e == rq[r].email IN
       /\ password' = [password EXCEPT ![e] = Fresh]
       /\ token' = [token EXCEPT ![<<"reset", e>>] = 0]
       /\ Revoke({password[e], session[e].login})
  /\ Done(r)
  /\ UNCHANGED <<users, verified, session, workspaces, cooling, mailed, failures>>

Reset(r) ==
  /\ At(r, "reset") /\ Draw
  /\ LET e == rq[r].email IN
       /\ password' = [password EXCEPT ![e] = Fresh]
       /\ token' = [token EXCEPT ![<<"reset", e>>] = 0]
       /\ session' = [session EXCEPT ![e] = NoSession]
       /\ Revoke({password[e], session[e].login})
  /\ Done(r)
  /\ UNCHANGED <<users, verified, workspaces, cooling, mailed, failures>>

\* completeProfile leaves the session alone.
SetUp(r) ==
  /\ At(r, "setup") /\ Draw
  /\ password' = [password EXCEPT ![rq[r].email] = Fresh]
  /\ token' = [token EXCEPT ![<<"setup", rq[r].email>>] = 0]
  /\ Done(r)
  /\ UNCHANGED <<users, verified, session, workspaces, cooling, mailed, history,
                 failures>>

-----------------------------------------------------------------------------
(* Sessions.  A user has one refresh token, and each write replaces it. *)

\* The password is compared with the hash that was read; the session is stored later.
StartLogin(r, e) ==
  /\ e \in verified
  /\ Begin(r, "login", e, "verify", 0, [id |-> 0, login |-> 0, pw |-> password[e]])
  /\ UnchangedBut_rq

\* login, and acceptInvite for one who has an account: a session that goes back to itself.
StoreSession(r) ==
  /\ rq[r].pc \in {"login", "join"} /\ Draw
  /\ LET e == rq[r].email IN
       /\ session' = [session EXCEPT ![e] = [id |-> Fresh, login |-> Fresh,
                                             pw |-> rq[r].session.pw]]
       /\ Revoke({session[e].login})
  /\ Done(r)
  /\ UNCHANGED <<users, verified, password, token, workspaces, cooling, mailed,
                 failures>>

\* The user is found by the hash of the token that the client presents.
StartRefresh(r, e) ==
  /\ session[e].id # 0
  /\ Begin(r, "rotate", e, "verify", 0, session[e])
  /\ UnchangedBut_rq

\* The new token is stored by the user's id, whatever is stored there by now.
Rotate(r) ==
  /\ At(r, "rotate") /\ Draw
  /\ LET s == rq[r].session IN
       session' = [session EXCEPT ![rq[r].email] = [id |-> Fresh, login |-> s.login, pw |-> s.pw]]
  /\ Done(r)
  /\ UNCHANGED <<users, verified, password, token, workspaces, cooling, mailed,
                 history, failures>>

\* As if only the cookie were dropped.
LogoutClient(e) ==
  /\ session[e].id # 0
  /\ Revoke({session[e].login})
  /\ UNCHANGED <<rows, workspaces, cooling, mailed, drawn, rq, failures>>

\* One write, for the user that the access token names.
Logout(e) ==
  /\ session[e].id # 0
  /\ session' = [session EXCEPT ![e] = NoSession]
  /\ Revoke({session[e].login})
  /\ UNCHANGED <<users, verified, password, token, workspaces, cooling, mailed,
                 drawn, rq, failures>>

-----------------------------------------------------------------------------
(* acceptInvite, as far as it writes to User; Membership has the rest of it. *)

StartAccept(r, e) ==
  /\ Begin(r, IF e \in users THEN "join" ELSE "invite", e, "setup", 0, NoSession)
  /\ UnchangedBut_rq

\* The new user is verified, and has a password that nobody knows.
CreateGuest(r) ==
  /\ At(r, "invite")
  /\ LET e == rq[r].email IN
       \/ /\ e \notin users
          /\ Draw
          /\ users' = users \cup {e} /\ verified' = verified \cup {e}
          /\ password' = [password EXCEPT ![e] = Fresh]
          /\ token' = [token EXCEPT ![<<"setup", e>>] = Fresh]
          /\ guests' = guests \cup {e}
          /\ Carry(r, "mail", Fresh)
          /\ UNCHANGED session
       \/ e \in users /\ Done(r) /\ UNCHANGED <<rows, drawn, guests>>
  /\ UNCHANGED <<workspaces, cooling, mailed, revoked, outlived, found, cut, failures>>

-----------------------------------------------------------------------------
(* Failure *)

Lost(r) ==
  [email |-> rq[r].email, token |-> rq[r].token, joining |-> rq[r].pc \in {"slug", "workspace"}]
Cut(S) ==
  cut' = cut \cup {Lost(r) : r \in {q \in S : rq[q].pc \in {"slug", "workspace", "cool", "mail"}}}

\* An awaited call fails.  The failure of the last one, Mail, is logged, that of any other
\* is answered; either way the request is over.
Fault(r) ==
  /\ ~At(r, "idle") /\ failures < MaxFailures
  /\ failures' = failures + 1
  /\ Done(r) /\ Cut({r})
  /\ UNCHANGED <<rows, workspaces, cooling, mailed, drawn, guests, revoked, outlived, found>>

Crash ==
  /\ failures < MaxFailures
  /\ failures' = failures + 1
  /\ rq' = [r \in Requests |-> NoRequest] /\ Cut(Requests)
  /\ UNCHANGED <<rows, workspaces, cooling, mailed, drawn, guests, revoked, outlived, found>>

-----------------------------------------------------------------------------
Init ==
  /\ users = {} /\ verified = {}
  /\ password = [e \in Emails |-> 0]
  /\ token = [x \in Kinds \X Emails |-> 0]
  /\ session = [e \in Emails |-> NoSession]
  /\ workspaces = {} /\ cooling = {} /\ mailed = {} /\ drawn = 0
  /\ guests = {} /\ revoked = {} /\ outlived = {} /\ found = {} /\ cut = {}
  /\ rq = [r \in Requests |-> NoRequest]
  /\ failures = 0

Start(r) ==
  \E e \in Emails :
    \/ StartRegister(r, e) \/ StartResend(r, e) \/ StartForget(r, e)
    \/ StartLogin(r, e) \/ StartRefresh(r, e) \/ StartAccept(r, e)
    \/ \E kind \in Kinds : StartUse(r, kind, e)

RequestStep(r) ==
  \/ CreateUser(r) \/ FindSlug(r) \/ CreateWorkspace(r) \/ Mail(r)
  \/ CheckCooldown(r) \/ StoreToken(r) \/ SetCooldown(r)
  \/ Verify(r) \/ Reset(r) \/ SetUp(r)
  \/ StoreSession(r) \/ Rotate(r) \/ CreateGuest(r)

Next ==
  \/ \E r \in Requests : Start(r) \/ RequestStep(r) \/ Fault(r)
  \/ \E e \in Emails : Logout(e)
  \/ Crash

Spec == Init /\ [][Next]_vars

\* The process goes on with a request it has accepted.
FairSpec == Spec /\ \A r \in Requests : WF_vars(RequestStep(r))

-----------------------------------------------------------------------------
SessionType == [id : Nat, login : Nat, pw : Nat]
Pcs == {"idle", "create", "slug", "workspace", "mail", "cooldown", "store", "cool",
        "verify", "reset", "setup", "login", "join", "rotate", "invite"}

Cuts == [email : Emails, token : Nat, joining : BOOLEAN]
Request == [pc : Pcs, email : Emails \cup {None}, kind : Kinds, token : Nat,
            session : SessionType, slug : Nat]

TypeOK ==
  /\ users \subseteq Emails /\ verified \subseteq Emails /\ guests \subseteq Emails
  /\ password \in [Emails -> Nat]
  /\ token \in [Kinds \X Emails -> Nat]
  /\ session \in [Emails -> SessionType]
  /\ workspaces \subseteq [slug : Nat, owner : Emails]
  /\ cooling \subseteq Kinds \X Emails
  /\ mailed \subseteq Nat
  /\ drawn \in Nat /\ failures \in Nat
  /\ revoked \subseteq Nat /\ outlived \subseteq Nat
  /\ found \subseteq [email : Emails, slug : Nat, token : Nat] /\ cut \subseteq Cuts
  /\ rq \in [Requests -> Request]

\* Two workspaces share neither a slug nor a person who registered, although the email and
\* the slug are looked up (auth.service.ts:45, auth.repository.ts:116) long before they are stored.
WorkspacesApart ==
  \A w, v \in workspaces : w.slug = v.slug \/ w.owner = v.owner => w = v

\* The requests that will still see to e's workspace.
Registering(r, e) == rq[r].email = e /\ rq[r].pc \in {"slug", "workspace"}

\* A slug that was found free belongs to another by now.
Outrun(f) == \E w \in workspaces : w.slug = f.slug /\ w.owner # f.email

\* Who registered has a workspace or is about to have one, unless a failure ended this very
\* registration or another one took the slug after this one had found it free
\* (auth.service.ts:71): nothing undoes the row of the user then, and the email is taken.
\* Slugs that were taken before, the failures of others and other workspaces cost nobody one.
RegistrationComplete ==
  \A e \in users \ guests :
    \/ Owns(e)
    \/ \E r \in Requests : Registering(r, e)
    \/ \E q \in cut : q.email = e /\ q.joining
    \/ \E f \in found : f.email = e /\ Outrun(f)

\* The requests that will still mail t.
Mailing(r, t) == rq[r].token = t /\ rq[r].pc \in {"slug", "workspace", "cool", "mail"}

\* The token that is stored is one that was mailed or is about to be, however many requests
\* for one overlap: the person can go on with the latest token.  It is lost only with the very
\* request that was to mail it: by a failure, or by the loss of the slug that it had found.
TokenDelivered ==
  \A k \in Kinds, e \in Emails :
    LET t == token[k, e] IN
      \/ t = 0 \/ t \in mailed
      \/ \E r \in Requests : Mailing(r, t)
      \/ \E q \in cut : q.token = t
      \/ \E f \in found : f.token = t /\ Outrun(f)

\* A session whose login or password was ended (by a logout, a reset, a newer login) is
\* stored only if a login or a refresh that had read it was under way at that moment
\* (auth.service.ts:296 stores by id what it found by token).
RevokedStaysRevoked ==
  \A e \in Emails :
    session[e].id # 0 => {session[e].login, session[e].pw} \cap revoked \subseteq outlived

-----------------------------------------------------------------------------
(* Parts of the inductive invariant. *)

Starting == {"idle", "create", "invite"}

\* What was drawn is behind the counter.
Bounded ==
  /\ \A x \in Kinds \X Emails : token[x] <= drawn
  /\ \A e \in Emails : password[e] <= drawn /\ session[e].login <= drawn /\ session[e].pw <= drawn
  /\ \A r \in Requests : /\ rq[r].token <= drawn
                         /\ rq[r].session.login <= drawn /\ rq[r].session.pw <= drawn
  /\ \A c \in revoked : c <= drawn

\* Only a user has tokens, a session, a workspace, or a request beyond its first call.
UsersFirst ==
  /\ \A e \in Emails : session[e].id # 0 => e \in users
  /\ \A k \in Kinds, e \in Emails : token[k, e] # 0 => e \in users
  /\ \A w \in workspaces : w.owner \in users
  /\ \A r \in Requests : ~At(r, "idle") => rq[r].email \in Emails
  /\ \A r \in Requests : rq[r].pc \notin Starting => rq[r].email \in users
  /\ verified \subseteq users

\* The unique email lets one request register a user, who has no workspace until it is done.
OneRegistration ==
  \A r \in Requests, e \in Emails : Registering(r, e) =>
    ~Owns(e) /\ rq[r].kind = "verify" /\ \A q \in Requests : Registering(q, e) => q = r

\* A token that is being mailed is stored for the person and the kind it was drawn for, if at all.
OwnToken ==
  \A r \in Requests :
    /\ At(r, "create") => rq[r].kind = "verify"
    /\ At(r, "invite") => rq[r].kind = "setup"
    /\ rq[r].pc \in {"slug", "workspace", "cool", "mail"} => \A k \in Kinds, e \in Emails :
         rq[r].token # 0 /\ token[k, e] = rq[r].token => k = rq[r].kind /\ e = rq[r].email

\* What a registration is about to store is what it found.
FoundFree == \A r \in Requests : At(r, "workspace") => Found(r) \in found

\* The logins and the passwords of e that are stored or were read.
LoginOf(e, x) == x = session[e].login \/ \E r \in Requests : rq[r].email = e /\ x = rq[r].session.login
PwOf(e, x) ==
  \/ x = password[e] \/ x = session[e].pw
  \/ \E r \in Requests : rq[r].email = e /\ x = rq[r].session.pw

\* No two persons share any, and no login is a password.
Distinct ==
  \A e, f \in Emails, x \in 1..drawn :
    /\ LoginOf(e, x) /\ LoginOf(f, x) => e = f
    /\ PwOf(e, x) /\ PwOf(f, x) => e = f
    /\ ~(LoginOf(e, x) /\ PwOf(f, x))

\* The current password was never ended, and what a request relies on was ended, if at
\* all, while it was under way.
RevokedKnown ==
  /\ 0 \notin revoked
  /\ \A e \in Emails : password[e] \notin revoked
  /\ \A r \in Requests :
       /\ {rq[r].session.login, rq[r].session.pw} \cap revoked \subseteq outlived
       /\ rq[r].pc \notin {"login", "rotate"} => rq[r].session = NoSession

Consistent ==
  /\ TypeOK /\ Bounded /\ UsersFirst /\ OneRegistration /\ OwnToken /\ FoundFree
  /\ TokenDelivered /\ Distinct /\ RevokedKnown /\ WorkspacesApart /\ RegistrationComplete
  /\ RevokedStaysRevoked

\* Every request comes to an end, the unbounded loop of generateUniqueSlug included: again
\* and again nothing of it is left to do.
RequestsEnd == \A r \in Requests : []<>At(r, "idle")
=============================================================================

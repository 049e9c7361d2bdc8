---------------------------- MODULE IdentityAccess ----------------------------
(***************************************************************************)
(* Who may sign in and with what: enrolment into organizations, the        *)
(* bootstrap command, one-time login attempts, the binding of a provider's *)
(* subject to a user, and sessions and their limit.                        *)
(*                                                                         *)
(* A person is a verified e-mail address.  The provider is external: an    *)
(* authorization code is exchanged for any subject with any address, as    *)
(* accounts and addresses change over there, or for nothing at all.        *)
(***************************************************************************)
EXTENDS Integers, Sequences, FiniteSets, AccessControl

CONSTANTS
  Orgs,          \* organizations
  People,        \* e-mail addresses
  Subjects,      \* accounts at the identity provider
  EnrolledRoles, \* roles an enrolment may ask for
  Requests,      \* concurrent requests
  DataStores,    \* which store the API may run on: "memory", "postgres"
  SessionLimit,  \* active sessions of a user: 5
  MaxAttempts,   \* bound: login attempts
  MaxOpen        \* bound: login attempts that wait for their callback at once

ASSUME DataStoresAssumption == DataStores \subseteq {"memory", "postgres"}
ASSUME EnrolledRolesAssumption == EnrolledRoles \subseteq Roles
ASSUME IdentityBoundsAssumption == SessionLimit \in Nat \ {0} /\ {MaxAttempts, MaxOpen} \subseteq Nat

VARIABLES
  dataStore,     \* the store in use
  users,         \* identity_users: the people enrolled
  orgs,          \* organizations created
  memberships,   \* <<organization, user, role>>
  appointed,     \* memberships there have ever been (history)
  founders,      \* users who created an organization (history)
  bootstraps,    \* runs of the bootstrap command that went through (history)
  bindings,      \* identity_subjects: <<subject, user>> of the one issuer
  attempts,      \* oidc_login_attempts: "open", or "gone" once used or expired
  sessions,      \* identity_sessions, in the order of their creation
  request        \* the state of each request

directory == <<users, orgs, memberships, appointed, founders, bootstraps>>
logins == <<bindings, attempts, sessions>>
vars == <<dataStore, directory, logins, request>>

Idle == [pc |-> "idle"]

Init ==
  /\ dataStore \in DataStores
  /\ users = {} /\ orgs = {} /\ memberships = {} /\ appointed = {} /\ founders = {}
  /\ bootstraps = [o \in Orgs |-> 0]
  /\ bindings = {} /\ attempts = << >> /\ sessions = << >>
  /\ request = [c \in Requests |-> Idle]

Goto(c, state) == request' = [request EXCEPT ![c] = state]

MembershipsOf(u) == {m \in memberships : m[2] = u}
OrgsOf(u) == {m[1] : m \in MembershipsOf(u)}

\* A user has one membership of an organization, and so one role in it.
Appoint(o, u, role) ==
  /\ memberships' = {m \in memberships : m[1] # o \/ m[2] # u} \cup {<<o, u, role>>}
  /\ appointed' = appointed \cup {<<o, u, role>>}

-----------------------------------------------------------------------------
(* Organizations and enrolment.                                            *)

\* createOrganization: the actor becomes its administrator, whatever else the
\* actor belongs to; a token may also be of nobody who is enrolled.
CreateOrganization(o, founder) ==
  /\ o \notin orgs
  /\ founder \subseteq users /\ Cardinality(founder) <= 1
  /\ orgs' = orgs \cup {o}
  /\ IF founder = {} THEN UNCHANGED <<memberships, appointed>>
     ELSE \E u \in founder : Appoint(o, u, "organization_admin")
  /\ founders' = founders \cup founder
  /\ UNCHANGED <<dataStore, users, bootstraps, logins, request>>

\* enrollIdentityUser of the in-memory store, without an await: an address that
\* is enrolled elsewhere is refused (409).
EnrolInMemory(o, u, role) ==
  /\ dataStore = "memory"
  /\ o \in orgs /\ OrgsOf(u) \subseteq {o}
  /\ users' = users \cup {u}
  /\ Appoint(o, u, role)
  /\ UNCHANGED <<dataStore, orgs, founders, bootstraps, logins, request>>

\* Slip: the upsert leaves an existing row alone, and does not lock it.
UpsertUser_NoLock(c, o, u, role) ==
  /\ dataStore = "postgres"
  /\ request[c] = Idle
  /\ o \in orgs
  /\ OrgsOf(u) \subseteq {o}
  /\ Goto(c, [pc |-> "enroll", org |-> o, user |-> u, role |-> role])
  /\ UNCHANGED <<dataStore, directory, logins>>

\* The row of address u is locked by an enrolment that has not committed.
Locked(u) == \E d \in Requests : request[d].pc = "enroll" /\ request[d].user = u

\* In Postgres, ON CONFLICT DO UPDATE locks the row of the address until the
\* transaction ends; only then is the other membership looked for (409).
UpsertUser(c, o, u, role) ==
  /\ dataStore = "postgres"
  /\ request[c] = Idle
  /\ o \in orgs
  /\ ~Locked(u)
  /\ OrgsOf(u) \subseteq {o}
  /\ Goto(c, [pc |-> "enroll", org |-> o, user |-> u, role |-> role])
  /\ UNCHANGED <<dataStore, directory, logins>>

\* The membership is inserted, or its role updated, and the transaction commits.
Enrol(c) ==
  /\ request[c].pc = "enroll"
  /\ users' = users \cup {request[c].user}
  /\ Appoint(request[c].org, request[c].user, request[c].role)
  /\ Goto(c, Idle)
  /\ UNCHANGED <<dataStore, orgs, founders, bootstraps, logins>>

\* bootstrap-identity: one command at a time, and only while nobody who is
\* enrolled belongs to the organization.
BootstrapCheck(c, o, u) ==
  /\ dataStore = "postgres"
  /\ request[c] = Idle
  /\ \A d \in Requests : request[d].pc # "bootstrap"
  /\ o \in orgs /\ ~\E m \in memberships : m[1] = o /\ m[2] \in users
  /\ Goto(c, [pc |-> "bootstrap", org |-> o, user |-> u])
  /\ UNCHANGED <<dataStore, directory, logins>>

\* The insert waits for an enrolment of the address, and fails if there is one.
Bootstrap(c) ==
  /\ request[c].pc = "bootstrap"
  /\ request[c].user \notin users /\ ~Locked(request[c].user)
  /\ users' = users \cup {request[c].user}
  /\ Appoint(request[c].org, request[c].user, "organization_admin")
  /\ bootstraps' = [bootstraps EXCEPT ![request[c].org] = @ + 1]
  /\ Goto(c, Idle)
  /\ UNCHANGED <<dataStore, orgs, founders, logins>>

-----------------------------------------------------------------------------
(* Signing in.                                                             *)

\* begin: state, nonce and code verifier are stored for ten minutes.
BeginLogin ==
  /\ Len(attempts) < MaxAttempts
  /\ Cardinality({a \in DOMAIN attempts : attempts[a] = "open"}) < MaxOpen
  /\ attempts' = Append(attempts, "open")
  /\ UNCHANGED <<dataStore, directory, bindings, sessions, request>>

ExpireAttempt(a) ==
  /\ attempts[a] = "open"
  /\ attempts' = [attempts EXCEPT ![a] = "gone"]
  /\ UNCHANGED <<dataStore, directory, bindings, sessions, request>>

\* Slip: the attempt is read, and stays.
ConsumeAttempt_Reads(c, a) ==
  /\ request[c] = Idle
  /\ attempts[a] = "open"
  /\ Goto(c, [pc |-> "exchange", attempt |-> a])
  /\ UNCHANGED <<dataStore, directory, logins>>

\* complete: the callback takes the attempt out of the store; an attempt that
\* is used or has expired is refused.
ConsumeAttempt(c, a) ==
  /\ request[c] = Idle
  /\ attempts[a] = "open"
  /\ attempts' = [attempts EXCEPT ![a] = "gone"]
  /\ Goto(c, [pc |-> "exchange", attempt |-> a])
  /\ UNCHANGED <<dataStore, directory, bindings, sessions>>

\* Slip: the role is one the provider claims.
RolesOf_Claimed(v) == {[org |-> m[1], role |-> role] : m \in MembershipsOf(v), role \in EnrolledRoles}

RolesOf(v) == {[org |-> m[1], role |-> m[3]] : m \in MembershipsOf(v)}

\* A login on its way to a session: the account and the user it signs in, the
\* membership it found, and whether an overlapping login bound the account
\* after this one had looked for it (history).
Login(c, subject, v, access, overtaken) ==
  [pc |-> "create", attempt |-> request[c].attempt, subject |-> subject, user |-> v, access |-> access,
   overtaken |-> overtaken]

BoundTo(subject) == {b[2] : b \in {b \in bindings : b[1] = subject}}
AccountsOf(v) == {b[1] : b \in {b \in bindings : b[2] = v}}

\* Whom resolveIdentity of the in-memory store finds: the user the account is
\* bound to; before the first login, the user with the verified address, unless
\* the user is bound to another account.
Identified(subject, u) ==
  IF BoundTo(subject) # {} THEN BoundTo(subject)
  ELSE {v \in {u} \cap users : AccountsOf(v) = {}}

\* The code is exchanged for a verified address with MFA.  In memory the identity
\* is resolved without an await, and the account is bound before the memberships
\* are counted: only a user of exactly one organization goes on.
ResolveInMemory(c, subject, u) ==
  /\ dataStore = "memory"
  /\ request[c].pc = "exchange"
  /\ \E v \in Identified(subject, u) :
       /\ bindings' = bindings \cup {<<subject, v>>}
       /\ IF Cardinality(OrgsOf(v)) = 1
          THEN \E access \in RolesOf(v) : Goto(c, Login(c, subject, v, access, FALSE))
          ELSE Goto(c, Idle)
  /\ UNCHANGED <<dataStore, directory, attempts, sessions>>

\* resolveIdentity of Postgres is one transaction of statements that lock nothing
\* they read.  The first joins the account, its user and the memberships: one row
\* is who signs in, several are refused, none goes on to the address.
FindBySubject(c, subject, u) ==
  LET found == {v \in BoundTo(subject) : OrgsOf(v) # {}} IN
  /\ dataStore = "postgres"
  /\ request[c].pc = "exchange"
  /\ IF found = {}
     THEN Goto(c, [pc |-> "address", attempt |-> request[c].attempt, subject |-> subject, user |-> u])
     ELSE \E v \in found :
            IF Cardinality(OrgsOf(v)) = 1
            THEN \E access \in RolesOf(v) : Goto(c, Login(c, subject, v, access, FALSE))
            ELSE Goto(c, Idle)
  /\ UNCHANGED <<dataStore, directory, logins>>

\* The user with the verified address, who has one membership: the row this login
\* will return.
FindByAddress(c) ==
  /\ request[c].pc = "address"
  /\ Cardinality(OrgsOf(request[c].user)) = 1
  /\ \E access \in RolesOf(request[c].user) :
       Goto(c, [pc |-> "conflict", attempt |-> request[c].attempt, subject |-> request[c].subject,
                user |-> request[c].user, access |-> access])
  /\ UNCHANGED <<dataStore, directory, logins>>

\* The user has no other account.
CheckConflict(c) ==
  /\ request[c].pc = "conflict"
  /\ AccountsOf(request[c].user) \subseteq {request[c].subject}
  /\ Goto(c, [request[c] EXCEPT !.pc = "bind"])
  /\ UNCHANGED <<dataStore, directory, logins>>

\* Slip: the table is created without UNIQUE (issuer, user_id), as if the SELECT
\* before were enough.
BindSubject_NotUnique(c) ==
  LET login == request[c]
      overtaken == BoundTo(login.subject) # {} IN
  /\ login.pc = "bind"
  /\ bindings' = IF overtaken THEN bindings ELSE bindings \cup {<<login.subject, login.user>>}
  /\ Goto(c, Login(c, login.subject, login.user, login.access, overtaken))
  /\ UNCHANGED <<dataStore, directory, attempts, sessions>>

\* The INSERT waits for one of the same key, and the transaction commits.  An
\* account that was bound in the meantime, to whomever, only gets its
\* last_login_at (ON CONFLICT), and the login goes on as the user of its address;
\* a user who was bound in the meantime makes it fail (UNIQUE).
BindSubject(c) ==
  LET login == request[c]
      overtaken == BoundTo(login.subject) # {} IN
  /\ login.pc = "bind"
  /\ overtaken \/ AccountsOf(login.user) = {}
  /\ bindings' = IF overtaken THEN bindings ELSE bindings \cup {<<login.subject, login.user>>}
  /\ Goto(c, Login(c, login.subject, login.user, login.access, overtaken))
  /\ UNCHANGED <<dataStore, directory, attempts, sessions>>

\* A session, which keeps the role of its login; while its transaction runs, after it was rolled back, and else.
SessionRecord ==
  [user : People, access : [org : Orgs, role : Roles], attempt : Nat, subject : Subjects, overtaken : BOOLEAN,
   state : {"creating", "void", "active", "revoked"}, expired : BOOLEAN, overlaps : BOOLEAN]

\* The new session of a request; a token belongs to one session and stands for
\* it.  History: another session of the user was being created.
SessionOf(c, state) ==
  [user |-> request[c].user, access |-> request[c].access, attempt |-> request[c].attempt,
   subject |-> request[c].subject, overtaken |-> request[c].overtaken,
   state |-> state, expired |-> FALSE,
   overlaps |-> \E i \in DOMAIN sessions :
                   sessions[i].user = request[c].user /\ sessions[i].state = "creating"]

\* createIdentitySession of the in-memory store has no limit.
CreateInMemory(c) ==
  /\ dataStore = "memory"
  /\ request[c].pc = "create"
  /\ sessions' = Append(sessions, SessionOf(c, "active"))
  /\ Goto(c, Idle)
  /\ UNCHANGED <<dataStore, directory, bindings, attempts>>

\* Not revoked, expired or not.
Kept(u) == {i \in DOMAIN sessions : sessions[i].user = u /\ sessions[i].state = "active"}

\* Slip: OFFSET 5, the new session not counted.
Surplus_OneMore(u) ==
  {i \in Kept(u) : ~sessions[i].expired /\ Cardinality({j \in Kept(u) : j > i}) >= SessionLimit}

\* The sessions the UPDATE of createIdentitySession revokes: all but the
\* newest four.
Surplus(u) ==
  {i \in Kept(u) : ~sessions[i].expired /\ Cardinality({j \in Kept(u) : j > i}) >= SessionLimit - 1}

\* In Postgres the surplus is what the statement sees committed.
RetireSurplus(c) ==
  /\ dataStore = "postgres"
  /\ request[c].pc = "create"
  /\ sessions' = Append(sessions, SessionOf(c, "creating"))
  /\ Goto(c, [pc |-> "insert", session |-> Len(sessions) + 1, retired |-> Surplus(request[c].user)])
  /\ UNCHANGED <<dataStore, directory, bindings, attempts>>

\* The session is inserted and the transaction commits.
InsertSession(c) ==
  /\ request[c].pc = "insert"
  /\ sessions' = [i \in DOMAIN sessions |->
                    IF i = request[c].session THEN [sessions[i] EXCEPT !.state = "active"]
                    ELSE IF i \in request[c].retired THEN [sessions[i] EXCEPT !.state = "revoked"]
                    ELSE sessions[i]]
  /\ Goto(c, Idle)
  /\ UNCHANGED <<dataStore, directory, bindings, attempts>>

\* getIdentitySession accepts the session.
Usable(i) == sessions[i].state = "active" /\ ~sessions[i].expired

\* The route authenticates the session, then revokes it.
Logout(i) ==
  /\ Usable(i)
  /\ sessions' = [sessions EXCEPT ![i].state = "revoked"]
  /\ UNCHANGED <<dataStore, directory, bindings, attempts, request>>

ExpireSession(i) ==
  /\ Usable(i)
  /\ sessions' = [sessions EXCEPT ![i].expired = TRUE]
  /\ UNCHANGED <<dataStore, directory, bindings, attempts, request>>

-----------------------------------------------------------------------------
\* A request is refused or fails: the provider refuses the code or returns no
\* verified address or no MFA, resolveIdentity returns nobody, a statement fails,
\* the API stops.  What the
\* transaction did is undone.
Abort(c) ==
  /\ request[c] # Idle
  /\ sessions' = IF request[c].pc = "insert"
                 THEN [sessions EXCEPT ![request[c].session].state = "void"] ELSE sessions
  /\ Goto(c, Idle)
  /\ UNCHANGED <<dataStore, directory, bindings, attempts>>

Next ==
  \/ \E o \in Orgs, founder \in SUBSET People : CreateOrganization(o, founder)
  \/ \E o \in Orgs, u \in People :
       \/ \E role \in EnrolledRoles :
            EnrolInMemory(o, u, role) \/ \E c \in Requests : UpsertUser(c, o, u, role)
       \/ \E c \in Requests : BootstrapCheck(c, o, u)
  \/ BeginLogin
  \/ \E a \in DOMAIN attempts :
       ExpireAttempt(a) \/ \E c \in Requests : ConsumeAttempt(c, a)
  \/ \E c \in Requests :
       \/ Enrol(c) \/ Bootstrap(c)
       \/ \E subject \in Subjects, u \in People : ResolveInMemory(c, subject, u) \/ FindBySubject(c, subject, u)
       \/ FindByAddress(c) \/ CheckConflict(c) \/ BindSubject(c)
       \/ CreateInMemory(c) \/ RetireSurplus(c) \/ InsertSession(c)
       \/ Abort(c)
  \/ \E i \in DOMAIN sessions : Logout(i) \/ ExpireSession(i)

Spec == Init /\ [][Next]_vars

-----------------------------------------------------------------------------
(* Properties.                                                             *)

\* Every variable has its schema; memberships, bindings and sessions name
\* enrolled users and existing organizations.
TypeOK ==
  /\ users \subseteq People /\ orgs \subseteq Orgs /\ founders \subseteq users
  /\ memberships \subseteq orgs \X users \X Roles
  /\ \A m, n \in memberships : m[1] = n[1] /\ m[2] = n[2] => m = n
  /\ bootstraps \in [Orgs -> Nat]
  /\ bindings \subseteq Subjects \X users
  /\ attempts \in Seq({"open", "gone"})
  /\ sessions \in Seq(SessionRecord)
  /\ \A i \in DOMAIN sessions :
       /\ sessions[i].access.org \in OrgsOf(sessions[i].user)
       /\ sessions[i].attempt \in DOMAIN attempts

\* "An identity may belong to only one Cascadia organization" holds of whoever
\* founded none, although organizations enrol the same address at once.
OneOrganization == \A u \in users \ founders : Cardinality(OrgsOf(u)) <= 1

\* "The command closes permanently for that organization after the first
\* identity exists": however often it runs, it goes through once.
BootstrapOnce == \A o \in Orgs : bootstraps[o] <= 1

\* Whom a login signs in is whom its account is bound to, or the login was
\* overtaken and the account is bound to somebody else.
OfItsAccount(login) ==
  \/ <<login.subject, login.user>> \in bindings
  \/ dataStore = "postgres" /\ login.overtaken /\ BoundTo(login.subject) # {}

\* "The provider subject is bound only after the first successful verified
\* login": an account is of one user and a user of one account, also when two
\* accounts with one address, or one account with two addresses, sign in for the
\* first time at once.  Whoever holds a session is the user its account is bound
\* to, but for one case: in Postgres a first login that an overlapping first login
\* of the same account overtook goes on as the user of its own address.
OneSubjectPerUser ==
  /\ TypeOK
  /\ \A b, d \in bindings : b[1] = d[1] \/ b[2] = d[2] => b = d
  /\ \A i \in DOMAIN sessions : OfItsAccount(sessions[i])

\* "One-time ten-minute login transactions": an attempt yields one session at
\* most, however often its callback is requested.
OneLoginPerAttempt ==
  \A i, j \in DOMAIN sessions : sessions[i].attempt = sessions[j].attempt => i = j

\* What is good for once is used once, whatever requests overlap: the bootstrap
\* of an organization and a login attempt.
UsedOnce == BootstrapOnce /\ OneLoginPerAttempt

\* "Provider claims never assign Cascadia roles": whoever holds a session was
\* once enrolled with its role, in its organization.  (Not now: a session keeps
\* its role when the user is enrolled with another.)
RolesComeFromEnrolment ==
  \A i \in DOMAIN sessions :
    <<sessions[i].access.org, sessions[i].user, sessions[i].access.role>> \in appointed

\* "A maximum of five active sessions per user" holds in Postgres up to the
\* logins that overlapped another one of the same user; only those can exceed
\* it, for their UPDATE does not see what is not committed.
SessionLimitUpToOverlaps ==
  dataStore = "postgres" =>
    \A u \in People :
      LET usable == {i \in DOMAIN sessions : sessions[i].user = u /\ Usable(i)} IN
      Cardinality(usable) <= SessionLimit + Cardinality({i \in usable : sessions[i].overlaps})

\* Whoever is signed in, and whichever role the next enrolment gives: the pages
\* the console shows can read what they show, and the roles that are there to
\* read change nothing.  (Every role is checked, not only the enrolled ones.)
RolesFitPages == sessions # << >> => VisiblePagesLoad /\ ReadOnlyRolesInspect
=============================================================================

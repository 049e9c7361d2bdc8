------------------------- MODULE IdentityAccess_proofs -------------------------
(***************************************************************************)
(* Proofs about who may sign in, for any people, organizations, provider   *)
(* accounts and concurrent requests, in either store: one organization per *)
(* identity, one account per user, one bootstrap of an organization, one   *)
(* session per login attempt, and roles that come from enrolment only.     *)
(***************************************************************************)
EXTENDS IdentityAccess, FiniteSetTheorems, SequenceTheorems, WellFoundedInduction, TLAPS

-----------------------------------------------------------------------------
(* The inductive invariant.                                                *)

EnrollState == [pc : {"enroll"}, org : Orgs, user : People, role : Roles]
BootstrapState == [pc : {"bootstrap"}, org : Orgs, user : People]
ExchangeState == [pc : {"exchange"}, attempt : Nat]
AddressState == [pc : {"address"}, attempt : Nat, subject : Subjects, user : People]
FoundState ==
  [pc : {"conflict", "bind"}, attempt : Nat, subject : Subjects, user : People, access : [org : Orgs, role : Roles]]
CreateState ==
  [pc : {"create"}, attempt : Nat, subject : Subjects, user : People, access : [org : Orgs, role : Roles],
   overtaken : BOOLEAN]
InsertState == [pc : {"insert"}, session : Nat, retired : SUBSET Nat]
RequestState ==
  {Idle} \cup EnrollState \cup BootstrapState \cup ExchangeState \cup AddressState \cup FoundState
         \cup CreateState \cup InsertState

At(c, pc) == request[c].pc = pc

\* From the callback to the session.
LoginSteps == {"exchange", "address", "conflict", "bind", "create", "insert"}

\* The directory: organizations, users and memberships with one role each,
\* and what an enrolment in progress may rely on because it holds the row of
\* its address.
DirectoryOK ==
  /\ users \subseteq People /\ orgs \subseteq Orgs /\ founders \subseteq users
  /\ memberships \subseteq orgs \X users \X Roles
  /\ \A m, n \in memberships : m[1] = n[1] /\ m[2] = n[2] => m = n
  /\ memberships \subseteq appointed
  /\ \A m, n \in memberships : m[2] = n[2] /\ m[2] \notin founders => m[1] = n[1]
  /\ request \in [Requests -> RequestState]
  /\ \A c \in Requests : At(c, "enroll") =>
       /\ dataStore = "postgres"
       /\ request[c].org \in orgs
       /\ \A m \in memberships : m[2] = request[c].user /\ m[2] \notin founders => m[1] = request[c].org
  /\ \A c, d \in Requests :
       At(c, "enroll") /\ At(d, "enroll") /\ request[c].user = request[d].user => c = d

\* An organization that was bootstrapped has a member for good, and the command
\* in progress is alone and about one that was not.
BootstrapOK ==
  /\ bootstraps \in [Orgs -> Nat]
  /\ \A o \in Orgs : bootstraps[o] <= 1
  /\ \A o \in Orgs : bootstraps[o] # 0 => \E m \in memberships : m[1] = o
  /\ \A c \in Requests : At(c, "bootstrap") => request[c].org \in orgs /\ bootstraps[request[c].org] = 0
  /\ \A c, d \in Requests : At(c, "bootstrap") /\ At(d, "bootstrap") => c = d

\* An account is of one user and a user of one account.
BindingsOK ==
  /\ bindings \subseteq Subjects \X users
  /\ \A b, d \in bindings : b[1] = d[1] \/ b[2] = d[2] => b = d

\* A session holds an attempt of its own, which is used, and is of a member with
\* a role that an enrolment gave.
SessionsOK ==
  /\ attempts \in Seq({"open", "gone"})
  /\ sessions \in Seq(SessionRecord)
  /\ \A i \in DOMAIN sessions :
       /\ sessions[i].attempt \in DOMAIN attempts /\ attempts[sessions[i].attempt] = "gone"
       /\ \E m \in memberships : m[1] = sessions[i].access.org /\ m[2] = sessions[i].user
       /\ <<sessions[i].access.org, sessions[i].user, sessions[i].access.role>> \in appointed
  /\ \A i, j \in DOMAIN sessions : sessions[i].attempt = sessions[j].attempt => i = j

\* Sessions, and logins that come to create one, are of the user their account is
\* bound to, unless they were overtaken.
AccountsOK ==
  /\ \A i \in DOMAIN sessions : OfItsAccount(sessions[i])
  /\ \A c \in Requests : At(c, "create") => OfItsAccount(request[c])

\* A request on its way from the callback to the session holds its attempt
\* alone, and one that has found its user the membership of the user; only
\* Postgres looks for the user in steps.
Found(c) == At(c, "conflict") \/ At(c, "bind") \/ At(c, "create")
Holds(c) == At(c, "exchange") \/ At(c, "address") \/ Found(c)
HoldersOK ==
  /\ \A c \in Requests : Holds(c) =>
       /\ request[c].attempt \in DOMAIN attempts /\ attempts[request[c].attempt] = "gone"
       /\ \A i \in DOMAIN sessions : sessions[i].attempt # request[c].attempt
  /\ \A c, d \in Requests : Holds(c) /\ Holds(d) /\ request[c].attempt = request[d].attempt => c = d
  /\ \A c \in Requests : Found(c) =>
       /\ \E m \in memberships : m[1] = request[c].access.org /\ m[2] = request[c].user
       /\ <<request[c].access.org, request[c].user, request[c].access.role>> \in appointed
  /\ \A c \in Requests : At(c, "address") \/ At(c, "conflict") \/ At(c, "bind") => dataStore = "postgres"
  /\ \A c \in Requests : At(c, "insert") => request[c].session \in DOMAIN sessions
  /\ AccountsOK

IInv == DirectoryOK /\ BootstrapOK /\ BindingsOK /\ SessionsOK /\ HoldersOK

-----------------------------------------------------------------------------
(* Lemmas.                                                                 *)

\* An appointment replaces the role and leaves every other membership alone, so
\* that nobody loses an organization.
LEMMA Appointed ==
  ASSUME NEW o, NEW u, NEW role, Appoint(o, u, role)
  PROVE  /\ <<o, u, role>> \in memberships'
         /\ \A m \in memberships' : m = <<o, u, role>> \/ (m \in memberships /\ ~(m[1] = o /\ m[2] = u))
         /\ \A m \in memberships : \E n \in memberships' : n[1] = m[1] /\ n[2] = m[2]
         /\ appointed \subseteq appointed' /\ <<o, u, role>> \in appointed'
<1>1. /\ <<o, u, role>> \in memberships'
      /\ \A m \in memberships' : m = <<o, u, role>> \/ (m \in memberships /\ ~(m[1] = o /\ m[2] = u))
      /\ \A m \in memberships : m \in memberships' \/ (m[1] = o /\ m[2] = u)
      /\ appointed \subseteq appointed' /\ <<o, u, role>> \in appointed'
  BY DEF Appoint
<1> QED BY <1>1

\* A request in a state that is named by its pc has the fields of that state.
LEMMA Shapes ==
  ASSUME NEW c \in Requests, request \in [Requests -> RequestState]
  PROVE  /\ At(c, "enroll") => request[c] \in EnrollState
         /\ At(c, "bootstrap") => request[c] \in BootstrapState
         /\ At(c, "exchange") => request[c] \in ExchangeState
         /\ At(c, "address") => request[c] \in AddressState
         /\ At(c, "conflict") \/ At(c, "bind") => request[c] \in FoundState
         /\ At(c, "create") => request[c] \in CreateState
         /\ At(c, "insert") => request[c] \in InsertState
<1> DEFINE q == request[c]
<1>1. q \in RequestState
  OBVIOUS
<1>2. q = Idle => q.pc = "idle"
  BY DEF Idle
<1>3. /\ q \in EnrollState => q.pc = "enroll"
      /\ q \in BootstrapState => q.pc = "bootstrap"
      /\ q \in ExchangeState => q.pc = "exchange"
      /\ q \in AddressState => q.pc = "address"
      /\ q \in FoundState => q.pc \in {"conflict", "bind"}
      /\ q \in CreateState => q.pc = "create"
      /\ q \in InsertState => q.pc = "insert"
  BY DEF EnrollState, BootstrapState, ExchangeState, AddressState, FoundState,
         CreateState, InsertState
<1> QED BY <1>1, <1>2, <1>3 DEF RequestState, At

\* A request moves to another state and the others stay.
LEMMA Moves ==
  ASSUME NEW c \in Requests, NEW q \in RequestState, Goto(c, q),
         request \in [Requests -> RequestState]
  PROVE  /\ request' \in [Requests -> RequestState]
         /\ request'[c] = q
         /\ \A d \in Requests : d # c => request'[d] = request[d]
BY DEF Goto

\* What enrolment and the like leave of the login side.
LEMMA LoginsKept ==
  ASSUME BindingsOK, SessionsOK, HoldersOK, UNCHANGED logins, users \subseteq users',
         appointed \subseteq appointed',
         \A m \in memberships : \E n \in memberships' : n[1] = m[1] /\ n[2] = m[2],
         \A c \in Requests : request'[c] = request[c] \/ request'[c].pc \notin LoginSteps,
         dataStore' = dataStore
  PROVE  BindingsOK' /\ SessionsOK' /\ HoldersOK'
<1>1. bindings' = bindings /\ attempts' = attempts /\ sessions' = sessions
  BY DEF logins
<1>2. BindingsOK'
  BY <1>1 DEF BindingsOK
<1>3. SessionsOK'
  BY <1>1 DEF SessionsOK
<1>4. \A c \in Requests : \A pc \in LoginSteps : At(c, pc)' => At(c, pc) /\ request'[c] = request[c]
  BY DEF At
<1>5. \A c \in Requests : /\ Holds(c)' => Holds(c) /\ request'[c] = request[c]
                          /\ Found(c)' => Found(c) /\ request'[c] = request[c]
  BY <1>4 DEF LoginSteps, Holds, Found
<1>6. AccountsOK'
  BY <1>1, <1>4 DEF HoldersOK, AccountsOK, OfItsAccount, BoundTo, LoginSteps
<1>7. HoldersOK'
  BY <1>1, <1>4, <1>5, <1>6 DEF HoldersOK, LoginSteps
<1> QED BY <1>2, <1>3, <1>7

\* What signing in leaves of the directory.
LEMMA DirectoryKept ==
  ASSUME DirectoryOK, BootstrapOK, UNCHANGED <<dataStore, directory>>,
         request' \in [Requests -> RequestState],
         \A c \in Requests : request'[c] = request[c] \/ request'[c].pc \notin {"enroll", "bootstrap"}
  PROVE  DirectoryOK' /\ BootstrapOK'
<1>1. /\ users' = users /\ orgs' = orgs /\ memberships' = memberships /\ appointed' = appointed
      /\ founders' = founders /\ bootstraps' = bootstraps /\ dataStore' = dataStore
  BY DEF directory
<1>2. \A c \in Requests : /\ At(c, "enroll")' => At(c, "enroll") /\ request'[c] = request[c]
                          /\ At(c, "bootstrap")' => At(c, "bootstrap") /\ request'[c] = request[c]
  BY DEF At
<1>3. DirectoryOK'
  BY <1>1, <1>2 DEF DirectoryOK
<1>4. BootstrapOK'
  BY <1>1, <1>2 DEF BootstrapOK
<1> QED BY <1>3, <1>4

\* An appointment to an existing organization keeps the memberships typed, one
\* per organization and user, and all of them appointed.
LEMMA AppointedOK ==
  ASSUME DirectoryOK, NEW o \in Orgs, NEW u \in People, NEW role \in Roles, Appoint(o, u, role),
         orgs' = orgs \cup {o}, users' = users \cup {u}
  PROVE  /\ memberships' \subseteq orgs' \X users' \X Roles
         /\ \A m, n \in memberships' : m[1] = n[1] /\ m[2] = n[2] => m = n
         /\ memberships' \subseteq appointed'
<1>1. /\ \A m \in memberships' : m = <<o, u, role>> \/ (m \in memberships /\ ~(m[1] = o /\ m[2] = u))
      /\ appointed \subseteq appointed' /\ <<o, u, role>> \in appointed'
  BY Appointed
<1>2. memberships' \subseteq orgs' \X users' \X Roles
  BY <1>1 DEF DirectoryOK
<1>3. ASSUME NEW m \in memberships', NEW n \in memberships', m[1] = n[1], m[2] = n[2] PROVE m = n
  <2>1. CASE m = <<o, u, role>>
    BY <1>1, <1>3, <2>1
  <2>2. CASE n = <<o, u, role>>
    BY <1>1, <1>3, <2>2
  <2>3. CASE m \in memberships /\ n \in memberships
    BY <1>3, <2>3 DEF DirectoryOK
  <2> QED BY <1>1, <2>1, <2>2, <2>3
<1>4. memberships' \subseteq appointed'
  BY <1>1 DEF DirectoryOK
<1> QED BY <1>2, <1>3, <1>4

-----------------------------------------------------------------------------
(* The steps of the directory.                                             *)

\* A founder becomes an administrator of the new organization and an exception.
LEMMA CreateOrganizationStep ==
  ASSUME IInv, NEW o \in Orgs, NEW founder \in SUBSET People, CreateOrganization(o, founder)
  PROVE  IInv'
<1>1. /\ o \notin orgs /\ orgs' = orgs \cup {o} /\ founders' = founders \cup founder
      /\ founder \subseteq users /\ Cardinality(founder) <= 1
      /\ dataStore' = dataStore /\ users' = users /\ bootstraps' = bootstraps /\ request' = request
      /\ UNCHANGED logins
  BY DEF CreateOrganization
<1>2. DirectoryOK /\ BootstrapOK /\ BindingsOK /\ SessionsOK /\ HoldersOK
  BY DEF IInv
<1>3. \A c \in Requests : /\ At(c, "enroll")' <=> At(c, "enroll")
                          /\ At(c, "bootstrap")' <=> At(c, "bootstrap")
  BY <1>1 DEF At
<1>4. CASE founder = {}
  <2>1. UNCHANGED <<memberships, appointed>>
    BY <1>4 DEF CreateOrganization
  <2>2. memberships \subseteq orgs' \X users' \X Roles
    BY <1>1, <1>2 DEF DirectoryOK
  <2>3. DirectoryOK'
    BY <1>1, <1>2, <1>3, <1>4, <2>1, <2>2 DEF DirectoryOK
  <2>4. BootstrapOK'
    BY <1>1, <1>2, <1>3, <2>1 DEF BootstrapOK
  <2>5. BindingsOK' /\ SessionsOK' /\ HoldersOK'
    BY <1>1, <1>2, <2>1, LoginsKept
  <2> QED BY <2>3, <2>4, <2>5 DEF IInv
<1>5. CASE founder # {}
  <2>1. PICK u \in founder : Appoint(o, u, "organization_admin")
    BY <1>5 DEF CreateOrganization
  <2>2. u \in users /\ u \in People /\ users' = users \cup {u} /\ "organization_admin" \in Roles /\ u \in founders'
    BY <1>1, <2>1 DEF Roles
  <2>3. /\ memberships' \subseteq orgs' \X users' \X Roles
        /\ \A m, n \in memberships' : m[1] = n[1] /\ m[2] = n[2] => m = n
        /\ memberships' \subseteq appointed'
    BY <1>1, <1>2, <2>1, <2>2, AppointedOK
  <2>4. /\ \A m \in memberships' : m = <<o, u, "organization_admin">> \/ m \in memberships
        /\ \A m \in memberships : \E n \in memberships' : n[1] = m[1] /\ n[2] = m[2]
        /\ appointed \subseteq appointed'
    BY <2>1, Appointed
  <2>5. \A m \in memberships' : m[2] \notin founders' => m \in memberships /\ m[2] \notin founders
    BY <1>1, <2>2, <2>4
  <2>6. DirectoryOK'
    <3>1. \A m, n \in memberships' : m[2] = n[2] /\ m[2] \notin founders' => m[1] = n[1]
      BY <1>2, <2>5 DEF DirectoryOK
    <3>2. \A c \in Requests : At(c, "enroll")' =>
            /\ dataStore' = "postgres"
            /\ request'[c].org \in orgs'
            /\ \A m \in memberships' : m[2] = request'[c].user /\ m[2] \notin founders' => m[1] = request'[c].org
      BY <1>1, <1>2, <1>3, <2>5 DEF DirectoryOK
    <3>3. \A c, d \in Requests :
            At(c, "enroll")' /\ At(d, "enroll")' /\ request'[c].user = request'[d].user => c = d
      BY <1>1, <1>2, <1>3 DEF DirectoryOK
    <3>4. /\ users' \subseteq People /\ orgs' \subseteq Orgs /\ founders' \subseteq users'
          /\ request' \in [Requests -> RequestState]
      BY <1>1, <1>2 DEF DirectoryOK
    <3> QED BY <2>3, <3>1, <3>2, <3>3, <3>4 DEF DirectoryOK
  <2>7. BootstrapOK'
    <3>1. \A p \in Orgs : (\E m \in memberships : m[1] = p) => \E m \in memberships' : m[1] = p
      BY <2>4
    <3> QED BY <1>1, <1>2, <1>3, <3>1 DEF BootstrapOK
  <2>8. BindingsOK' /\ SessionsOK' /\ HoldersOK'
    BY <1>1, <1>2, <2>4, LoginsKept
  <2> QED BY <2>6, <2>7, <2>8 DEF IInv
<1> QED BY <1>4, <1>5

\* What the three ways to enrol somebody have in common: whoever had no other
\* organization gets this one, nobody holds the row of the address any more,
\* and requests only end.
LEMMA EnrolledOK ==
  ASSUME IInv, NEW o \in Orgs, NEW u \in People, NEW role \in Roles, Appoint(o, u, role),
         o \in orgs, \A m \in memberships : m[2] = u /\ m[2] \notin founders => m[1] = o,
         users' = users \cup {u}, UNCHANGED <<dataStore, orgs, founders, logins>>,
         request' \in [Requests -> RequestState],
         \A c \in Requests : request'[c] = request[c] \/ request'[c] = Idle,
         \A c \in Requests : At(c, "enroll")' => request[c].user # u
  PROVE  /\ DirectoryOK' /\ BindingsOK' /\ SessionsOK' /\ HoldersOK'
         /\ \E m \in memberships' : m[1] = o
         /\ \A p \in Orgs : (\E m \in memberships : m[1] = p) => \E m \in memberships' : m[1] = p
<1>1. DirectoryOK /\ BindingsOK /\ SessionsOK /\ HoldersOK
  BY DEF IInv
<1>2. /\ orgs' = orgs \cup {o} /\ orgs' = orgs /\ founders' = founders /\ dataStore' = dataStore
      /\ UNCHANGED logins
  OBVIOUS
<1>3. /\ memberships' \subseteq orgs' \X users' \X Roles
      /\ \A m, n \in memberships' : m[1] = n[1] /\ m[2] = n[2] => m = n
      /\ memberships' \subseteq appointed'
  BY <1>1, <1>2, AppointedOK
<1>4. /\ <<o, u, role>> \in memberships'
      /\ \A m \in memberships' : m = <<o, u, role>> \/ m \in memberships
      /\ \A m \in memberships : \E n \in memberships' : n[1] = m[1] /\ n[2] = m[2]
      /\ appointed \subseteq appointed'
  BY Appointed
<1>5. \A c \in Requests : request'[c] = request[c] \/ request'[c].pc = "idle"
  BY DEF Idle
<1>6. \A c \in Requests : At(c, "enroll")' => At(c, "enroll") /\ request'[c] = request[c]
  BY <1>5 DEF At
<1>7. DirectoryOK'
  <2>1. ASSUME NEW m \in memberships', NEW n \in memberships', m[2] = n[2], m[2] \notin founders'
        PROVE  m[1] = n[1]
    <3>1. CASE m[2] = u
      <4>1. ASSUME NEW x \in memberships', x[2] = u PROVE x[1] = o
        <5>1. CASE x = <<o, u, role>>
          BY <5>1
        <5>2. CASE x \in memberships
          BY <1>2, <2>1, <3>1, <4>1, <5>2
        <5> QED BY <1>4, <5>1, <5>2
      <4> QED BY <2>1, <3>1, <4>1
    <3>2. CASE m[2] # u
      BY <1>1, <1>2, <1>4, <2>1, <3>2 DEF DirectoryOK
    <3> QED BY <3>1, <3>2
  <2>2. ASSUME NEW c \in Requests, At(c, "enroll")'
        PROVE  /\ dataStore' = "postgres"
               /\ request'[c].org \in orgs'
               /\ \A m \in memberships' : m[2] = request'[c].user /\ m[2] \notin founders' => m[1] = request'[c].org
    <3>1. At(c, "enroll") /\ request'[c] = request[c] /\ request[c].user # u
      BY <1>6, <2>2
    <3>2. \A m \in memberships' : m[2] = request[c].user => m \in memberships
      BY <1>4, <3>1
    <3> QED BY <1>1, <1>2, <3>1, <3>2 DEF DirectoryOK
  <2>3. \A c, d \in Requests :
          At(c, "enroll")' /\ At(d, "enroll")' /\ request'[c].user = request'[d].user => c = d
    BY <1>1, <1>6 DEF DirectoryOK
  <2>4. /\ users' \subseteq People /\ orgs' \subseteq Orgs /\ founders' \subseteq users'
        /\ request' \in [Requests -> RequestState]
    BY <1>1, <1>2 DEF DirectoryOK
  <2> QED BY <1>3, <2>1, <2>2, <2>3, <2>4 DEF DirectoryOK
<1>8. BindingsOK' /\ SessionsOK' /\ HoldersOK'
  <2>1. \A c \in Requests : request'[c] = request[c] \/ request'[c].pc \notin LoginSteps
    BY <1>5 DEF LoginSteps
  <2>2. users \subseteq users'
    OBVIOUS
  <2> QED BY <1>1, <1>2, <1>4, <2>1, <2>2, LoginsKept
<1>9. /\ \E m \in memberships' : m[1] = o
      /\ \A p \in Orgs : (\E m \in memberships : m[1] = p) => \E m \in memberships' : m[1] = p
  BY <1>4
<1> QED BY <1>7, <1>8, <1>9

\* Whoever belongs to no other organization has memberships of this one only.
LEMMA OnlyThere ==
  ASSUME NEW o, NEW u, OrgsOf(u) \subseteq {o}
  PROVE  \A m \in memberships : m[2] = u => m[1] = o
BY DEF OrgsOf, MembershipsOf

\* Enrolment in memory needs no lock, for no request holds one there.
LEMMA EnrolInMemoryStep ==
  ASSUME IInv, NEW o \in Orgs, NEW u \in People, NEW role \in EnrolledRoles, EnrolInMemory(o, u, role)
  PROVE  IInv'
<1>1. /\ dataStore = "memory" /\ o \in orgs /\ OrgsOf(u) \subseteq {o}
      /\ users' = users \cup {u} /\ Appoint(o, u, role)
      /\ UNCHANGED <<dataStore, orgs, founders, bootstraps, logins, request>>
  BY DEF EnrolInMemory
<1>2. DirectoryOK /\ BootstrapOK
  BY DEF IInv
<1>3. role \in Roles
  BY EnrolledRolesAssumption
<1>4. \A c \in Requests : ~At(c, "enroll")'
  BY <1>1, <1>2 DEF DirectoryOK, At
<1>5. /\ DirectoryOK' /\ BindingsOK' /\ SessionsOK' /\ HoldersOK'
      /\ \A p \in Orgs : (\E m \in memberships : m[1] = p) => \E m \in memberships' : m[1] = p
  <2>1. request' \in [Requests -> RequestState] /\ \A c \in Requests : request'[c] = request[c]
    BY <1>1, <1>2 DEF DirectoryOK
  <2>2. \A m \in memberships : m[2] = u => m[1] = o
    BY <1>1, OnlyThere
  <2> QED BY <1>1, <1>3, <1>4, <2>1, <2>2, EnrolledOK
<1>6. BootstrapOK'
  BY <1>1, <1>2, <1>5 DEF BootstrapOK, At
<1> QED BY <1>5, <1>6 DEF IInv

\* The row of the address is locked: nobody else is enrolling it.
LEMMA UpsertUserStep ==
  ASSUME IInv, NEW c \in Requests, NEW o \in Orgs, NEW u \in People, NEW role \in EnrolledRoles,
         UpsertUser(c, o, u, role)
  PROVE  IInv'
<1> DEFINE q == [pc |-> "enroll", org |-> o, user |-> u, role |-> role]
<1>1. /\ dataStore = "postgres" /\ o \in orgs /\ ~Locked(u) /\ OrgsOf(u) \subseteq {o}
      /\ Goto(c, q) /\ UNCHANGED <<dataStore, directory, logins>>
  BY DEF UpsertUser
<1>2. DirectoryOK /\ BootstrapOK /\ BindingsOK /\ SessionsOK /\ HoldersOK
  BY DEF IInv
<1>3. q \in RequestState
  BY EnrolledRolesAssumption DEF RequestState, EnrollState
<1>4. /\ request' \in [Requests -> RequestState]
      /\ request'[c] = q
      /\ \A d \in Requests : d # c => request'[d] = request[d]
  BY <1>1, <1>2, <1>3, Moves DEF DirectoryOK
<1>5. /\ users' = users /\ orgs' = orgs /\ memberships' = memberships /\ appointed' = appointed
      /\ founders' = founders /\ bootstraps' = bootstraps /\ dataStore' = dataStore
  BY <1>1 DEF directory
<1>6. \A d \in Requests : d # c => (At(d, "enroll")' <=> At(d, "enroll"))
  BY <1>4 DEF At
<1>7. \A d \in Requests : At(d, "enroll") => request[d].user # u
  BY <1>1 DEF Locked, At
<1>8. DirectoryOK'
  <2>1. ASSUME NEW d \in Requests, At(d, "enroll")'
        PROVE  /\ dataStore' = "postgres"
               /\ request'[d].org \in orgs'
               /\ \A m \in memberships' : m[2] = request'[d].user /\ m[2] \notin founders' => m[1] = request'[d].org
    <3>1. CASE d = c
      <4>1. request'[d].org = o /\ request'[d].user = u
        BY <1>4, <3>1
      <4> QED BY <1>1, <1>5, <4>1, OnlyThere
    <3>2. CASE d # c
      BY <1>2, <1>4, <1>5, <1>6, <2>1, <3>2 DEF DirectoryOK
    <3> QED BY <3>1, <3>2
  <2>2. ASSUME NEW d \in Requests, NEW e \in Requests, At(d, "enroll")', At(e, "enroll")',
               request'[d].user = request'[e].user
        PROVE  d = e
    <3>1. \A x \in Requests : At(x, "enroll")' /\ x # c => At(x, "enroll") /\ request'[x] = request[x]
      BY <1>4, <1>6
    <3>2. request'[c].user = u
      BY <1>4
    <3>3. CASE d = c
      BY <1>7, <2>2, <3>1, <3>2, <3>3
    <3>4. CASE e = c
      BY <1>7, <2>2, <3>1, <3>2, <3>4
    <3>5. CASE d # c /\ e # c
      BY <1>2, <2>2, <3>1, <3>5 DEF DirectoryOK
    <3> QED BY <3>3, <3>4, <3>5
  <2> QED BY <1>2, <1>4, <1>5, <2>1, <2>2 DEF DirectoryOK
<1>9. BootstrapOK'
  <2>1. \A d \in Requests : At(d, "bootstrap")' => At(d, "bootstrap") /\ request'[d] = request[d]
    BY <1>4 DEF At
  <2> QED BY <1>2, <1>5, <2>1 DEF BootstrapOK
<1>10. BindingsOK' /\ SessionsOK' /\ HoldersOK'
  <2>1. \A d \in Requests : request'[d] = request[d] \/ request'[d].pc \notin LoginSteps
    BY <1>4 DEF LoginSteps
  <2> QED BY <1>1, <1>2, <1>5, <2>1, LoginsKept
<1> QED BY <1>8, <1>9, <1>10 DEF IInv

\* The enrolment goes through, and nobody else held the row.
LEMMA EnrolStep ==
  ASSUME IInv, NEW c \in Requests, Enrol(c)
  PROVE  IInv'
<1> DEFINE q == request[c]
<1>1. /\ At(c, "enroll") /\ users' = users \cup {q.user} /\ Appoint(q.org, q.user, q.role)
      /\ Goto(c, Idle) /\ UNCHANGED <<dataStore, orgs, founders, bootstraps, logins>>
  BY DEF Enrol, At
<1>2. DirectoryOK /\ BootstrapOK
  BY DEF IInv
<1>3. q.org \in Orgs /\ q.user \in People /\ q.role \in Roles
  BY <1>1, <1>2, Shapes DEF DirectoryOK, EnrollState
<1>4. q.org \in orgs /\ \A m \in memberships : m[2] = q.user /\ m[2] \notin founders => m[1] = q.org
  BY <1>1, <1>2 DEF DirectoryOK
<1>5. Idle \in RequestState
  BY DEF RequestState
<1>6. /\ request' \in [Requests -> RequestState]
      /\ request'[c] = Idle
      /\ \A d \in Requests : d # c => request'[d] = request[d]
  BY <1>1, <1>2, <1>5, Moves DEF DirectoryOK
<1>7. \A d \in Requests : At(d, "enroll")' => request[d].user # q.user
  BY <1>1, <1>2, <1>6 DEF DirectoryOK, At, Idle
<1>8. /\ DirectoryOK' /\ BindingsOK' /\ SessionsOK' /\ HoldersOK'
      /\ \A p \in Orgs : (\E m \in memberships : m[1] = p) => \E m \in memberships' : m[1] = p
  <2> HIDE DEF q
  <2> QED BY <1>1, <1>3, <1>4, <1>6, <1>7, EnrolledOK
<1>9. \A d \in Requests : At(d, "bootstrap")' => At(d, "bootstrap") /\ request'[d] = request[d]
  BY <1>6 DEF At, Idle
<1>10. BootstrapOK'
  BY <1>1, <1>2, <1>8, <1>9 DEF BootstrapOK
<1> QED BY <1>8, <1>10 DEF IInv

\* The command starts alone, for an organization nobody belongs to and that was
\* therefore never bootstrapped.
LEMMA BootstrapCheckStep ==
  ASSUME IInv, NEW c \in Requests, NEW o \in Orgs, NEW u \in People, BootstrapCheck(c, o, u)
  PROVE  IInv'
<1> DEFINE q == [pc |-> "bootstrap", org |-> o, user |-> u]
<1>1. /\ \A d \in Requests : ~At(d, "bootstrap")
      /\ o \in orgs /\ ~\E m \in memberships : m[1] = o /\ m[2] \in users
      /\ Goto(c, q) /\ UNCHANGED <<dataStore, directory, logins>>
  BY DEF BootstrapCheck, At
<1>2. DirectoryOK /\ BootstrapOK /\ BindingsOK /\ SessionsOK /\ HoldersOK
  BY DEF IInv
<1>3. q \in RequestState
  BY DEF RequestState, BootstrapState
<1>4. /\ request' \in [Requests -> RequestState]
      /\ request'[c] = q
      /\ \A d \in Requests : d # c => request'[d] = request[d]
  BY <1>1, <1>2, <1>3, Moves DEF DirectoryOK
<1>5. /\ users' = users /\ orgs' = orgs /\ memberships' = memberships /\ appointed' = appointed
      /\ founders' = founders /\ bootstraps' = bootstraps /\ dataStore' = dataStore
  BY <1>1 DEF directory
<1>6. DirectoryOK'
  <2>1. \A d \in Requests : At(d, "enroll")' => At(d, "enroll") /\ request'[d] = request[d]
    BY <1>4 DEF At
  <2> QED BY <1>2, <1>4, <1>5, <2>1 DEF DirectoryOK
<1>7. BootstrapOK'
  <2>1. \A d \in Requests : At(d, "bootstrap")' => d = c
    BY <1>1, <1>4 DEF At
  <2>2. \A m \in memberships : m[2] \in users
    BY <1>2 DEF DirectoryOK
  <2>3. bootstraps[o] = 0
    BY <1>1, <1>2, <2>2 DEF BootstrapOK
  <2>4. request'[c].org = o
    BY <1>4
  <2> QED BY <1>1, <1>2, <1>5, <2>1, <2>3, <2>4 DEF BootstrapOK
<1>8. BindingsOK' /\ SessionsOK' /\ HoldersOK'
  <2>1. \A d \in Requests : request'[d] = request[d] \/ request'[d].pc \notin LoginSteps
    BY <1>4 DEF LoginSteps
  <2> QED BY <1>1, <1>2, <1>5, <2>1, LoginsKept
<1> QED BY <1>6, <1>7, <1>8 DEF IInv

\* The administrator is new, and the organization was not bootstrapped before.
LEMMA BootstrapStep ==
  ASSUME IInv, NEW c \in Requests, Bootstrap(c)
  PROVE  IInv'
<1> DEFINE q == request[c]
<1>1. /\ At(c, "bootstrap") /\ q.user \notin users /\ ~Locked(q.user)
      /\ users' = users \cup {q.user} /\ Appoint(q.org, q.user, "organization_admin")
      /\ bootstraps' = [bootstraps EXCEPT ![q.org] = @ + 1]
      /\ Goto(c, Idle) /\ UNCHANGED <<dataStore, orgs, founders, logins>>
  BY DEF Bootstrap, At
<1>2. DirectoryOK /\ BootstrapOK
  BY DEF IInv
<1>3. q.org \in Orgs /\ q.user \in People /\ "organization_admin" \in Roles
  BY <1>1, <1>2, Shapes DEF DirectoryOK, BootstrapState, Roles
<1>4. q.org \in orgs /\ bootstraps[q.org] = 0
  BY <1>1, <1>2 DEF BootstrapOK
<1>5. Idle \in RequestState
  BY DEF RequestState
<1>6. /\ request' \in [Requests -> RequestState]
      /\ request'[c] = Idle
      /\ \A d \in Requests : d # c => request'[d] = request[d]
  BY <1>1, <1>2, <1>5, Moves DEF DirectoryOK
<1>7. \A d \in Requests : At(d, "enroll")' => request[d].user # q.user
  BY <1>1, <1>6 DEF Locked, At, Idle
<1>8. \A m \in memberships : m[2] = q.user /\ m[2] \notin founders => m[1] = q.org
  BY <1>1, <1>2 DEF DirectoryOK
<1>9. /\ DirectoryOK' /\ BindingsOK' /\ SessionsOK' /\ HoldersOK'
      /\ \E m \in memberships' : m[1] = q.org
      /\ \A p \in Orgs : (\E m \in memberships : m[1] = p) => \E m \in memberships' : m[1] = p
  <2> HIDE DEF q
  <2> QED BY <1>1, <1>3, <1>4, <1>6, <1>7, <1>8, EnrolledOK
<1>10. \A d \in Requests : ~At(d, "bootstrap")'
  BY <1>1, <1>2, <1>6 DEF BootstrapOK, At, Idle
<1>11. BootstrapOK'
  <2>1. bootstraps' \in [Orgs -> Nat] /\ bootstraps'[q.org] = 1
    BY <1>1, <1>2, <1>3, <1>4 DEF BootstrapOK
  <2>2. \A p \in Orgs : p # q.org => bootstraps'[p] = bootstraps[p]
    BY <1>1, <1>2 DEF BootstrapOK
  <2> QED BY <1>2, <1>9, <1>10, <2>1, <2>2 DEF BootstrapOK
<1> QED BY <1>9, <1>11 DEF IInv

-----------------------------------------------------------------------------
(* The steps of signing in.                                                *)

\* Attempts that are gone stay gone when others are added or change.
LEMMA AttemptsKept ==
  ASSUME SessionsOK, attempts' \in Seq({"open", "gone"}),
         \A a \in DOMAIN attempts : attempts[a] = "gone" => a \in DOMAIN attempts' /\ attempts'[a] = "gone",
         UNCHANGED <<sessions, memberships, appointed>>
  PROVE  SessionsOK'
BY DEF SessionsOK

\* A login begins.
LEMMA BeginLoginStep ==
  ASSUME IInv, BeginLogin
  PROVE  IInv'
<1>1. /\ attempts' = Append(attempts, "open")
      /\ UNCHANGED <<dataStore, directory, bindings, sessions, request>>
  BY DEF BeginLogin
<1>2. DirectoryOK /\ BootstrapOK /\ BindingsOK /\ SessionsOK /\ HoldersOK
  BY DEF IInv
<1>3. /\ users' = users /\ memberships' = memberships /\ appointed' = appointed
      /\ bindings' = bindings /\ sessions' = sessions /\ request' = request
  BY <1>1 DEF directory
<1>4. attempts \in Seq({"open", "gone"})
  BY <1>2 DEF SessionsOK
<1>5. /\ attempts' \in Seq({"open", "gone"})
      /\ \A a \in DOMAIN attempts : a \in DOMAIN attempts' /\ attempts'[a] = attempts[a]
  BY <1>1, <1>4, AppendProperties, LenProperties
<1>6. DirectoryOK' /\ BootstrapOK'
  BY <1>1, <1>2, <1>3, DirectoryKept DEF DirectoryOK
<1>7. BindingsOK'
  BY <1>2, <1>3 DEF BindingsOK
<1>8. SessionsOK'
  BY <1>2, <1>3, <1>5, AttemptsKept
<1>9. HoldersOK'
  BY <1>1, <1>2, <1>3, <1>5 DEF HoldersOK, AccountsOK, OfItsAccount, BoundTo, Holds, Found, At
<1> QED BY <1>6, <1>7, <1>8, <1>9 DEF IInv

\* An attempt expires, which nobody has used.
LEMMA ExpireAttemptStep ==
  ASSUME IInv, NEW a \in DOMAIN attempts, ExpireAttempt(a)
  PROVE  IInv'
<1>1. /\ attempts[a] = "open" /\ attempts' = [attempts EXCEPT ![a] = "gone"]
      /\ UNCHANGED <<dataStore, directory, bindings, sessions, request>>
  BY DEF ExpireAttempt
<1>2. DirectoryOK /\ BootstrapOK /\ BindingsOK /\ SessionsOK /\ HoldersOK
  BY DEF IInv
<1>3. /\ users' = users /\ memberships' = memberships /\ appointed' = appointed
      /\ bindings' = bindings /\ sessions' = sessions /\ request' = request
  BY <1>1 DEF directory
<1>4. attempts \in Seq({"open", "gone"})
  BY <1>2 DEF SessionsOK
<1>5. /\ attempts' \in Seq({"open", "gone"})
      /\ \A b \in DOMAIN attempts : b \in DOMAIN attempts' /\ (b # a => attempts'[b] = attempts[b])
  BY <1>1, <1>4, ExceptSeq
<1>6. \A b \in DOMAIN attempts : attempts[b] = "gone" => b \in DOMAIN attempts' /\ attempts'[b] = "gone"
  BY <1>1, <1>5
<1>7. DirectoryOK' /\ BootstrapOK'
  BY <1>1, <1>2, <1>3, DirectoryKept DEF DirectoryOK
<1>8. BindingsOK'
  BY <1>2, <1>3 DEF BindingsOK
<1>9. SessionsOK'
  BY <1>2, <1>3, <1>5, <1>6, AttemptsKept
<1>10. HoldersOK'
  BY <1>1, <1>2, <1>3, <1>6 DEF HoldersOK, AccountsOK, OfItsAccount, BoundTo, Holds, Found, At
<1> QED BY <1>7, <1>8, <1>9, <1>10 DEF IInv

\* The callback takes an attempt nobody holds, for who holds one has used it.
LEMMA ConsumeAttemptStep ==
  ASSUME IInv, NEW c \in Requests, NEW a \in DOMAIN attempts, ConsumeAttempt(c, a)
  PROVE  IInv'
<1> DEFINE q == [pc |-> "exchange", attempt |-> a]
<1>1. /\ attempts[a] = "open" /\ attempts' = [attempts EXCEPT ![a] = "gone"]
      /\ Goto(c, q) /\ UNCHANGED <<dataStore, directory, bindings, sessions>>
  BY DEF ConsumeAttempt
<1>2. DirectoryOK /\ BootstrapOK /\ BindingsOK /\ SessionsOK /\ HoldersOK
  BY DEF IInv
<1>3. /\ users' = users /\ memberships' = memberships /\ appointed' = appointed
      /\ bindings' = bindings /\ sessions' = sessions
  BY <1>1 DEF directory
<1>4. attempts \in Seq({"open", "gone"}) /\ a \in Nat
  <2>1. attempts \in Seq({"open", "gone"})
    BY <1>2 DEF SessionsOK
  <2> QED BY <2>1, LenProperties
<1>5. /\ attempts' \in Seq({"open", "gone"})
      /\ \A b \in DOMAIN attempts : b \in DOMAIN attempts' /\ attempts'[b] = IF b = a THEN "gone" ELSE attempts[b]
  BY <1>1, <1>4, ExceptSeq
<1>6. q \in RequestState
  BY <1>4 DEF RequestState, ExchangeState
<1>7. /\ request' \in [Requests -> RequestState]
      /\ request'[c] = q
      /\ \A d \in Requests : d # c => request'[d] = request[d]
  BY <1>1, <1>2, <1>6, Moves DEF DirectoryOK
<1>8. DirectoryOK' /\ BootstrapOK'
  <2>1. \A d \in Requests : request'[d] = request[d] \/ request'[d].pc \notin {"enroll", "bootstrap"}
    BY <1>7
  <2> QED BY <1>1, <1>2, <1>7, <2>1, DirectoryKept
<1>9. BindingsOK'
  BY <1>2, <1>3 DEF BindingsOK
<1>10. SessionsOK'
  BY <1>2, <1>3, <1>5, AttemptsKept
<1>11. \A d \in Requests : Holds(d)' => d = c \/ (Holds(d) /\ request'[d] = request[d])
  BY <1>7 DEF Holds, Found, At
<1>12. \A d \in Requests : /\ Found(d)' => Found(d) /\ request'[d] = request[d]
                           /\ \A pc \in LoginSteps \ {"exchange"} : At(d, pc)' => At(d, pc) /\ request'[d] = request[d]
  BY <1>7 DEF Found, At, LoginSteps
<1>13. HoldersOK'
  <2>1. request'[c].attempt = a /\ a \in DOMAIN attempts' /\ attempts'[a] = "gone"
    BY <1>5, <1>7
  <2>2. \A i \in DOMAIN sessions : sessions[i].attempt # a
    BY <1>1, <1>2 DEF SessionsOK
  <2>3. \A d \in Requests : Holds(d) => request[d].attempt # a
    BY <1>1, <1>2 DEF HoldersOK
  <2>4. ASSUME NEW d \in Requests, Holds(d)'
        PROVE  /\ request'[d].attempt \in DOMAIN attempts' /\ attempts'[request'[d].attempt] = "gone"
               /\ \A i \in DOMAIN sessions' : sessions'[i].attempt # request'[d].attempt
    BY <1>2, <1>3, <1>5, <1>11, <2>1, <2>2, <2>4 DEF HoldersOK
  <2>5. ASSUME NEW d \in Requests, NEW e \in Requests, Holds(d)', Holds(e)',
               request'[d].attempt = request'[e].attempt
        PROVE  d = e
    BY <1>2, <1>11, <2>1, <2>3, <2>5 DEF HoldersOK
  <2>6. AccountsOK'
    BY <1>1, <1>2, <1>3, <1>12 DEF HoldersOK, AccountsOK, OfItsAccount, BoundTo, LoginSteps
  <2> QED BY <1>1, <1>2, <1>3, <1>12, <2>4, <2>5, <2>6 DEF HoldersOK, LoginSteps
<1> QED BY <1>8, <1>9, <1>10, <1>13 DEF IInv

\* Nobody but an unbound account and an unbound user can be bound to each other.
LEMMA Binds ==
  ASSUME BindingsOK, NEW subject \in Subjects, NEW v \in users, BoundTo(subject) = {}, AccountsOf(v) = {}
  PROVE  /\ bindings \cup {<<subject, v>>} \subseteq Subjects \X users
         /\ \A b, d \in bindings \cup {<<subject, v>>} : b[1] = d[1] \/ b[2] = d[2] => b = d
<1>1. \A b \in bindings : b[1] # subject /\ b[2] # v
  BY DEF BoundTo, AccountsOf
<1>2. ASSUME NEW b \in bindings \cup {<<subject, v>>}, NEW d \in bindings \cup {<<subject, v>>},
             b[1] = d[1] \/ b[2] = d[2]
      PROVE  b = d
  <2>1. CASE b \in bindings /\ d \in bindings
    BY <1>2, <2>1 DEF BindingsOK
  <2>2. CASE b = <<subject, v>> /\ d \in bindings
    BY <1>1, <1>2, <2>2
  <2>3. CASE b \in bindings /\ d = <<subject, v>>
    BY <1>1, <1>2, <2>3
  <2> QED BY <2>1, <2>2, <2>3
<1> QED BY <1>2 DEF BindingsOK

\* In memory only an unbound account is bound, and only to an unbound user.
LEMMA IdentifiedBinds ==
  ASSUME BindingsOK, NEW subject \in Subjects, NEW u, NEW v \in Identified(subject, u)
  PROVE  /\ v \in users
         /\ bindings \cup {<<subject, v>>} \subseteq Subjects \X users
         /\ \A b, d \in bindings \cup {<<subject, v>>} : b[1] = d[1] \/ b[2] = d[2] => b = d
<1>1. CASE BoundTo(subject) # {}
  <2>1. v \in BoundTo(subject)
    BY <1>1 DEF Identified
  <2>2. PICK b \in bindings : b[1] = subject /\ b[2] = v
    BY <2>1 DEF BoundTo
  <2>3. b = <<subject, v>> /\ v \in users
    BY <2>2 DEF BindingsOK
  <2>4. bindings \cup {<<subject, v>>} = bindings
    BY <2>2, <2>3
  <2> QED BY <2>3, <2>4 DEF BindingsOK
<1>2. CASE BoundTo(subject) = {}
  <2>1. v \in users /\ AccountsOf(v) = {}
    BY <1>2 DEF Identified
  <2> QED BY <1>2, <2>1, Binds
<1> QED BY <1>1, <1>2

\* What is left when a login goes on to its next statement, or ends.
LEMMA LoginStep ==
  ASSUME IInv, NEW c \in Requests, Holds(c), NEW q \in RequestState, Goto(c, q),
         UNCHANGED <<dataStore, directory, attempts, sessions>>, BindingsOK', bindings \subseteq bindings',
         q.pc \in {"idle", "address", "conflict", "bind", "create"},
         q.pc # "idle" => q.attempt = request[c].attempt,
         q.pc \in {"address", "conflict", "bind"} => dataStore = "postgres",
         q.pc \in {"conflict", "bind", "create"} =>
           /\ \E m \in memberships : m[1] = q.access.org /\ m[2] = q.user
           /\ <<q.access.org, q.user, q.access.role>> \in appointed,
         q.pc = "create" => OfItsAccount(q)'
  PROVE  IInv'
<1>1. DirectoryOK /\ BootstrapOK /\ BindingsOK /\ SessionsOK /\ HoldersOK
  BY DEF IInv
<1>2. /\ users' = users /\ memberships' = memberships /\ appointed' = appointed
      /\ attempts' = attempts /\ sessions' = sessions /\ dataStore' = dataStore
  BY DEF directory
<1>3. SessionsOK'
  BY <1>1, <1>2 DEF SessionsOK
<1>4. /\ request' \in [Requests -> RequestState]
      /\ request'[c] = q
      /\ \A d \in Requests : d # c => request'[d] = request[d]
  BY <1>1, Moves DEF DirectoryOK
<1>5. DirectoryOK' /\ BootstrapOK'
  <2>1. \A d \in Requests : request'[d] = request[d] \/ request'[d].pc \notin {"enroll", "bootstrap"}
    BY <1>4
  <2> QED BY <1>1, <1>4, <2>1, DirectoryKept
<1>6. AccountsOK'
  <2>1. ASSUME NEW i \in DOMAIN sessions' PROVE OfItsAccount(sessions[i])'
    BY <1>1, <1>2 DEF HoldersOK, AccountsOK, OfItsAccount, BoundTo
  <2>2. ASSUME NEW d \in Requests, At(d, "create")' PROVE OfItsAccount(request[d])'
    <3>1. CASE d = c
      BY <1>4, <2>2, <3>1 DEF At, OfItsAccount
    <3>2. CASE d # c
      BY <1>1, <1>2, <1>4, <2>2, <3>2 DEF At, HoldersOK, AccountsOK, OfItsAccount, BoundTo
    <3> QED BY <3>1, <3>2
  <2> QED BY <2>1, <2>2 DEF AccountsOK
<1>7. HoldersOK'
  <2>1. \A d \in Requests : Holds(d)' => Holds(d) /\ request'[d].attempt = request[d].attempt
    BY <1>4 DEF Holds, Found, At
  <2>2. \A d \in Requests : At(d, "insert")' => At(d, "insert") /\ request'[d] = request[d]
    BY <1>4 DEF At
  <2>3. ASSUME NEW d \in Requests, Found(d)'
        PROVE  /\ \E m \in memberships' : m[1] = request'[d].access.org /\ m[2] = request'[d].user
               /\ <<request'[d].access.org, request'[d].user, request'[d].access.role>> \in appointed'
    <3>1. CASE d = c
      BY <1>2, <1>4, <2>3, <3>1 DEF At, Found
    <3>2. CASE d # c
      BY <1>1, <1>2, <1>4, <2>3, <3>2 DEF At, Found, HoldersOK
    <3> QED BY <3>1, <3>2
  <2>4. ASSUME NEW d \in Requests, At(d, "address")' \/ At(d, "conflict")' \/ At(d, "bind")'
        PROVE  dataStore' = "postgres"
    <3>1. CASE d = c
      BY <1>2, <1>4, <2>4, <3>1 DEF At
    <3>2. CASE d # c
      BY <1>1, <1>2, <1>4, <2>4, <3>2 DEF At, HoldersOK
    <3> QED BY <3>1, <3>2
  <2> QED BY <1>1, <1>2, <1>6, <2>1, <2>2, <2>3, <2>4 DEF HoldersOK
<1> QED BY <1>3, <1>5, <1>7 DEF IInv

\* The role a login finds is one the user was given in the organization.
LEMMA AccessFound ==
  ASSUME DirectoryOK, NEW v, NEW access \in RolesOf(v)
  PROVE  /\ v \in users /\ v \in People
         /\ access \in [org : Orgs, role : Roles]
         /\ \E m \in memberships : m[1] = access.org /\ m[2] = v
         /\ <<access.org, v, access.role>> \in appointed
<1>1. PICK m \in memberships : m[2] = v /\ access = [org |-> m[1], role |-> m[3]]
  BY DEF RolesOf, MembershipsOf
<1>2. /\ m = <<m[1], m[2], m[3]>> /\ m[1] \in Orgs /\ m[3] \in Roles /\ m \in appointed
      /\ m[2] \in users /\ m[2] \in People
  BY DEF DirectoryOK
<1>3. access \in [org : Orgs, role : Roles] /\ access.org = m[1] /\ access.role = m[3]
  BY <1>1, <1>2
<1> QED BY <1>1, <1>2, <1>3

\* A login that has found its user comes to create the session.
LEMMA LoginFound ==
  ASSUME IInv, NEW c \in Requests, Holds(c), NEW subject \in Subjects, NEW v \in People,
         NEW access \in [org : Orgs, role : Roles], NEW overtaken \in BOOLEAN,
         \E m \in memberships : m[1] = access.org /\ m[2] = v,
         <<access.org, v, access.role>> \in appointed,
         Goto(c, Login(c, subject, v, access, overtaken)),
         UNCHANGED <<dataStore, directory, attempts, sessions>>, BindingsOK', bindings \subseteq bindings',
         \/ <<subject, v>> \in bindings'
         \/ dataStore = "postgres" /\ overtaken /\ BoundTo(subject) # {}
  PROVE  IInv'
<1> DEFINE q == Login(c, subject, v, access, overtaken)
<1>1. request[c].attempt \in Nat
  BY Shapes DEF IInv, DirectoryOK, Holds, Found, ExchangeState, AddressState, FoundState, CreateState
<1>2. q = [pc |-> "create", attempt |-> request[c].attempt, subject |-> subject, user |-> v, access |-> access,
           overtaken |-> overtaken]
  BY DEF Login
<1>3. /\ q.pc = "create" /\ q.attempt = request[c].attempt /\ q.subject = subject /\ q.user = v
      /\ q.access = access /\ q.overtaken = overtaken
  BY <1>2
<1>4. q \in CreateState
  BY <1>1, <1>2 DEF CreateState
<1>5. PICK state \in RequestState : state = q
  BY <1>4 DEF RequestState
<1>6. OfItsAccount(state)'
  BY <1>3, <1>5 DEF OfItsAccount, BoundTo
<1>7. Goto(c, state)
  BY <1>5
<1> HIDE DEF q
<1> QED BY <1>3, <1>5, <1>6, <1>7, LoginStep

\* A login may always end.
LEMMA LoginEnds ==
  ASSUME IInv, NEW c \in Requests, Holds(c), Goto(c, Idle),
         UNCHANGED <<dataStore, directory, attempts, sessions>>, BindingsOK', bindings \subseteq bindings'
  PROVE  IInv'
<1>1. Idle \in RequestState /\ Idle.pc = "idle"
  BY DEF RequestState, Idle
<1> QED BY <1>1, LoginStep

\* In memory the account is bound, and a member of one organization goes on.
LEMMA ResolveInMemoryStep ==
  ASSUME IInv, NEW c \in Requests, NEW subject \in Subjects, NEW u \in People, ResolveInMemory(c, subject, u)
  PROVE  IInv'
<1>1. Holds(c) /\ UNCHANGED <<dataStore, directory, attempts, sessions>>
  BY DEF ResolveInMemory, Holds, At
<1>2. PICK v \in Identified(subject, u) :
        /\ bindings' = bindings \cup {<<subject, v>>}
        /\ \/ Goto(c, Idle)
           \/ \E access \in RolesOf(v) : Goto(c, Login(c, subject, v, access, FALSE))
  BY DEF ResolveInMemory
<1>3. BindingsOK'
  BY <1>1, <1>2, IdentifiedBinds DEF IInv, BindingsOK, directory
<1>4. CASE Goto(c, Idle)
  BY <1>1, <1>2, <1>3, <1>4, LoginEnds
<1>5. ASSUME NEW access \in RolesOf(v), Goto(c, Login(c, subject, v, access, FALSE)) PROVE IInv'
  <2>1. /\ v \in People /\ access \in [org : Orgs, role : Roles]
        /\ \E m \in memberships : m[1] = access.org /\ m[2] = v
        /\ <<access.org, v, access.role>> \in appointed
    BY AccessFound DEF IInv
  <2> QED BY <1>1, <1>2, <1>3, <1>5, <2>1, LoginFound
<1> QED BY <1>2, <1>4, <1>5

\* A bound account goes on as its user, another one looks for the address.
LEMMA FindBySubjectStep ==
  ASSUME IInv, NEW c \in Requests, NEW subject \in Subjects, NEW u \in People, FindBySubject(c, subject, u)
  PROVE  IInv'
<1> DEFINE q == [pc |-> "address", attempt |-> request[c].attempt, subject |-> subject, user |-> u]
<1>1. /\ At(c, "exchange") /\ Holds(c) /\ dataStore = "postgres"
      /\ UNCHANGED <<dataStore, directory, attempts, sessions>> /\ bindings' = bindings
  BY DEF FindBySubject, Holds, At, logins
<1>2. BindingsOK'
  BY <1>1 DEF IInv, BindingsOK, directory
<1>3. \/ Goto(c, q)
      \/ \E v \in BoundTo(subject) :
           \/ Goto(c, Idle)
           \/ \E access \in RolesOf(v) : Goto(c, Login(c, subject, v, access, FALSE))
  BY DEF FindBySubject
<1>4. CASE Goto(c, q)
  <2>1. request[c].attempt \in Nat
    BY <1>1, Shapes DEF IInv, DirectoryOK, ExchangeState
  <2>2. q \in RequestState /\ q.pc = "address" /\ q.attempt = request[c].attempt
    BY <2>1 DEF RequestState, AddressState
  <2> HIDE DEF q
  <2> QED BY <1>1, <1>2, <1>4, <2>2, LoginStep
<1>5. CASE Goto(c, Idle)
  BY <1>1, <1>2, <1>5, LoginEnds
<1>6. ASSUME NEW v \in BoundTo(subject), NEW access \in RolesOf(v),
             Goto(c, Login(c, subject, v, access, FALSE))
      PROVE  IInv'
  <2>1. /\ v \in People /\ access \in [org : Orgs, role : Roles]
        /\ \E m \in memberships : m[1] = access.org /\ m[2] = v
        /\ <<access.org, v, access.role>> \in appointed
    BY AccessFound DEF IInv
  <2>2. <<subject, v>> \in bindings
    BY DEF IInv, BindingsOK, BoundTo
  <2> QED BY <1>1, <1>2, <1>6, <2>1, <2>2, LoginFound
<1> QED BY <1>3, <1>4, <1>5, <1>6

\* The user of the address is a member, with the role of the moment.
LEMMA FindByAddressStep ==
  ASSUME IInv, NEW c \in Requests, FindByAddress(c)
  PROVE  IInv'
<1>1. /\ At(c, "address") /\ Holds(c)
      /\ UNCHANGED <<dataStore, directory, attempts, sessions>> /\ bindings' = bindings
  BY DEF FindByAddress, Holds, At, logins
<1>2. PICK access \in RolesOf(request[c].user) :
        Goto(c, [pc |-> "conflict", attempt |-> request[c].attempt, subject |-> request[c].subject,
                 user |-> request[c].user, access |-> access])
  BY DEF FindByAddress
<1> DEFINE q == [pc |-> "conflict", attempt |-> request[c].attempt, subject |-> request[c].subject,
                 user |-> request[c].user, access |-> access]
<1>3. BindingsOK'
  BY <1>1 DEF IInv, BindingsOK, directory
<1>4. /\ access \in [org : Orgs, role : Roles]
      /\ \E m \in memberships : m[1] = access.org /\ m[2] = request[c].user
      /\ <<access.org, request[c].user, access.role>> \in appointed
  BY AccessFound DEF IInv
<1>5. request[c] \in AddressState /\ dataStore = "postgres"
  BY <1>1, Shapes DEF IInv, DirectoryOK, HoldersOK
<1>6. q \in FoundState
  BY <1>4, <1>5 DEF FoundState, AddressState
<1>7. q \in RequestState /\ q.pc = "conflict" /\ q.attempt = request[c].attempt
      /\ q.access = access /\ q.user = request[c].user
  BY <1>6 DEF RequestState
<1>8. Goto(c, q)
  BY <1>2
<1> HIDE DEF q
<1> QED BY <1>1, <1>3, <1>4, <1>5, <1>7, <1>8, LoginStep

\* The user has no other account at the moment, which says nothing of the next.
LEMMA CheckConflictStep ==
  ASSUME IInv, NEW c \in Requests, CheckConflict(c)
  PROVE  IInv'
<1> DEFINE q == [request[c] EXCEPT !.pc = "bind"]
<1>1. /\ At(c, "conflict") /\ Found(c) /\ Holds(c) /\ Goto(c, q)
      /\ UNCHANGED <<dataStore, directory, attempts, sessions>> /\ bindings' = bindings
  BY DEF CheckConflict, Holds, Found, At, logins
<1>2. BindingsOK'
  BY <1>1 DEF IInv, BindingsOK, directory
<1>3. request[c] \in FoundState /\ dataStore = "postgres"
  BY <1>1, Shapes DEF IInv, DirectoryOK, HoldersOK
<1>4. q \in FoundState /\ q.pc = "bind" /\ q.attempt = request[c].attempt
      /\ q.access = request[c].access /\ q.user = request[c].user
  BY <1>3 DEF FoundState
<1>5. q \in RequestState
  BY <1>4 DEF RequestState
<1>6. /\ \E m \in memberships : m[1] = request[c].access.org /\ m[2] = request[c].user
      /\ <<request[c].access.org, request[c].user, request[c].access.role>> \in appointed
  BY <1>1 DEF IInv, HoldersOK
<1> HIDE DEF q
<1> QED BY <1>1, <1>2, <1>3, <1>4, <1>5, <1>6, LoginStep

\* The account is bound to the user, who has no other; or it was bound before.
LEMMA BindSubjectStep ==
  ASSUME IInv, NEW c \in Requests, BindSubject(c)
  PROVE  IInv'
<1> DEFINE login == request[c]
           overtaken == BoundTo(login.subject) # {}
<1>1. /\ At(c, "bind") /\ Found(c) /\ Holds(c)
      /\ Goto(c, Login(c, login.subject, login.user, login.access, overtaken))
      /\ UNCHANGED <<dataStore, directory, attempts, sessions>>
      /\ overtaken \/ AccountsOf(login.user) = {}
      /\ bindings' = IF overtaken THEN bindings ELSE bindings \cup {<<login.subject, login.user>>}
  BY DEF BindSubject, Holds, Found, At
<1>2. login \in FoundState /\ dataStore = "postgres" /\ BindingsOK /\ DirectoryOK
  BY <1>1, Shapes DEF IInv, DirectoryOK, HoldersOK
<1>3. /\ \E m \in memberships : m[1] = login.access.org /\ m[2] = login.user
      /\ <<login.access.org, login.user, login.access.role>> \in appointed
  BY <1>1 DEF IInv, HoldersOK
<1>4. login.subject \in Subjects /\ login.user \in People /\ login.access \in [org : Orgs, role : Roles]
  BY <1>2 DEF FoundState
<1>5. login.user \in users
  BY <1>2, <1>3 DEF DirectoryOK
<1>6. PICK flag \in BOOLEAN : flag = overtaken
  OBVIOUS
<1>7. BindingsOK'
  <2>1. users' = users
    BY <1>1 DEF directory
  <2>2. CASE overtaken
    BY <1>1, <1>2, <2>1, <2>2 DEF BindingsOK
  <2>3. CASE ~overtaken
    BY <1>1, <1>2, <1>4, <1>5, <2>1, <2>3, Binds DEF BindingsOK
  <2> QED BY <2>2, <2>3
<1>8. Goto(c, Login(c, login.subject, login.user, login.access, flag))
  BY <1>1, <1>6
<1>9. bindings \subseteq bindings'
  BY <1>1
<1>10. \/ <<login.subject, login.user>> \in bindings'
       \/ dataStore = "postgres" /\ flag /\ BoundTo(login.subject) # {}
  BY <1>1, <1>2, <1>6
<1> HIDE DEF login, overtaken
<1> QED BY <1>1, <1>3, <1>4, <1>7, <1>8, <1>9, <1>10, LoginFound

\* A new session takes over the attempt of its request, which lets go of it.
LEMMA SessionAdded ==
  ASSUME IInv, NEW c \in Requests, NEW q \in RequestState, NEW state \in {"creating", "active"},
         At(c, "create"), sessions' = Append(sessions, SessionOf(c, state)), Goto(c, q),
         q.pc = "idle" \/ (q.pc = "insert" /\ q.session = Len(sessions) + 1),
         UNCHANGED <<dataStore, directory, bindings, attempts>>
  PROVE  IInv'
<1> DEFINE s == SessionOf(c, state)
<1>1. DirectoryOK /\ BootstrapOK /\ BindingsOK /\ SessionsOK /\ HoldersOK
  BY DEF IInv
<1>2. /\ users' = users /\ memberships' = memberships /\ appointed' = appointed
      /\ attempts' = attempts /\ bindings' = bindings
  BY DEF directory
<1>3. request[c] \in CreateState /\ Found(c) /\ Holds(c)
  BY <1>1, Shapes DEF DirectoryOK, Holds, Found
<1>4. /\ s.attempt = request[c].attempt /\ s.user = request[c].user /\ s.access = request[c].access
      /\ s.subject = request[c].subject /\ s.overtaken = request[c].overtaken
      /\ s \in SessionRecord
  <2> DEFINE overlaps == \E i \in DOMAIN sessions :
                           sessions[i].user = request[c].user /\ sessions[i].state = "creating"
  <2>1. overlaps \in BOOLEAN
    OBVIOUS
  <2>2. s = [user |-> request[c].user, access |-> request[c].access, attempt |-> request[c].attempt,
             subject |-> request[c].subject, overtaken |-> request[c].overtaken,
             state |-> state, expired |-> FALSE, overlaps |-> overlaps]
    BY Zenon DEF SessionOf
  <2>3. /\ request[c].user \in People /\ request[c].attempt \in Nat
        /\ request[c].access \in [org : Orgs, role : Roles]
        /\ request[c].subject \in Subjects /\ request[c].overtaken \in BOOLEAN
    BY <1>3 DEF CreateState
  <2>4. state \in {"creating", "void", "active", "revoked"}
    OBVIOUS
  <2> HIDE DEF overlaps, s
  <2> QED BY <2>1, <2>2, <2>3, <2>4 DEF SessionRecord
<1>5. /\ request' \in [Requests -> RequestState]
      /\ request'[c] = q
      /\ \A d \in Requests : d # c => request'[d] = request[d]
  BY <1>1, Moves DEF DirectoryOK
<1>6. DirectoryOK' /\ BootstrapOK'
  <2>1. \A d \in Requests : request'[d] = request[d] \/ request'[d].pc \notin {"enroll", "bootstrap"}
    BY <1>5
  <2> QED BY <1>1, <1>5, <2>1, DirectoryKept
<1>7. BindingsOK'
  BY <1>1, <1>2 DEF BindingsOK
<1>8. /\ sessions' \in Seq(SessionRecord)
      /\ DOMAIN sessions' = DOMAIN sessions \cup {Len(sessions) + 1}
      /\ Len(sessions) + 1 \notin DOMAIN sessions
      /\ \A i \in DOMAIN sessions : sessions'[i] = sessions[i]
      /\ sessions'[Len(sessions) + 1] = s
  <2>1. sessions \in Seq(SessionRecord)
    BY <1>1 DEF SessionsOK
  <2> HIDE DEF s
  <2>2. sessions' = Append(sessions, s)
    BY DEF s
  <2> QED BY <1>4, <2>1, <2>2, AppendProperties, LenProperties
<1>9. SessionsOK'
  <2> HIDE DEF s
  <2>1. /\ s.attempt \in DOMAIN attempts /\ attempts[s.attempt] = "gone"
        /\ \E m \in memberships : m[1] = s.access.org /\ m[2] = s.user
        /\ <<s.access.org, s.user, s.access.role>> \in appointed
        /\ \A i \in DOMAIN sessions : sessions[i].attempt # s.attempt
    BY <1>1, <1>3, <1>4 DEF HoldersOK
  <2>2. ASSUME NEW i \in DOMAIN sessions'
        PROVE  /\ sessions'[i].attempt \in DOMAIN attempts /\ attempts[sessions'[i].attempt] = "gone"
               /\ \E m \in memberships : m[1] = sessions'[i].access.org /\ m[2] = sessions'[i].user
               /\ <<sessions'[i].access.org, sessions'[i].user, sessions'[i].access.role>> \in appointed
    <3>1. CASE i \in DOMAIN sessions
      BY <1>1, <1>8, <3>1 DEF SessionsOK
    <3>2. CASE i = Len(sessions) + 1
      BY <1>8, <2>1, <3>2
    <3> QED BY <1>8, <2>2, <3>1, <3>2
  <2>3. ASSUME NEW i \in DOMAIN sessions', NEW j \in DOMAIN sessions', sessions'[i].attempt = sessions'[j].attempt
        PROVE  i = j
    BY <1>1, <1>8, <2>1, <2>3 DEF SessionsOK
  <2>4. attempts' \in Seq({"open", "gone"})
    BY <1>1, <1>2 DEF SessionsOK
  <2> QED BY <1>2, <1>8, <2>2, <2>3, <2>4 DEF SessionsOK
<1>10. \A d \in Requests : /\ Holds(d)' => Holds(d) /\ d # c /\ request'[d] = request[d]
                           /\ Found(d)' => Found(d) /\ request'[d] = request[d]
                           /\ At(d, "create")' => At(d, "create") /\ request'[d] = request[d]
  BY <1>5 DEF Holds, Found, At
<1>11. HoldersOK'
  <2> HIDE DEF s
  <2>1. ASSUME NEW d \in Requests, Holds(d)'
        PROVE  /\ request'[d].attempt \in DOMAIN attempts' /\ attempts'[request'[d].attempt] = "gone"
               /\ \A i \in DOMAIN sessions' : sessions'[i].attempt # request'[d].attempt
    <3>1. request[d].attempt # request[c].attempt
      BY <1>1, <1>3, <1>10, <2>1 DEF HoldersOK
    <3> QED BY <1>1, <1>2, <1>4, <1>8, <1>10, <2>1, <3>1 DEF HoldersOK
  <2>2. ASSUME NEW d \in Requests, At(d, "insert")' PROVE request'[d].session \in DOMAIN sessions'
    <3>1. CASE d = c
      BY <1>5, <1>8, <2>2, <3>1 DEF At
    <3>2. CASE d # c
      BY <1>1, <1>5, <1>8, <2>2, <3>2 DEF At, HoldersOK
    <3> QED BY <3>1, <3>2
  <2>3. AccountsOK'
    <3>1. ASSUME NEW i \in DOMAIN sessions' PROVE OfItsAccount(sessions[i])'
      <4>1. CASE i \in DOMAIN sessions
        BY <1>1, <1>2, <1>8, <4>1 DEF HoldersOK, AccountsOK, OfItsAccount, BoundTo
      <4>2. CASE i = Len(sessions) + 1
        BY <1>1, <1>2, <1>4, <1>8, <4>2 DEF HoldersOK, AccountsOK, OfItsAccount, BoundTo
      <4> QED BY <1>8, <3>1, <4>1, <4>2
    <3>2. ASSUME NEW d \in Requests, At(d, "create")' PROVE OfItsAccount(request[d])'
      BY <1>1, <1>2, <1>10, <3>2 DEF HoldersOK, AccountsOK, OfItsAccount, BoundTo
    <3> QED BY <3>1, <3>2 DEF AccountsOK
  <2>4. \A d \in Requests : \A pc \in {"address", "conflict", "bind"} : At(d, pc)' => At(d, pc)
    BY <1>5 DEF At
  <2> QED BY <1>1, <1>2, <1>10, <2>1, <2>2, <2>3, <2>4 DEF HoldersOK
<1> QED BY <1>6, <1>7, <1>9, <1>11 DEF IInv

\* The session is created, in memory at once.
LEMMA CreateInMemoryStep ==
  ASSUME IInv, NEW c \in Requests, CreateInMemory(c)
  PROVE  IInv'
<1>1. Idle \in RequestState /\ Idle.pc = "idle"
  BY DEF RequestState, Idle
<1> QED BY <1>1, SessionAdded DEF CreateInMemory, At

\* In Postgres the insert is still to come.
LEMMA RetireSurplusStep ==
  ASSUME IInv, NEW c \in Requests, RetireSurplus(c)
  PROVE  IInv'
<1> DEFINE q == [pc |-> "insert", session |-> Len(sessions) + 1, retired |-> Surplus(request[c].user)]
<1>1. sessions \in Seq(SessionRecord)
  BY DEF IInv, SessionsOK
<1>2. Len(sessions) \in Nat /\ DOMAIN sessions \subseteq Nat
  BY <1>1, LenProperties
<1>3. Surplus(request[c].user) \subseteq Nat
  BY <1>2 DEF Surplus, Kept
<1>4. q \in RequestState /\ q.pc = "insert" /\ q.session = Len(sessions) + 1
  BY <1>2, <1>3 DEF RequestState, InsertState
<1>5. /\ At(c, "create") /\ sessions' = Append(sessions, SessionOf(c, "creating")) /\ Goto(c, q)
      /\ UNCHANGED <<dataStore, directory, bindings, attempts>>
  BY DEF RetireSurplus, At
<1> HIDE DEF q
<1> QED BY <1>4, <1>5, SessionAdded

\* What is left when only the state and the expiry of sessions change and
\* requests end.
LEMMA SessionsMarked ==
  ASSUME IInv, sessions' \in Seq(SessionRecord), DOMAIN sessions' = DOMAIN sessions,
         \A i \in DOMAIN sessions : /\ sessions'[i].attempt = sessions[i].attempt
                                    /\ sessions'[i].user = sessions[i].user
                                    /\ sessions'[i].access = sessions[i].access
                                    /\ sessions'[i].subject = sessions[i].subject
                                    /\ sessions'[i].overtaken = sessions[i].overtaken,
         request' \in [Requests -> RequestState],
         \A c \in Requests : request'[c] = request[c] \/ request'[c] = Idle,
         UNCHANGED <<dataStore, directory, bindings, attempts>>
  PROVE  IInv'
<1>1. DirectoryOK /\ BootstrapOK /\ BindingsOK /\ SessionsOK /\ HoldersOK
  BY DEF IInv
<1>2. /\ users' = users /\ memberships' = memberships /\ appointed' = appointed
      /\ attempts' = attempts /\ bindings' = bindings
  BY DEF directory
<1>3. \A c \in Requests : request'[c] = request[c] \/ request'[c].pc = "idle"
  BY DEF Idle
<1>4. DirectoryOK' /\ BootstrapOK'
  <2>1. \A c \in Requests : request'[c] = request[c] \/ request'[c].pc \notin {"enroll", "bootstrap"}
    BY <1>3
  <2> QED BY <1>1, <2>1, DirectoryKept
<1>5. BindingsOK'
  BY <1>1, <1>2 DEF BindingsOK
<1>6. SessionsOK'
  BY <1>1, <1>2 DEF SessionsOK
<1>7. \A c \in Requests : \A pc \in LoginSteps : At(c, pc)' => At(c, pc) /\ request'[c] = request[c]
  BY <1>3 DEF At, LoginSteps
<1>8. \A c \in Requests : /\ Holds(c)' => Holds(c) /\ request'[c] = request[c]
                          /\ Found(c)' => Found(c) /\ request'[c] = request[c]
  BY <1>7 DEF Holds, Found, LoginSteps
<1>9. AccountsOK'
  BY <1>1, <1>2, <1>7 DEF HoldersOK, AccountsOK, OfItsAccount, BoundTo, LoginSteps
<1>10. HoldersOK'
  BY <1>1, <1>2, <1>7, <1>8, <1>9 DEF HoldersOK, LoginSteps
<1> QED BY <1>4, <1>5, <1>6, <1>10 DEF IInv

\* A session of another state or expiry is a session.
LEMMA Marked ==
  ASSUME NEW s \in SessionRecord, NEW state \in {"creating", "void", "active", "revoked"}
  PROVE  /\ [s EXCEPT !.state = state] \in SessionRecord /\ [s EXCEPT !.expired = TRUE] \in SessionRecord
         /\ LET t == [s EXCEPT !.state = state]
            IN  t.attempt = s.attempt /\ t.user = s.user /\ t.access = s.access
                /\ t.subject = s.subject /\ t.overtaken = s.overtaken
         /\ LET t == [s EXCEPT !.expired = TRUE]
            IN  t.attempt = s.attempt /\ t.user = s.user /\ t.access = s.access
                /\ t.subject = s.subject /\ t.overtaken = s.overtaken
BY DEF SessionRecord

\* One session is replaced by one with the same holder.
LEMMA OneMarked ==
  ASSUME IInv, NEW i \in DOMAIN sessions, NEW s \in SessionRecord,
         s.attempt = sessions[i].attempt, s.user = sessions[i].user, s.access = sessions[i].access,
         s.subject = sessions[i].subject, s.overtaken = sessions[i].overtaken,
         sessions' = [sessions EXCEPT ![i] = s],
         request' \in [Requests -> RequestState],
         \A c \in Requests : request'[c] = request[c] \/ request'[c] = Idle,
         UNCHANGED <<dataStore, directory, bindings, attempts>>
  PROVE  IInv'
<1>1. sessions \in Seq(SessionRecord)
  BY DEF IInv, SessionsOK
<1>2. /\ sessions' \in Seq(SessionRecord) /\ DOMAIN sessions' = DOMAIN sessions
      /\ \A j \in DOMAIN sessions : sessions'[j] = IF j = i THEN s ELSE sessions[j]
  BY <1>1, ExceptSeq, LenProperties
<1>3. \A j \in DOMAIN sessions : /\ sessions'[j].attempt = sessions[j].attempt
                                 /\ sessions'[j].user = sessions[j].user
                                 /\ sessions'[j].access = sessions[j].access
                                 /\ sessions'[j].subject = sessions[j].subject
                                 /\ sessions'[j].overtaken = sessions[j].overtaken
  BY <1>2
<1> QED BY <1>2, <1>3, SessionsMarked

\* The insert is committed, and the surplus revoked.
LEMMA InsertSessionStep ==
  ASSUME IInv, NEW c \in Requests, InsertSession(c)
  PROVE  IInv'
<1> DEFINE Committed(i) == IF i = request[c].session THEN [sessions[i] EXCEPT !.state = "active"]
                           ELSE IF i \in request[c].retired THEN [sessions[i] EXCEPT !.state = "revoked"]
                           ELSE sessions[i]
<1>1. sessions' = [i \in DOMAIN sessions |-> Committed(i)] /\ Goto(c, Idle)
      /\ UNCHANGED <<dataStore, directory, bindings, attempts>>
  BY DEF InsertSession
<1>2. sessions \in Seq(SessionRecord) /\ request \in [Requests -> RequestState]
  BY DEF IInv, SessionsOK, DirectoryOK
<1>3. /\ Len(sessions) \in Nat /\ DOMAIN sessions = 1 .. Len(sessions)
      /\ \A i \in DOMAIN sessions : sessions[i] \in SessionRecord
  BY <1>2, LenProperties
<1>4. \A i \in DOMAIN sessions : /\ Committed(i) \in SessionRecord
                                 /\ Committed(i).attempt = sessions[i].attempt
                                 /\ Committed(i).user = sessions[i].user
                                 /\ Committed(i).access = sessions[i].access
                                 /\ Committed(i).subject = sessions[i].subject
                                 /\ Committed(i).overtaken = sessions[i].overtaken
  BY <1>3, Marked
<1>5. /\ sessions' \in Seq(SessionRecord) /\ DOMAIN sessions' = DOMAIN sessions
      /\ \A i \in DOMAIN sessions : sessions'[i] = Committed(i)
  <2> HIDE DEF Committed
  <2>1. sessions' \in [1 .. Len(sessions) -> SessionRecord]
    BY <1>1, <1>3, <1>4
  <2> QED BY <1>1, <1>3, <2>1, SeqDef
<1>6. Idle \in RequestState
  BY DEF RequestState
<1>7. request' \in [Requests -> RequestState] /\ \A d \in Requests : request'[d] = request[d] \/ request'[d] = Idle
  BY <1>1, <1>2, <1>6, Moves
<1> HIDE DEF Committed
<1> QED BY <1>1, <1>4, <1>5, <1>7, SessionsMarked

\* A session is revoked.
LEMMA LogoutStep ==
  ASSUME IInv, NEW i \in DOMAIN sessions, Logout(i)
  PROVE  IInv'
<1> DEFINE s == [sessions[i] EXCEPT !.state = "revoked"]
<1>1. sessions' = [sessions EXCEPT ![i] = s] /\ UNCHANGED <<dataStore, directory, bindings, attempts, request>>
  BY DEF Logout
<1>2. sessions[i] \in SessionRecord /\ request \in [Requests -> RequestState]
  BY LenProperties DEF IInv, SessionsOK, DirectoryOK
<1>3. s \in SessionRecord /\ s.attempt = sessions[i].attempt /\ s.user = sessions[i].user /\ s.access = sessions[i].access
      /\ s.subject = sessions[i].subject /\ s.overtaken = sessions[i].overtaken
  BY <1>2, Marked
<1> HIDE DEF s
<1> QED BY <1>1, <1>2, <1>3, OneMarked

\* A session expires.
LEMMA ExpireSessionStep ==
  ASSUME IInv, NEW i \in DOMAIN sessions, ExpireSession(i)
  PROVE  IInv'
<1> DEFINE s == [sessions[i] EXCEPT !.expired = TRUE]
<1>1. sessions' = [sessions EXCEPT ![i] = s] /\ UNCHANGED <<dataStore, directory, bindings, attempts, request>>
  BY DEF ExpireSession
<1>2. sessions[i] \in SessionRecord /\ request \in [Requests -> RequestState]
  BY LenProperties DEF IInv, SessionsOK, DirectoryOK
<1>3. s \in SessionRecord /\ s.attempt = sessions[i].attempt /\ s.user = sessions[i].user /\ s.access = sessions[i].access
      /\ s.subject = sessions[i].subject /\ s.overtaken = sessions[i].overtaken
  BY <1>2, Marked
<1> HIDE DEF s
<1> QED BY <1>1, <1>2, <1>3, OneMarked

\* A request ends without effect; its session, if it has one, is void.
LEMMA AbortStep ==
  ASSUME IInv, NEW c \in Requests, Abort(c)
  PROVE  IInv'
<1>1. /\ sessions' = IF At(c, "insert")
                     THEN [sessions EXCEPT ![request[c].session].state = "void"] ELSE sessions
      /\ Goto(c, Idle) /\ UNCHANGED <<dataStore, directory, bindings, attempts>>
  BY DEF Abort, At
<1>2. /\ sessions \in Seq(SessionRecord) /\ request \in [Requests -> RequestState]
      /\ At(c, "insert") => request[c].session \in DOMAIN sessions
  BY DEF IInv, SessionsOK, DirectoryOK, HoldersOK
<1>3. Idle \in RequestState
  BY DEF RequestState
<1>4. request' \in [Requests -> RequestState] /\ \A d \in Requests : request'[d] = request[d] \/ request'[d] = Idle
  BY <1>1, <1>2, <1>3, Moves
<1>5. CASE At(c, "insert")
  <2> DEFINE i == request[c].session
             s == [sessions[i] EXCEPT !.state = "void"]
  <2>1. i \in DOMAIN sessions /\ sessions[i] \in SessionRecord
    BY <1>2, <1>5, LenProperties
  <2>2. sessions' = [sessions EXCEPT ![i] = s]
    BY <1>1, <1>5
  <2>3. s \in SessionRecord /\ s.attempt = sessions[i].attempt /\ s.user = sessions[i].user /\ s.access = sessions[i].access
        /\ s.subject = sessions[i].subject /\ s.overtaken = sessions[i].overtaken
    BY <2>1, Marked
  <2> HIDE DEF i, s
  <2> QED BY <1>1, <1>4, <2>1, <2>2, <2>3, OneMarked
<1>6. CASE ~At(c, "insert")
  BY <1>1, <1>2, <1>4, <1>6, SessionsMarked
<1> QED BY <1>5, <1>6

-----------------------------------------------------------------------------
(* The theorems.                                                           *)

\* The invariant holds at the start and every step keeps it.
LEMMA Inductive == Spec => []IInv
<1>1. Init => IInv
  BY EmptySeq DEF Init, IInv, DirectoryOK, BootstrapOK, BindingsOK, SessionsOK, HoldersOK, AccountsOK,
                  Holds, Found, At, RequestState, Idle
<1>2. IInv /\ [Next]_vars => IInv'
  <2> SUFFICES ASSUME IInv, [Next]_vars PROVE IInv'
    OBVIOUS
  <2>1. ASSUME NEW o \in Orgs, NEW founder \in SUBSET People, CreateOrganization(o, founder) PROVE IInv'
    BY <2>1, CreateOrganizationStep
  <2>2. ASSUME NEW o \in Orgs, NEW u \in People, NEW role \in EnrolledRoles, EnrolInMemory(o, u, role) PROVE IInv'
    BY <2>2, EnrolInMemoryStep
  <2>3. ASSUME NEW o \in Orgs, NEW u \in People, NEW role \in EnrolledRoles, NEW c \in Requests,
               UpsertUser(c, o, u, role)
        PROVE  IInv'
    BY <2>3, UpsertUserStep
  <2>4. ASSUME NEW o \in Orgs, NEW u \in People, NEW c \in Requests, BootstrapCheck(c, o, u) PROVE IInv'
    BY <2>4, BootstrapCheckStep
  <2>5. CASE BeginLogin
    BY <2>5, BeginLoginStep
  <2>6. ASSUME NEW a \in DOMAIN attempts, ExpireAttempt(a) PROVE IInv'
    BY <2>6, ExpireAttemptStep
  <2>7. ASSUME NEW a \in DOMAIN attempts, NEW c \in Requests, ConsumeAttempt(c, a) PROVE IInv'
    BY <2>7, ConsumeAttemptStep
  <2>8. ASSUME NEW c \in Requests, Enrol(c) PROVE IInv'
    BY <2>8, EnrolStep
  <2>9. ASSUME NEW c \in Requests, Bootstrap(c) PROVE IInv'
    BY <2>9, BootstrapStep
  <2>10. ASSUME NEW c \in Requests, NEW subject \in Subjects, NEW u \in People,
                ResolveInMemory(c, subject, u) \/ FindBySubject(c, subject, u)
         PROVE  IInv'
    BY <2>10, ResolveInMemoryStep, FindBySubjectStep
  <2>18. ASSUME NEW c \in Requests, FindByAddress(c) \/ CheckConflict(c) \/ BindSubject(c) PROVE IInv'
    BY <2>18, FindByAddressStep, CheckConflictStep, BindSubjectStep
  <2>11. ASSUME NEW c \in Requests, CreateInMemory(c) PROVE IInv'
    BY <2>11, CreateInMemoryStep
  <2>12. ASSUME NEW c \in Requests, RetireSurplus(c) PROVE IInv'
    BY <2>12, RetireSurplusStep
  <2>13. ASSUME NEW c \in Requests, InsertSession(c) PROVE IInv'
    BY <2>13, InsertSessionStep
  <2>14. ASSUME NEW c \in Requests, Abort(c) PROVE IInv'
    BY <2>14, AbortStep
  <2>15. ASSUME NEW i \in DOMAIN sessions, Logout(i) PROVE IInv'
    BY <2>15, LogoutStep
  <2>16. ASSUME NEW i \in DOMAIN sessions, ExpireSession(i) PROVE IInv'
    BY <2>16, ExpireSessionStep
  <2>17. CASE UNCHANGED vars
    <3>1. /\ UNCHANGED <<dataStore, directory, bindings, attempts, sessions, request>>
      BY <2>17 DEF vars, logins
    <3>2. sessions \in Seq(SessionRecord) /\ request \in [Requests -> RequestState]
      BY DEF IInv, SessionsOK, DirectoryOK
    <3> QED BY <3>1, <3>2, SessionsMarked
  <2> QED BY <2>1, <2>2, <2>3, <2>4, <2>5, <2>6, <2>7, <2>8, <2>9, <2>10, <2>11, <2>12, <2>13, <2>14,
             <2>15, <2>16, <2>17, <2>18 DEF Next
<1> QED BY <1>1, <1>2, PTL DEF Spec

\* "An identity may belong to only one Cascadia organization": whoever founded
\* none belongs to one at most, although any number of enrolments overlap.
THEOREM OneOrg == Spec => []OneOrganization
<1>1. IInv => OneOrganization
  <2> SUFFICES ASSUME IInv, NEW u \in users \ founders
               PROVE  Cardinality(OrgsOf(u)) <= 1
    BY DEF OneOrganization
  <2>1. \A o, p \in OrgsOf(u) : o = p
    BY DEF IInv, DirectoryOK, OrgsOf, MembershipsOf
  <2>2. CASE OrgsOf(u) = {}
    BY <2>2, FS_EmptySet
  <2>3. CASE OrgsOf(u) # {}
    <3>1. PICK o : OrgsOf(u) = {o}
      BY <2>1, <2>3
    <3>2. Cardinality({o}) = 1
      BY FS_Singleton
    <3> QED BY <3>1, <3>2
  <2> QED BY <2>2, <2>3
<1> QED BY <1>1, Inductive, PTL

\* Memberships, bindings and sessions keep their schemas and name what exists;
\* an account is of one user and a user has one account, whichever accounts and
\* addresses the provider returns and however the statements of first logins
\* interleave; and a session is of the user its account is bound to, unless its
\* login was overtaken by a first login of the same account, in Postgres only.
THEOREM OneSubject == Spec => []OneSubjectPerUser
<1>1. IInv => OneSubjectPerUser
  <2> SUFFICES ASSUME IInv PROVE OneSubjectPerUser
    OBVIOUS
  <2>1. \A i \in DOMAIN sessions : sessions[i].access.org \in OrgsOf(sessions[i].user)
    BY DEF IInv, SessionsOK, OrgsOf, MembershipsOf
  <2>2. \A i \in DOMAIN sessions : sessions[i].attempt \in DOMAIN attempts
    BY DEF IInv, SessionsOK
  <2>3. attempts \in Seq({"open", "gone"}) /\ sessions \in Seq(SessionRecord)
    BY DEF IInv, SessionsOK
  <2>4. /\ users \subseteq People /\ orgs \subseteq Orgs /\ founders \subseteq users
        /\ memberships \subseteq orgs \X users \X Roles
        /\ \A m, n \in memberships : m[1] = n[1] /\ m[2] = n[2] => m = n
    BY DEF IInv, DirectoryOK
  <2>5. bootstraps \in [Orgs -> Nat]
    BY DEF IInv, BootstrapOK
  <2>6. /\ bindings \subseteq Subjects \X users
        /\ \A b, d \in bindings : b[1] = d[1] \/ b[2] = d[2] => b = d
    BY DEF IInv, BindingsOK
  <2>7. \A i \in DOMAIN sessions : OfItsAccount(sessions[i])
    BY DEF IInv, HoldersOK, AccountsOK
  <2> QED BY <2>1, <2>2, <2>3, <2>4, <2>5, <2>6, <2>7 DEF OneSubjectPerUser, TypeOK
<1> QED BY <1>1, Inductive, PTL

\* The bootstrap of an organization goes through once and a login attempt makes
\* one session at most, whatever requests overlap, fail or are repeated.
THEOREM Once == Spec => []UsedOnce
<1>1. IInv => UsedOnce
  BY DEF IInv, BootstrapOK, SessionsOK, UsedOnce, BootstrapOnce, OneLoginPerAttempt
<1> QED BY <1>1, Inductive, PTL

\* "Provider claims never assign Cascadia roles": the role of every session is
\* one that an enrolment, the bootstrap or the founding of an organization gave.
THEOREM EnrolledRolesOnly == Spec => []RolesComeFromEnrolment
<1>1. IInv => RolesComeFromEnrolment
  BY DEF IInv, SessionsOK, RolesComeFromEnrolment
<1> QED BY <1>1, Inductive, PTL

-----------------------------------------------------------------------------
(* The limit of sessions.                                                  *)

\* The usable sessions of the user of m that were begun before m.
Older(m) ==
  {i \in DOMAIN sessions : i < m /\ sessions[i].user = sessions[m].user /\ Usable(i)}

\* Nothing older than a session that overlapped no other is still being
\* created, so what is older only becomes less: once the session is committed
\* there is room for it, and while it is not there is what it will revoke.
LimitOK ==
  /\ \A m \in DOMAIN sessions : ~sessions[m].overlaps =>
       /\ \A i \in DOMAIN sessions :
            i < m /\ sessions[i].user = sessions[m].user => sessions[i].state # "creating"
       /\ sessions[m].state = "active" => Cardinality(Older(m)) < SessionLimit
  /\ \A c \in Requests : At(c, "insert") =>
       /\ sessions[request[c].session].state = "creating"
       /\ \A i \in request[c].retired : i \in DOMAIN sessions /\ sessions[i].state # "creating"
       /\ ~sessions[request[c].session].overlaps =>
            Cardinality(Older(request[c].session) \ request[c].retired) < SessionLimit
  /\ \A c, d \in Requests :
       At(c, "insert") /\ At(d, "insert") /\ request[c].session = request[d].session => c = d

\* The in-memory store has no limit.
LimitInv == dataStore = "postgres" => LimitOK

\* A set of numbers has a least element.
LEMMA LeastNatural ==
  ASSUME NEW S \in SUBSET Nat, S # {}
  PROVE  \E n \in S : \A k \in S : n <= k
<1> DEFINE R == OpToRel(<, Nat)
<1>1. IsWellFoundedOn(R, Nat)
  BY NatLessThanWellFounded
<1>2. PICK n \in S : \A k \in S : ~(<<k, n>> \in R)
  <2> HIDE DEF R
  <2> QED BY <1>1, WFMin
<1>3. \A k \in S : ~(k < n)
  BY <1>2 DEF OpToRel
<1> QED BY <1>3

\* Sets of sessions are finite.
LEMMA SessionSets ==
  ASSUME SessionsOK
  PROVE  /\ Len(sessions) \in Nat /\ DOMAIN sessions = 1 .. Len(sessions)
         /\ \A S \in SUBSET DOMAIN sessions :
              IsFiniteSet(S) /\ Cardinality(S) \in Nat /\ \A T \in SUBSET S : Cardinality(T) <= Cardinality(S)
<1>1. Len(sessions) \in Nat /\ DOMAIN sessions = 1 .. Len(sessions)
  BY LenProperties DEF SessionsOK
<1>2. IsFiniteSet(DOMAIN sessions)
  BY <1>1, FS_Interval
<1>3. ASSUME NEW S \in SUBSET DOMAIN sessions
      PROVE  IsFiniteSet(S) /\ Cardinality(S) \in Nat /\ \A T \in SUBSET S : Cardinality(T) <= Cardinality(S)
  <2>1. IsFiniteSet(S)
    BY <1>2, FS_Subset
  <2> QED BY <2>1, FS_Subset, FS_CardinalityType
<1> QED BY <1>1, <1>3

\* What is kept unless it is surplus leaves room for one more: of the oldest of
\* it fewer than the limit less one are newer.
LEMMA SurplusLeavesRoom ==
  ASSUME SessionsOK, NEW u
  PROVE  Cardinality({i \in DOMAIN sessions : sessions[i].user = u /\ Usable(i)} \ Surplus(u)) < SessionLimit
<1> DEFINE R == {i \in DOMAIN sessions : sessions[i].user = u /\ Usable(i)} \ Surplus(u)
           Newer(i) == {j \in Kept(u) : j > i}
<1>1. /\ R \subseteq Kept(u) /\ Kept(u) \subseteq DOMAIN sessions /\ DOMAIN sessions \subseteq Nat
      /\ \A i \in R : ~(Cardinality(Newer(i)) >= SessionLimit - 1)
  BY SessionSets DEF Kept, Usable, Surplus
<1>2. SessionLimit \in Nat \ {0}
  BY IdentityBoundsAssumption
<1> SUFFICES Cardinality(R) < SessionLimit
  OBVIOUS
<1> HIDE DEF R
<1>3. CASE R = {}
  <2>1. Cardinality(R) = 0
    BY <1>3, FS_EmptySet
  <2> QED BY <1>2, <2>1
<1>4. CASE R # {}
  <2>1. PICK i \in R : \A j \in R : i <= j
    BY <1>1, <1>4, LeastNatural
  <2>2. R \ {i} \subseteq Newer(i) /\ Newer(i) \subseteq DOMAIN sessions
    BY <1>1, <2>1
  <2>3. Cardinality(Newer(i)) \in Nat /\ Cardinality(R \ {i}) <= Cardinality(Newer(i))
    BY <2>2, SessionSets
  <2>4. IsFiniteSet(R) /\ Cardinality(R) \in Nat /\ Cardinality(R \ {i}) \in Nat
    <3>1. R \in SUBSET DOMAIN sessions /\ R \ {i} \in SUBSET DOMAIN sessions
      BY <1>1
    <3> QED BY <3>1, SessionSets
  <2>5. Cardinality(R \ {i}) = Cardinality(R) - 1
    BY <2>4, FS_RemoveElement
  <2>6. Cardinality(Newer(i)) < SessionLimit - 1
    BY <1>1, <1>2, <2>3
  <2> QED BY <1>2, <2>3, <2>4, <2>5, <2>6
<1> QED BY <1>3, <1>4

\* Requests that create no session leave the limit alone.
LEMMA LimitApart ==
  ASSUME LimitOK, sessions' = sessions,
         \A c \in Requests : request'[c] = request[c] \/ request'[c].pc # "insert"
  PROVE  LimitOK'
<1>1. \A c \in Requests : At(c, "insert")' => At(c, "insert") /\ request'[c] = request[c]
  BY DEF At
<1>2. \A m : Older(m)' = Older(m)
  BY DEF Older, Usable
<1> QED BY <1>1, <1>2 DEF LimitOK

\* Sessions are revoked, void or expire: a session that was not being created is
\* not more usable than it was.
LEMMA LimitMarked ==
  ASSUME SessionsOK, LimitOK, DOMAIN sessions' = DOMAIN sessions, HoldersOK,
         \A i \in DOMAIN sessions : /\ sessions'[i].user = sessions[i].user
                                    /\ sessions'[i].overlaps = sessions[i].overlaps
                                    /\ Usable(i)' => Usable(i)
                                    /\ sessions'[i].state = "active" => sessions[i].state = "active"
                                    /\ sessions'[i].state = "creating" => sessions[i].state = "creating",
         \A c \in Requests : \/ request'[c].pc # "insert"
                             \/ /\ request'[c] = request[c]
                                /\ sessions'[request[c].session].state = sessions[request[c].session].state
  PROVE  LimitOK'
<1>1. \A c \in Requests : At(c, "insert")' =>
        /\ At(c, "insert") /\ request'[c] = request[c] /\ request[c].session \in DOMAIN sessions
        /\ sessions'[request[c].session].state = sessions[request[c].session].state
  BY DEF At, HoldersOK
<1>2. \A m \in DOMAIN sessions : Older(m)' \subseteq Older(m) /\ Older(m) \in SUBSET DOMAIN sessions
  BY DEF Older
<1>3. ASSUME NEW m \in DOMAIN sessions, NEW T
      PROVE  /\ Cardinality(Older(m)' \ T) <= Cardinality(Older(m) \ T)
             /\ Cardinality(Older(m)' \ T) \in Nat /\ Cardinality(Older(m) \ T) \in Nat
  <2>1. Older(m) \ T \in SUBSET DOMAIN sessions /\ Older(m)' \ T \in SUBSET (Older(m) \ T)
    BY <1>2
  <2> QED BY <2>1, SessionSets
<1>4. ASSUME NEW m \in DOMAIN sessions
      PROVE  /\ Cardinality(Older(m)') <= Cardinality(Older(m))
             /\ Cardinality(Older(m)') \in Nat /\ Cardinality(Older(m)) \in Nat
  <2>1. Older(m) \in SUBSET DOMAIN sessions /\ Older(m)' \in SUBSET Older(m)
    BY <1>2
  <2> QED BY <2>1, SessionSets
<1>5. SessionLimit \in Nat
  BY IdentityBoundsAssumption
<1>6. ASSUME NEW m \in DOMAIN sessions', ~sessions'[m].overlaps
      PROVE  /\ \A i \in DOMAIN sessions' :
                  i < m /\ sessions'[i].user = sessions'[m].user => sessions'[i].state # "creating"
             /\ sessions'[m].state = "active" => Cardinality(Older(m)') < SessionLimit
  <2>1. \A i \in DOMAIN sessions' :
          i < m /\ sessions'[i].user = sessions'[m].user => sessions'[i].state # "creating"
    BY <1>6 DEF LimitOK
  <2>2. sessions'[m].state = "active" => Cardinality(Older(m)) < SessionLimit
    BY <1>6 DEF LimitOK
  <2>3. sessions'[m].state = "active" => Cardinality(Older(m)') < SessionLimit
    BY <1>4, <1>5, <2>2
  <2> QED BY <2>1, <2>3
<1>7. ASSUME NEW c \in Requests, At(c, "insert")'
      PROVE  /\ sessions'[request'[c].session].state = "creating"
             /\ \A i \in request'[c].retired : i \in DOMAIN sessions' /\ sessions'[i].state # "creating"
             /\ (~sessions[request[c].session].overlaps =>
                   Cardinality(Older(request[c].session) \ request[c].retired) < SessionLimit)'
  <2>1. /\ At(c, "insert") /\ request'[c] = request[c] /\ request[c].session \in DOMAIN sessions
        /\ sessions'[request[c].session].state = sessions[request[c].session].state
    BY <1>1, <1>7
  <2>2. /\ sessions[request[c].session].state = "creating"
        /\ \A i \in request[c].retired : i \in DOMAIN sessions /\ sessions[i].state # "creating"
        /\ ~sessions[request[c].session].overlaps =>
             Cardinality(Older(request[c].session) \ request[c].retired) < SessionLimit
    BY <2>1 DEF LimitOK
  <2>3. PICK m \in DOMAIN sessions : m = request[c].session
    BY <2>1
  <2>4. PICK T : T = request[c].retired
    OBVIOUS
  <2>5. ~sessions[m].overlaps => Cardinality(Older(m)' \ T) < SessionLimit
    <3>1. ~sessions[m].overlaps => Cardinality(Older(m) \ T) < SessionLimit
      BY <2>2, <2>3, <2>4
    <3>2. /\ Cardinality(Older(m)' \ T) <= Cardinality(Older(m) \ T)
          /\ Cardinality(Older(m)' \ T) \in Nat /\ Cardinality(Older(m) \ T) \in Nat
      BY <1>3
    <3> QED BY <1>5, <3>1, <3>2
  <2>6. request'[c].session = m /\ request'[c].retired = T
    BY <2>1, <2>3, <2>4
  <2>7. (Older(request[c].session) \ request[c].retired)' = Older(m)' \ T
    BY <2>6 DEF Older, Usable
  <2>8. (~sessions[request[c].session].overlaps =>
           Cardinality(Older(request[c].session) \ request[c].retired) < SessionLimit)'
    BY <2>5, <2>6, <2>7
  <2> QED BY <2>1, <2>2, <2>8
<1>8. \A c, d \in Requests :
        At(c, "insert")' /\ At(d, "insert")' /\ request'[c].session = request'[d].session => c = d
  BY <1>1 DEF LimitOK
<1> QED BY <1>6, <1>7, <1>8 DEF LimitOK

\* A session is begun: it is the newest of its user, and if it overlaps no other
\* it is to revoke what leaves no room for it.
LEMMA LimitBegun ==
  ASSUME SessionsOK, HoldersOK, LimitOK, NEW c \in Requests, request \in [Requests -> RequestState],
         RetireSurplus(c)
  PROVE  LimitOK'
<1>n. PICK n : n = Len(sessions)
  OBVIOUS
<1>u. PICK u : u = request[c].user
  OBVIOUS
<1>s. PICK s : s = SessionOf(c, "creating")
  OBVIOUS
<1>1. /\ sessions' = Append(sessions, s)
      /\ request' = [request EXCEPT ![c] = [pc |-> "insert", session |-> n + 1, retired |-> Surplus(u)]]
  BY <1>n, <1>u, <1>s DEF RetireSurplus, Goto
<1>2. /\ n \in Nat /\ DOMAIN sessions = 1 .. n /\ DOMAIN sessions' = 1 .. (n + 1)
      /\ \A i \in 1 .. n : sessions'[i] = sessions[i]
      /\ sessions'[n + 1] = s
  <2>1. sessions \in Seq(SessionRecord \cup {s})
    BY DEF SessionsOK
  <2>2. /\ Append(sessions, s) \in Seq(SessionRecord \cup {s}) /\ Len(Append(sessions, s)) = n + 1
        /\ \A i \in 1 .. n : Append(sessions, s)[i] = sessions[i]
        /\ Append(sessions, s)[n + 1] = s
    BY <1>n, <2>1, AppendProperties
  <2>3. n \in Nat /\ DOMAIN sessions = 1 .. n
    BY <1>n, SessionSets
  <2>4. DOMAIN Append(sessions, s) = 1 .. (n + 1)
    BY <2>2, LenProperties
  <2> QED BY <1>1, <2>2, <2>3, <2>4
<1>3. /\ s.user = u /\ s.state = "creating"
      /\ s.overlaps <=> \E i \in DOMAIN sessions : sessions[i].user = u /\ sessions[i].state = "creating"
  BY <1>u, <1>s DEF SessionOf
<1>4. /\ request'[c].pc = "insert" /\ request'[c].session = n + 1 /\ request'[c].retired = Surplus(u)
      /\ \A d \in Requests \ {c} : request'[d] = request[d]
  BY <1>1
<1>5. Surplus(u) \subseteq DOMAIN sessions /\ \A i \in Surplus(u) : sessions[i].state = "active"
  BY DEF Surplus, Kept
<1>6. \A m \in 1 .. n : Older(m)' = Older(m)
  BY <1>2 DEF Older, Usable
<1>7. Older(n + 1)' = {i \in DOMAIN sessions : sessions[i].user = u /\ Usable(i)}
  <2>1. \A i \in 1 .. (n + 1) : i < n + 1 <=> i \in 1 .. n
    BY <1>2
  <2> QED BY <1>2, <1>3, <2>1 DEF Older, Usable
<1>8. ASSUME NEW m \in DOMAIN sessions', ~sessions'[m].overlaps
      PROVE  /\ \A i \in DOMAIN sessions' :
                  i < m /\ sessions'[i].user = sessions'[m].user => sessions'[i].state # "creating"
             /\ sessions'[m].state = "active" => Cardinality(Older(m)') < SessionLimit
  <2>1. CASE m \in 1 .. n
    <3>1. \A i \in DOMAIN sessions' : i < m => i \in 1 .. n
      BY <1>2, <2>1
    <3> QED BY <1>2, <1>6, <1>8, <2>1, <3>1 DEF LimitOK
  <2>2. CASE m = n + 1
    <3>1. \A i \in DOMAIN sessions' : i < m => i \in 1 .. n
      BY <1>2, <2>2
    <3> QED BY <1>2, <1>3, <1>8, <2>2, <3>1
  <2> QED BY <1>2, <2>1, <2>2
<1>9. ASSUME NEW d \in Requests, At(d, "insert")'
      PROVE  /\ sessions'[request'[d].session].state = "creating"
             /\ \A i \in request'[d].retired : i \in DOMAIN sessions' /\ sessions'[i].state # "creating"
             /\ (~sessions[request[d].session].overlaps =>
                   Cardinality(Older(request[d].session) \ request[d].retired) < SessionLimit)'
  <2>1. CASE d = c
    <3>1. Cardinality(Older(n + 1)' \ Surplus(u)) < SessionLimit
      BY <1>7, SurplusLeavesRoom
    <3>2. (Older(request[d].session) \ request[d].retired)' = Older(n + 1)' \ Surplus(u)
      BY <1>4, <2>1 DEF Older, Usable
    <3>3. \A i \in Surplus(u) : i \in DOMAIN sessions' /\ sessions'[i].state # "creating"
      BY <1>2, <1>5
    <3> QED BY <1>2, <1>3, <1>4, <2>1, <3>1, <3>2, <3>3
  <2>2. CASE d # c
    <3>1. At(d, "insert") /\ request'[d] = request[d] /\ request[d].session \in DOMAIN sessions
      BY <1>4, <1>9, <2>2 DEF At, HoldersOK
    <3>2. PICK m \in 1 .. n : m = request[d].session
      BY <1>2, <3>1
    <3>3. (Older(request[d].session) \ request[d].retired)' = Older(m) \ request[d].retired
      <4>1. request'[d].session = m /\ request'[d].retired = request[d].retired
        BY <3>1, <3>2
      <4>2. (Older(request[d].session) \ request[d].retired)' = Older(m)' \ request[d].retired
        BY <4>1 DEF Older, Usable
      <4> QED BY <1>6, <4>2
    <3>4. /\ sessions[m].state = "creating"
          /\ \A i \in request[d].retired : i \in DOMAIN sessions /\ sessions[i].state # "creating"
          /\ ~sessions[m].overlaps => Cardinality(Older(m) \ request[d].retired) < SessionLimit
      BY <3>1, <3>2 DEF LimitOK
    <3>5. \A i \in request'[d].retired : i \in DOMAIN sessions' /\ sessions'[i].state # "creating"
      BY <1>2, <3>1, <3>4
    <3> QED BY <1>2, <3>1, <3>2, <3>3, <3>4, <3>5
  <2> QED BY <2>1, <2>2
<1>10. \A d, e \in Requests :
         At(d, "insert")' /\ At(e, "insert")' /\ request'[d].session = request'[e].session => d = e
  <2>1. \A d \in Requests : At(d, "insert")' =>
          \/ d = c /\ request'[d].session = n + 1
          \/ d # c /\ At(d, "insert") /\ request'[d].session = request[d].session /\ request[d].session \in 1 .. n
    BY <1>2, <1>4 DEF At, HoldersOK
  <2>2. n + 1 \notin 1 .. n
    BY <1>2
  <2> QED BY <2>1, <2>2 DEF LimitOK
<1> QED BY <1>8, <1>9, <1>10 DEF LimitOK

\* A session is committed with what it revokes: if it overlaps no other there is
\* room for it, and it is older than none that overlaps no other.
LEMMA LimitCommitted ==
  ASSUME SessionsOK, HoldersOK, LimitOK, NEW c \in Requests, At(c, "insert"), InsertSession(c),
         request \in [Requests -> RequestState]
  PROVE  LimitOK'
<1>1. PICK n \in DOMAIN sessions : n = request[c].session
  BY DEF HoldersOK
<1>2. PICK R : R = request[c].retired
  OBVIOUS
<1>3. /\ DOMAIN sessions' = DOMAIN sessions
      /\ \A i \in DOMAIN sessions :
           sessions'[i] = IF i = n THEN [sessions[i] EXCEPT !.state = "active"]
                          ELSE IF i \in R THEN [sessions[i] EXCEPT !.state = "revoked"]
                          ELSE sessions[i]
  BY <1>1, <1>2 DEF InsertSession
<1>4. \A i \in DOMAIN sessions : sessions[i] \in SessionRecord
  BY LenProperties DEF SessionsOK
<1>5. /\ sessions[n].state = "creating" /\ \A i \in R : i \in DOMAIN sessions /\ sessions[i].state # "creating"
      /\ ~sessions[n].overlaps => Cardinality(Older(n) \ R) < SessionLimit
  BY <1>1, <1>2 DEF LimitOK
<1>6. \A i \in DOMAIN sessions :
        /\ sessions'[i].user = sessions[i].user /\ sessions'[i].overlaps = sessions[i].overlaps
        /\ sessions'[i].expired = sessions[i].expired
        /\ sessions'[i].state = IF i = n THEN "active" ELSE IF i \in R THEN "revoked" ELSE sessions[i].state
  BY <1>3, <1>4 DEF SessionRecord
<1>7. /\ request'[c] = Idle /\ \A d \in Requests \ {c} : request'[d] = request[d]
  BY DEF InsertSession, Goto
<1>8. ASSUME NEW m \in DOMAIN sessions, ~sessions[m].overlaps
      PROVE  /\ ~(n < m /\ sessions[n].user = sessions[m].user)
             /\ Older(m)' \subseteq Older(m) \ R
             /\ Cardinality(Older(m)') <= Cardinality(Older(m) \ R)
             /\ Cardinality(Older(m)') <= Cardinality(Older(m))
             /\ Cardinality(Older(m)') \in Nat /\ Cardinality(Older(m)) \in Nat
             /\ Cardinality(Older(m) \ R) \in Nat
  <2>1. ~(n < m /\ sessions[n].user = sessions[m].user)
    BY <1>5, <1>8 DEF LimitOK
  <2>2. Older(m)' \subseteq Older(m) \ R
    BY <1>3, <1>6, <2>1 DEF Older, Usable
  <2>3. Older(m) \in SUBSET DOMAIN sessions
    BY DEF Older
  <2>4. Older(m)' \in SUBSET (Older(m) \ R) /\ Older(m) \ R \in SUBSET DOMAIN sessions
        /\ Older(m)' \in SUBSET Older(m)
    BY <2>2, <2>3
  <2> QED BY <2>1, <2>2, <2>3, <2>4, SessionSets
<1>9. SessionLimit \in Nat
  BY IdentityBoundsAssumption
<1>10. ASSUME NEW m \in DOMAIN sessions', ~sessions'[m].overlaps
      PROVE  /\ \A i \in DOMAIN sessions' :
                  i < m /\ sessions'[i].user = sessions'[m].user => sessions'[i].state # "creating"
             /\ sessions'[m].state = "active" => Cardinality(Older(m)') < SessionLimit
  <2>1. m \in DOMAIN sessions /\ ~sessions[m].overlaps
    BY <1>3, <1>6, <1>10
  <2>2. \A i \in DOMAIN sessions' :
          i < m /\ sessions'[i].user = sessions'[m].user => sessions'[i].state # "creating"
    BY <1>3, <1>6, <2>1 DEF LimitOK
  <2>3. CASE m = n
    BY <1>5, <1>8, <1>9, <2>1, <2>2, <2>3
  <2>4. CASE m # n
    <3>1. sessions'[m].state = "active" => sessions[m].state = "active"
      BY <1>6, <2>1, <2>4
    <3>2. sessions[m].state = "active" => Cardinality(Older(m)) < SessionLimit
      BY <2>1 DEF LimitOK
    <3>3. Cardinality(Older(m)') <= Cardinality(Older(m)) /\ Cardinality(Older(m)') \in Nat /\ Cardinality(Older(m)) \in Nat
      BY <1>8, <2>1
    <3>4. sessions'[m].state = "active" => Cardinality(Older(m)') < SessionLimit
      BY <1>9, <3>1, <3>2, <3>3
    <3> QED BY <2>2, <3>4
  <2> QED BY <2>3, <2>4
<1>11. ASSUME NEW d \in Requests, At(d, "insert")'
       PROVE  /\ sessions'[request'[d].session].state = "creating"
              /\ \A i \in request'[d].retired : i \in DOMAIN sessions' /\ sessions'[i].state # "creating"
              /\ (~sessions[request[d].session].overlaps =>
                    Cardinality(Older(request[d].session) \ request[d].retired) < SessionLimit)'
  <2>1. d # c /\ At(d, "insert") /\ request'[d] = request[d]
    BY <1>7, <1>11 DEF At, Idle
  <2>2. PICK m \in DOMAIN sessions : m = request[d].session
    BY <2>1 DEF HoldersOK
  <2>3. PICK T : T = request[d].retired
    OBVIOUS
  <2>4. /\ sessions[m].state = "creating" /\ m # n
        /\ \A i \in T : i \in DOMAIN sessions /\ sessions[i].state # "creating"
        /\ ~sessions[m].overlaps => Cardinality(Older(m) \ T) < SessionLimit
    BY <1>1, <2>1, <2>2, <2>3 DEF LimitOK
  <2>5. sessions'[m].state = "creating"
    BY <1>5, <1>6, <2>4
  <2>6. \A i \in T : i \in DOMAIN sessions' /\ sessions'[i].state # "creating"
    BY <1>3, <1>6, <2>4
  <2>7. ~sessions[m].overlaps => Cardinality(Older(m)' \ T) < SessionLimit
    <3> SUFFICES ASSUME ~sessions[m].overlaps PROVE Cardinality(Older(m)' \ T) < SessionLimit
      OBVIOUS
    <3>1. Older(m)' \ T \in SUBSET (Older(m) \ T) /\ Older(m) \ T \in SUBSET DOMAIN sessions
      BY <1>8 DEF Older
    <3>2. /\ Cardinality(Older(m)' \ T) <= Cardinality(Older(m) \ T)
          /\ Cardinality(Older(m)' \ T) \in Nat /\ Cardinality(Older(m) \ T) \in Nat
      BY <3>1, SessionSets
    <3>3. Cardinality(Older(m) \ T) < SessionLimit
      BY <2>4
    <3> QED BY <1>9, <3>2, <3>3
  <2>8. request'[d].session = m /\ request'[d].retired = T
    BY <2>1, <2>2, <2>3
  <2>9. (Older(request[d].session) \ request[d].retired)' = Older(m)' \ T
    BY <2>8 DEF Older, Usable
  <2>10. (~sessions[request[d].session].overlaps =>
            Cardinality(Older(request[d].session) \ request[d].retired) < SessionLimit)'
    BY <1>6, <2>7, <2>8, <2>9
  <2> QED BY <2>5, <2>6, <2>8, <2>10
<1>12. \A d, e \in Requests :
         At(d, "insert")' /\ At(e, "insert")' /\ request'[d].session = request'[e].session => d = e
  <2>1. \A d \in Requests : At(d, "insert")' => At(d, "insert") /\ request'[d] = request[d]
    BY <1>7 DEF At, Idle
  <2> QED BY <2>1 DEF LimitOK
<1> QED BY <1>10, <1>11, <1>12 DEF LimitOK

\* Every step keeps the limit.
LEMMA LimitStep ==
  ASSUME IInv, LimitInv, [Next]_vars, dataStore' = "postgres"
  PROVE  LimitOK'
<1>1. SessionsOK /\ HoldersOK /\ request \in [Requests -> RequestState]
  BY DEF IInv, DirectoryOK
<1>2. dataStore = "postgres"
  BY DEF Next, vars, CreateOrganization, EnrolInMemory, UpsertUser, BootstrapCheck, BeginLogin,
         ExpireAttempt, ConsumeAttempt, Enrol, Bootstrap, ResolveInMemory, FindBySubject,
         FindByAddress, CheckConflict, BindSubject, CreateInMemory, RetireSurplus,
         InsertSession, Abort, Logout, ExpireSession
<1>3. LimitOK
  BY <1>2 DEF LimitInv
<1>4. \A q : \A c, d \in Requests : Goto(c, q) => request'[d] = IF d = c THEN q ELSE request[d]
  BY <1>1 DEF Goto
<1>5. CASE sessions' = sessions /\ request' = request
  BY <1>3, <1>5, LimitApart
<1>6. ASSUME sessions' = sessions, NEW c \in Requests, NEW q, Goto(c, q), q.pc # "insert"
      PROVE  LimitOK'
  BY <1>3, <1>4, <1>6, LimitApart
<1>7. ASSUME NEW o \in Orgs, NEW founder \in SUBSET People, CreateOrganization(o, founder) PROVE LimitOK'
  BY <1>5, <1>7 DEF CreateOrganization, logins
<1>8. ASSUME NEW o \in Orgs, NEW u \in People, NEW role \in EnrolledRoles, EnrolInMemory(o, u, role) PROVE LimitOK'
  BY <1>5, <1>8 DEF EnrolInMemory, logins
<1>9. ASSUME NEW o \in Orgs, NEW u \in People, NEW role \in EnrolledRoles, NEW c \in Requests,
             UpsertUser(c, o, u, role)
      PROVE  LimitOK'
  <2>1. PICK q : q = [pc |-> "enroll", org |-> o, user |-> u, role |-> role]
    OBVIOUS
  <2>2. q.pc # "insert"
    BY <2>1
  <2>3. Goto(c, q) /\ sessions' = sessions
    BY <1>9, <2>1 DEF UpsertUser, logins
  <2> QED BY <1>6, <2>2, <2>3
<1>10. ASSUME NEW o \in Orgs, NEW u \in People, NEW c \in Requests, BootstrapCheck(c, o, u) PROVE LimitOK'
  <2>1. PICK q : q = [pc |-> "bootstrap", org |-> o, user |-> u]
    OBVIOUS
  <2>2. q.pc # "insert"
    BY <2>1
  <2>3. Goto(c, q) /\ sessions' = sessions
    BY <1>10, <2>1 DEF BootstrapCheck, logins
  <2> QED BY <1>6, <2>2, <2>3
<1>11. CASE BeginLogin
  BY <1>5, <1>11 DEF BeginLogin
<1>12. ASSUME NEW a \in DOMAIN attempts, ExpireAttempt(a) PROVE LimitOK'
  BY <1>5, <1>12 DEF ExpireAttempt
<1>13. ASSUME NEW a \in DOMAIN attempts, NEW c \in Requests, ConsumeAttempt(c, a) PROVE LimitOK'
  <2>1. PICK q : q = [pc |-> "exchange", attempt |-> a]
    OBVIOUS
  <2>2. q.pc # "insert"
    BY <2>1
  <2>3. Goto(c, q) /\ sessions' = sessions
    BY <1>13, <2>1 DEF ConsumeAttempt
  <2> QED BY <1>6, <2>2, <2>3
<1>14. ASSUME NEW c \in Requests, Enrol(c) \/ Bootstrap(c) PROVE LimitOK'
  <2>1. Goto(c, Idle) /\ sessions' = sessions /\ Idle.pc # "insert"
    BY <1>14 DEF Enrol, Bootstrap, logins, Idle
  <2> QED BY <1>6, <2>1
<1>15. \A c, subject, v, access, overtaken : Login(c, subject, v, access, overtaken).pc # "insert"
  BY DEF Login
<1>25. Idle.pc # "insert"
  BY DEF Idle
<1>26. ASSUME NEW c \in Requests, NEW subject \in Subjects, NEW u \in People,
              ResolveInMemory(c, subject, u) \/ FindBySubject(c, subject, u)
       PROVE  LimitOK'
  <2> DEFINE address == [pc |-> "address", attempt |-> request[c].attempt, subject |-> subject, user |-> u]
  <2>1. sessions' = sessions
    BY <1>26 DEF ResolveInMemory, FindBySubject, logins
  <2>2. \/ Goto(c, address) \/ Goto(c, Idle)
        \/ \E v, access : Goto(c, Login(c, subject, v, access, FALSE))
    BY <1>26 DEF ResolveInMemory, FindBySubject
  <2>3. address.pc # "insert"
    OBVIOUS
  <2> HIDE DEF address
  <2>4. PICK q : Goto(c, q) /\ q.pc # "insert"
    BY <1>15, <1>25, <2>2, <2>3
  <2> QED BY <1>6, <2>1, <2>4
<1>27. ASSUME NEW c \in Requests, FindByAddress(c) PROVE LimitOK'
  <2>1. PICK access : Goto(c, [pc |-> "conflict", attempt |-> request[c].attempt,
                               subject |-> request[c].subject, user |-> request[c].user, access |-> access])
    BY <1>27 DEF FindByAddress
  <2>2. PICK q : /\ q = [pc |-> "conflict", attempt |-> request[c].attempt,
                         subject |-> request[c].subject, user |-> request[c].user, access |-> access]
                 /\ Goto(c, q)
    BY <2>1
  <2>3. q.pc # "insert" /\ sessions' = sessions
    BY <1>27, <2>2 DEF FindByAddress, logins
  <2> QED BY <1>6, <2>2, <2>3
<1>28. ASSUME NEW c \in Requests, CheckConflict(c) PROVE LimitOK'
  <2>1. request[c] \in FoundState
    BY <1>1, <1>28, Shapes DEF CheckConflict, At
  <2>2. PICK q : q = [request[c] EXCEPT !.pc = "bind"]
    OBVIOUS
  <2>3. q.pc # "insert"
    BY <2>1, <2>2 DEF FoundState
  <2>4. Goto(c, q) /\ sessions' = sessions
    BY <1>28, <2>2 DEF CheckConflict, logins
  <2> QED BY <1>6, <2>3, <2>4
<1>29. ASSUME NEW c \in Requests, BindSubject(c) PROVE LimitOK'
  <2>1. PICK q : Goto(c, q) /\ q.pc # "insert"
    BY <1>15, <1>29 DEF BindSubject
  <2>2. sessions' = sessions
    BY <1>29 DEF BindSubject
  <2> QED BY <1>6, <2>1, <2>2
<1>16. ASSUME NEW c \in Requests, CreateInMemory(c) PROVE LimitOK'
  BY <1>2, <1>16 DEF CreateInMemory
<1>17. ASSUME NEW c \in Requests, RetireSurplus(c) PROVE LimitOK'
  BY <1>1, <1>3, <1>17, LimitBegun
<1>18. ASSUME NEW c \in Requests, InsertSession(c) PROVE LimitOK'
  <2>1. At(c, "insert")
    BY <1>18 DEF InsertSession, At
  <2> QED BY <1>1, <1>3, <1>18, <2>1, LimitCommitted
<1>19. ASSUME NEW i \in DOMAIN sessions, NEW s, sessions' = [sessions EXCEPT ![i] = s],
              s = [sessions[i] EXCEPT !.state = "revoked"] \/ s = [sessions[i] EXCEPT !.expired = TRUE]
                \/ s = [sessions[i] EXCEPT !.state = "void"],
              \A d \in Requests : request'[d].pc # "insert" \/ (request'[d] = request[d] /\ request[d].session # i)
                \/ (request'[d] = request[d] /\ s.state = sessions[i].state)
       PROVE  LimitOK'
  <2>1. /\ DOMAIN sessions' = DOMAIN sessions
        /\ \A j \in DOMAIN sessions : sessions'[j] = IF j = i THEN s ELSE sessions[j]
    BY <1>19, SessionSets
  <2>2. sessions[i] \in SessionRecord
    BY <1>1, LenProperties DEF SessionsOK
  <2>3. /\ s.user = sessions[i].user /\ s.overlaps = sessions[i].overlaps
        /\ s.state = sessions[i].state \/ s.state \in {"revoked", "void"}
        /\ s.expired = sessions[i].expired \/ s.expired
    BY <1>19, <2>2 DEF SessionRecord
  <2>4. \A j \in DOMAIN sessions : /\ sessions'[j].user = sessions[j].user
                                   /\ sessions'[j].overlaps = sessions[j].overlaps
                                   /\ Usable(j)' => Usable(j)
                                   /\ sessions'[j].state = "active" => sessions[j].state = "active"
                                   /\ sessions'[j].state = "creating" => sessions[j].state = "creating"
    BY <2>1, <2>3 DEF Usable
  <2>5. ASSUME NEW d \in Requests
        PROVE  \/ request'[d].pc # "insert"
               \/ /\ request'[d] = request[d]
                  /\ sessions'[request[d].session].state = sessions[request[d].session].state
    <3>1. request'[d].pc = "insert" /\ request'[d] = request[d] => request[d].session \in DOMAIN sessions
      BY <1>1 DEF HoldersOK, At
    <3> QED BY <1>19, <2>1, <3>1
  <2> QED BY <1>1, <1>3, <2>1, <2>4, <2>5, LimitMarked
<1>20. ASSUME NEW i \in DOMAIN sessions, Logout(i) PROVE LimitOK'
  <2>1. PICK s : s = [sessions[i] EXCEPT !.state = "revoked"]
    OBVIOUS
  <2>2. sessions' = [sessions EXCEPT ![i] = s] /\ request' = request /\ sessions[i].state = "active"
    BY <1>20, <2>1 DEF Logout, Usable
  <2>3. \A d \in Requests : request[d].pc = "insert" => request[d].session # i
    BY <1>3, <2>2 DEF LimitOK, At
  <2> QED BY <1>19, <2>1, <2>2, <2>3
<1>21. ASSUME NEW i \in DOMAIN sessions, ExpireSession(i) PROVE LimitOK'
  <2>1. PICK s : s = [sessions[i] EXCEPT !.expired = TRUE]
    OBVIOUS
  <2>2. sessions' = [sessions EXCEPT ![i] = s] /\ request' = request /\ sessions[i].state = "active"
    BY <1>21, <2>1 DEF ExpireSession, Usable
  <2>3. \A d \in Requests : request[d].pc = "insert" => request[d].session # i
    BY <1>3, <2>2 DEF LimitOK, At
  <2> QED BY <1>19, <2>1, <2>2, <2>3
<1>22. ASSUME NEW c \in Requests, Abort(c) PROVE LimitOK'
  <2>1. Goto(c, Idle) /\ Idle.pc # "insert"
    BY <1>22 DEF Abort, Idle
  <2>2. CASE request[c].pc = "insert"
    <3>1. PICK i \in DOMAIN sessions : i = request[c].session
      BY <1>1, <2>2 DEF HoldersOK, At
    <3>2. PICK s : s = [sessions[i] EXCEPT !.state = "void"]
      OBVIOUS
    <3>3. sessions' = [sessions EXCEPT ![i] = s]
      BY <1>22, <2>2, <3>1, <3>2 DEF Abort
    <3>4. \A d \in Requests : request'[d].pc # "insert" \/ (request'[d] = request[d] /\ request[d].session # i)
      BY <1>3, <1>4, <2>1, <2>2, <3>1 DEF LimitOK, At
    <3>5. \A d \in Requests : request'[d].pc # "insert" \/ (request'[d] = request[d] /\ request[d].session # i)
             \/ (request'[d] = request[d] /\ s.state = sessions[i].state)
      BY <3>4, Zenon
    <3>6. \/ s = [sessions[i] EXCEPT !.state = "revoked"] \/ s = [sessions[i] EXCEPT !.expired = TRUE]
          \/ s = [sessions[i] EXCEPT !.state = "void"]
      BY <3>2
    <3> QED BY <1>19, <3>3, <3>5, <3>6
  <2>3. CASE request[c].pc # "insert"
    BY <1>6, <1>22, <2>1, <2>3 DEF Abort
  <2> QED BY <2>2, <2>3
<1>23. CASE UNCHANGED vars
  BY <1>5, <1>23 DEF vars, logins
<1> QED BY <1>7, <1>8, <1>9, <1>10, <1>11, <1>12, <1>13, <1>14, <1>16, <1>17, <1>18, <1>20,
           <1>21, <1>22, <1>23, <1>26, <1>27, <1>28, <1>29 DEF Next

\* "A maximum of five active sessions per user": in Postgres, whatever logins
\* overlap, are refused, fail or expire, the limit is exceeded by no more than
\* the logins that overlapped another one of the user.
THEOREM SessionLimits == Spec => []SessionLimitUpToOverlaps
<1>1. Init => LimitInv
  <2> SUFFICES ASSUME Init PROVE LimitOK
    BY DEF LimitInv
  <2>1. DOMAIN sessions = {} /\ \A c \in Requests : request[c] = Idle
    BY EmptySeq DEF Init
  <2> QED BY <2>1 DEF LimitOK, At, Idle
<1>2. IInv /\ LimitInv /\ [Next]_vars => LimitInv'
  BY LimitStep DEF LimitInv
<1>3. IInv /\ LimitInv => SessionLimitUpToOverlaps
  <2> SUFFICES ASSUME IInv, LimitInv, dataStore = "postgres", NEW u \in People
               PROVE  LET usable == {i \in DOMAIN sessions : sessions[i].user = u /\ Usable(i)} IN
                      Cardinality(usable) <= SessionLimit + Cardinality({i \in usable : sessions[i].overlaps})
    BY DEF SessionLimitUpToOverlaps
  <2> DEFINE U == {i \in DOMAIN sessions : sessions[i].user = u /\ Usable(i)}
             O == {i \in U : sessions[i].overlaps}
             N == {i \in U : ~sessions[i].overlaps}
  <2>1. SessionsOK /\ LimitOK
    BY DEF IInv, LimitInv
  <2>2. SessionLimit \in Nat \ {0}
    BY IdentityBoundsAssumption
  <2>3. /\ IsFiniteSet(O) /\ IsFiniteSet(N) /\ Cardinality(O) \in Nat /\ Cardinality(N) \in Nat
        /\ Cardinality(N \cap O) \in Nat
    <3>1. O \in SUBSET DOMAIN sessions /\ N \in SUBSET DOMAIN sessions /\ N \cap O \in SUBSET DOMAIN sessions
      OBVIOUS
    <3> HIDE DEF O, N
    <3> QED BY <2>1, <3>1, SessionSets
  <2>4. Cardinality(N) <= SessionLimit
    <3>1. CASE N = {}
      <4>1. Cardinality(N) = 0
        BY <3>1, FS_EmptySet
      <4> QED BY <2>2, <4>1
    <3>2. CASE N # {}
      <4>1. PICK m \in N : \A i \in N : i <= m
        <5>1. DOMAIN sessions = 1 .. Len(sessions) /\ Len(sessions) \in Nat
          BY <2>1, SessionSets
        <5>2. N \in SUBSET (1 .. Len(sessions))
          BY <5>1
        <5> HIDE DEF N
        <5>3. \E k \in {j \in Nat : \A i \in N : i <= j} : \A l \in {j \in Nat : \A i \in N : i <= j} : k <= l
          <6>1. Len(sessions) \in {j \in Nat : \A i \in N : i <= j}
            BY <5>1, <5>2
          <6> QED BY <6>1, LeastNatural
        <5>4. PICK k \in Nat : (\A i \in N : i <= k) /\ \A l \in Nat : (\A i \in N : i <= l) => k <= l
          BY <5>3
        <5>5. k \in N
          <6> SUFFICES ASSUME k \notin N PROVE FALSE
            OBVIOUS
          <6>1. \A i \in N : i <= k - 1
            BY <5>2, <5>4
          <6>2. PICK i \in N : i \in 1 .. Len(sessions) /\ i <= k - 1
            BY <3>2, <5>2, <6>1
          <6>3. k - 1 \in Nat
            BY <5>1, <6>2
          <6>4. k <= k - 1
            BY <5>4, <6>1, <6>3
          <6> QED BY <6>4
        <5> QED BY <5>4, <5>5
      <4>2. /\ m \in DOMAIN sessions /\ sessions[m].user = u /\ sessions[m].state = "active"
            /\ ~sessions[m].overlaps
        BY DEF Usable
      <4>3. Cardinality(Older(m)) < SessionLimit
        BY <2>1, <4>2 DEF LimitOK
      <4>4. N \ {m} \in SUBSET Older(m) /\ Older(m) \in SUBSET DOMAIN sessions
        <5>1. DOMAIN sessions \subseteq Nat
          BY <2>1, SessionSets
        <5> QED BY <4>1, <4>2, <5>1 DEF Older
      <4> HIDE DEF N
      <4>5. Cardinality(N \ {m}) <= Cardinality(Older(m)) /\ Cardinality(Older(m)) \in Nat
        BY <2>1, <4>4, SessionSets
      <4>6. Cardinality(N \ {m}) = Cardinality(N) - 1
        BY <2>3, <4>1, FS_RemoveElement
      <4> QED BY <2>2, <2>3, <4>3, <4>5, <4>6
    <3> QED BY <3>1, <3>2
  <2>5. U = N \cup O
    OBVIOUS
  <2>6. Cardinality(U) = Cardinality(N) + Cardinality(O) - Cardinality(N \cap O)
    <3> HIDE DEF U, N, O
    <3> QED BY <2>3, <2>5, FS_Union
  <2>7. Cardinality(U) <= SessionLimit + Cardinality(O)
    <3> HIDE DEF U, N, O
    <3> QED BY <2>2, <2>3, <2>4, <2>6
  <2> QED BY <2>7
<1> QED BY <1>1, <1>2, <1>3, Inductive, PTL DEF Spec
-----------------------------------------------------------------------------
(* What the console shows, and to whom.                                    *)

\* The routes that every member of an organization may read.
OpenRoutes ==
  {"authSession", "systemStatus", "labScenarios", "labSimulation", "posture", "dataQuality",
   "mlGovernance", "complianceReadiness", "boundaries", "assets", "dependencies", "events",
   "integrations", "integrationDeliveries", "indicators", "taxiiSources", "models", "findings",
   "vulnerabilities", "services", "analyses", "responsePolicies", "responses", "incidents"}

\* Each of them admits every member.
LEMMA OpenRoutesAdmit ==
  ASSUME NEW role \in Members, NEW route \in OpenRoutes
  PROVE  hasRole(role, route)
<1>1. Members \subseteq Roles
  BY DEF Members
<1>2. CASE route \in {"authSession", "systemStatus"}
  BY <1>1, <1>2 DEF hasRole, Allowed, SystemRoutes
<1>3. CASE route \in {"labScenarios", "labSimulation"}
  BY <1>3 DEF hasRole, Allowed, LabRoutes
<1>4. CASE route \in {"posture", "dataQuality", "mlGovernance", "complianceReadiness"}
  BY <1>1, <1>4 DEF hasRole, Allowed, ReportRoutes
<1>5. CASE route = "boundaries"
  BY <1>1, <1>5 DEF hasRole, Allowed, PlatformRoutes
<1>6. CASE route = "assets"
  BY <1>6 DEF hasRole, Allowed, AssetRoutes
<1>7. CASE route \in {"dependencies", "events"}
  BY <1>7 DEF hasRole, Allowed, InventoryRoutes
<1>8. CASE route \in {"integrations", "integrationDeliveries", "indicators", "taxiiSources"}
  BY <1>8 DEF hasRole, Allowed, IntegrationRoutes
<1>9. CASE route \in {"models", "findings"}
  BY <1>9 DEF hasRole, Allowed, DetectionRoutes
<1>10. CASE route \in {"vulnerabilities", "services", "analyses"}
  BY <1>10 DEF hasRole, Allowed, RiskRoutes
<1>11. CASE route \in {"responsePolicies", "responses"}
  BY <1>11 DEF hasRole, Allowed, ResponseRoutes
<1>12. CASE route = "incidents"
  BY <1>12 DEF hasRole, Allowed, IncidentRoutes, incidentReaders
<1> QED BY <1>2, <1>3, <1>4, <1>5, <1>6, <1>7, <1>8, <1>9, <1>10, <1>11, <1>12 DEF OpenRoutes

\* The pages that read more than that, and what.
RestrictedReads ==
  [assurance |-> {"governanceAssurance", "executiveReport"}, executiveBrief |-> {"executiveReport"},
   decisions |-> {"decisionProof"}, deployment |-> {"deploymentReadiness"}, identity |-> {"identityUsers"}]

\* No page reads any other route, the audit trail aside.
LEMMA PagesRead ==
  ASSUME NEW page, NEW route \in Reads(page) \ {"auditEvents", "auditAnchors"}, route \notin OpenRoutes
  PROVE  page \in DOMAIN RestrictedReads /\ route \in RestrictedReads[page]
<1>1. PICK pages \in Pages : page \in DOMAIN pages /\ route \in pages[page]
  BY DEF Reads
<1>2. CASE pages = ConsolePages
  BY <1>1, <1>2 DEF ConsolePages, OpenRoutes
<1>3. CASE pages = LabSimulationPage
  BY <1>1, <1>3 DEF LabSimulationPage, OpenRoutes
<1>4. CASE pages = OtherPages
  BY <1>1, <1>4 DEF OtherPages, OpenRoutes, RestrictedReads
<1> QED BY <1>1, <1>2, <1>3, <1>4 DEF Pages

\* Only roles that may read what these pages read are shown them.
LEMMA RestrictedPagesShown ==
  ASSUME NEW role \in Members, NEW page \in visibleNavigation(role) \cap DOMAIN RestrictedReads
  PROVE  /\ page \in {"assurance", "executiveBrief"} => role \in {"organization_admin", "auditor"}
         /\ page = "decisions" => role # "security_analyst"
         /\ page \in {"deployment", "identity"} => role = "organization_admin"
<1>1. PICK p \in DOMAIN navigation :
        page \in navigation[p] /\ ("all" \in permissionsByRole[role] \/ p \in permissionsByRole[role])
  BY DEF visibleNavigation
<1>2. CASE role = "organization_admin"
  BY <1>2
<1>3. CASE role = "incident_commander"
  BY <1>1, <1>3 DEF navigation, permissionsByRole, RestrictedReads
<1>4. CASE role = "security_analyst"
  BY <1>1, <1>4 DEF navigation, permissionsByRole, RestrictedReads
<1>5. CASE role = "ot_engineer"
  BY <1>1, <1>5 DEF navigation, permissionsByRole, RestrictedReads
<1>6. CASE role = "auditor"
  BY <1>1, <1>6 DEF navigation, permissionsByRole, RestrictedReads
<1>7. CASE role = "viewer"
  BY <1>1, <1>7 DEF navigation, permissionsByRole, RestrictedReads
<1> QED BY <1>2, <1>3, <1>4, <1>5, <1>6, <1>7 DEF Members, Roles

\* Hence every page loads for the roles it is shown to.
LEMMA PagesLoad == VisiblePagesLoad
<1> SUFFICES ASSUME NEW role \in Members, NEW page \in visibleNavigation(role),
                    NEW route \in Reads(page) \ {"auditEvents", "auditAnchors"}, route \notin OpenRoutes
             PROVE  hasRole(role, route)
  BY OpenRoutesAdmit DEF VisiblePagesLoad
<1>1. page \in DOMAIN RestrictedReads /\ route \in RestrictedReads[page]
  BY PagesRead
<1>2. CASE page \in {"assurance", "executiveBrief"}
  <2>1. role \in Assessors
    BY <1>1, <1>2, RestrictedPagesShown DEF Assessors, Admins
  <2>2. CASE route = "governanceAssurance"
    BY <2>1, <2>2 DEF hasRole, Allowed, EvidenceRoutes
  <2>3. CASE route = "executiveReport"
    BY <2>1, <2>3 DEF hasRole, Allowed, ReportRoutes
  <2> QED BY <1>1, <1>2, <2>2, <2>3 DEF RestrictedReads
<1>3. CASE page = "decisions"
  BY <1>1, <1>3, RestrictedPagesShown DEF RestrictedReads, hasRole, Allowed, PlatformRoutes, Members
<1>4. CASE page = "deployment"
  BY <1>1, <1>4, RestrictedPagesShown DEF RestrictedReads, hasRole, Allowed, ContextRoutes, Admins
<1>5. CASE page = "identity"
  BY <1>1, <1>5, RestrictedPagesShown DEF RestrictedReads, hasRole, Allowed, SystemRoutes, Assessors, Admins
<1> QED BY <1>1, <1>2, <1>3, <1>4, <1>5 DEF RestrictedReads

\* What a viewer or an auditor may call, the run that anchors aside.
Inspected ==
  {"authSession", "logout", "identityUsers", "systemStatus", "labScenarios", "labSimulation", "labHeartbeat",
   "governanceAssurance", "auditEvents", "auditAnchors", "verifyAuditAnchor", "auditEventProof",
   "posture", "dataQuality", "mlGovernance", "complianceReadiness", "assessorBundle", "executiveReport",
   "accessContext", "decisionProof", "organization", "boundaries", "feed", "assets", "dependencies",
   "events", "integrations", "integrationDeliveries", "indicators", "taxiiSources", "taxiiJobs",
   "models", "findings", "vulnerabilities", "services", "analyses", "responsePolicies", "responses",
   "response", "incidents", "incident", "timeline"}

\* A viewer or an auditor may call nothing else.
LEMMA ReadOnlyRolesCall ==
  ASSUME NEW role \in {"viewer", "auditor"}, NEW route, hasRole(role, route)
  PROVE  route \in Inspected \/ (role = "auditor" /\ route = "runAuditAnchor")
<1>1. PICK routes \in Allowed : route \in DOMAIN routes /\ role \in routes[route]
  BY DEF hasRole
<1> USE DEF Inspected, Assessors, ProofReaders, Planners, Approvers, Inventory, Analysts, Commanders, Admins,
            incidentOperators
<1>2. CASE routes = SystemRoutes
  BY <1>1, <1>2 DEF SystemRoutes
<1>3. CASE routes = LabRoutes
  BY <1>1, <1>3 DEF LabRoutes
<1>4. CASE routes = EvidenceRoutes
  BY <1>1, <1>4 DEF EvidenceRoutes
<1>5. CASE routes = ReportRoutes
  BY <1>1, <1>5 DEF ReportRoutes
<1>6. CASE routes = ContextRoutes
  BY <1>1, <1>6 DEF ContextRoutes
<1>7. CASE routes = PlatformRoutes
  BY <1>1, <1>7 DEF PlatformRoutes
<1>8. CASE routes = AssetRoutes
  BY <1>1, <1>8 DEF AssetRoutes
<1>9. CASE routes = InventoryRoutes
  BY <1>1, <1>9 DEF InventoryRoutes
<1>10. CASE routes = IntegrationRoutes
  BY <1>1, <1>10 DEF IntegrationRoutes
<1>11. CASE routes = DetectionRoutes
  BY <1>1, <1>11 DEF DetectionRoutes
<1>12. CASE routes = RiskRoutes
  BY <1>1, <1>12 DEF RiskRoutes
<1>13. CASE routes = ResponseRoutes
  BY <1>1, <1>13 DEF ResponseRoutes
<1>14. CASE routes = IncidentRoutes
  BY <1>1, <1>14 DEF IncidentRoutes
<1> QED BY <1>1, <1>2, <1>3, <1>4, <1>5, <1>6, <1>7, <1>8, <1>9, <1>10, <1>11, <1>12, <1>13, <1>14
           DEF Allowed
\* What of that pages read; the rest are the routes the property names.
OnPages ==
  {"authSession", "identityUsers", "systemStatus", "labScenarios", "labSimulation", "governanceAssurance",
   "auditEvents", "auditAnchors", "posture", "dataQuality", "mlGovernance", "complianceReadiness",
   "executiveReport", "decisionProof", "boundaries", "assets", "dependencies", "events", "integrations",
   "integrationDeliveries", "indicators", "taxiiSources", "models", "findings", "vulnerabilities",
   "services", "analyses", "responsePolicies", "responses", "incidents"}

\* Some page reads each of these.
LEMMA PagesReadThese ==
  OnPages \subseteq UNION {Reads(page) : page \in UNION {DOMAIN pages : pages \in Pages}}
<1> SUFFICES ASSUME NEW route \in OnPages
             PROVE  \E pages \in Pages : \E page \in DOMAIN pages : route \in pages[page]
  BY DEF Reads
<1>1. CASE route \in {"assets", "events", "findings", "incidents", "boundaries"}
  <2>1. "overview" \in DOMAIN ConsolePages /\ route \in ConsolePages["overview"]
    BY <1>1 DEF ConsolePages
  <2> QED BY <2>1 DEF Pages
<1>2. CASE route \in {"dependencies", "vulnerabilities", "services"}
  <2>1. "assets" \in DOMAIN ConsolePages /\ route \in ConsolePages["assets"]
    BY <1>2 DEF ConsolePages
  <2> QED BY <2>1 DEF Pages
<1>3. CASE route \in {"models", "analyses", "responses"}
  <2>1. \E page \in {"detection", "risk", "responses"} : page \in DOMAIN ConsolePages /\ route \in ConsolePages[page]
    BY <1>3 DEF ConsolePages
  <2> QED BY <2>1 DEF Pages
<1>4. CASE route \in {"integrations", "taxiiSources", "indicators"}
  <2>1. "integrations" \in DOMAIN ConsolePages /\ route \in ConsolePages["integrations"]
    BY <1>4 DEF ConsolePages
  <2> QED BY <2>1 DEF Pages
<1>5. CASE route \in {"labScenarios", "labSimulation", "auditEvents"}
  <2>1. "lab" \in DOMAIN LabSimulationPage /\ route \in LabSimulationPage["lab"]
    BY <1>5 DEF LabSimulationPage
  <2> QED BY <2>1 DEF Pages
<1>6. CASE route \in {"governanceAssurance", "posture", "executiveReport", "complianceReadiness"}
  <2>1. \E page \in {"assurance", "compliance"} : page \in DOMAIN OtherPages /\ route \in OtherPages[page]
    BY <1>6 DEF OtherPages
  <2> QED BY <2>1 DEF Pages
<1>7. CASE route \in {"authSession", "decisionProof", "auditAnchors", "identityUsers"}
  <2>1. \E page \in {"decisions", "evidence", "identity"} : page \in DOMAIN OtherPages /\ route \in OtherPages[page]
    BY <1>7 DEF OtherPages
  <2> QED BY <2>1 DEF Pages
<1>8. CASE route \in {"systemStatus", "dataQuality", "mlGovernance", "integrationDeliveries", "responsePolicies"}
  <2>1. \E page \in {"system", "dataQuality", "mlGovernance", "connectors", "resilience"} :
          page \in DOMAIN OtherPages /\ route \in OtherPages[page]
    BY <1>8 DEF OtherPages
  <2> QED BY <2>1 DEF Pages
<1> QED BY <1>1, <1>2, <1>3, <1>4, <1>5, <1>6, <1>7, <1>8 DEF OnPages

\* Hence the roles that are there to read change nothing.
LEMMA RolesInspect == ReadOnlyRolesInspect
<1> DEFINE shown == UNION {Reads(page) : page \in UNION {DOMAIN pages : pages \in Pages}}
           reading == {"logout", "labHeartbeat", "verifyAuditAnchor", "auditEventProof", "accessContext",
                       "assessorBundle", "organization", "feed", "taxiiJobs", "response", "incident",
                       "timeline"}
<1>1. Inspected \subseteq OnPages \cup reading
  BY DEF Inspected, OnPages
<1>2. Inspected \subseteq shown \cup reading
  <2> HIDE DEF reading
  <2> QED BY <1>1, PagesReadThese
<1>3. ASSUME NEW route, route \notin shown \cup reading
      PROVE  ~hasRole("viewer", route) /\ (hasRole("auditor", route) => route = "runAuditAnchor")
  <2> HIDE DEF shown, reading
  <2> QED BY <1>2, <1>3, ReadOnlyRolesCall
<1> QED BY <1>3 DEF ReadOnlyRolesInspect

\* Whoever is signed in: every page the console shows to a role of an
\* organization may read what it shows, with the exception the property states,
\* and viewers and auditors change nothing but by anchoring (requireRoles).
THEOREM RolesFit == Spec => []RolesFitPages
<1>1. RolesFitPages
  BY PagesLoad, RolesInspect DEF RolesFitPages
<1> QED BY <1>1, PTL
=============================================================================

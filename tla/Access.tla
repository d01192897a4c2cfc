--------------------------------- MODULE Access ---------------------------------
(***************************************************************************)
(* Who may do what: services, their platform users, sessions and API keys    *)
(* (auth_service.cpp, session_store.cpp, and RequireSession and HasRole of    *)
(* http_utils.cpp with the role each handler asks for).                      *)
(*                                                                         *)
(* Services, users and keys are in PostgreSQL.  Sessions are in the memory    *)
(* of the process: they have no end but its restart.  A token or a plain key  *)
(* is a random number that is never drawn twice, so that a session stands     *)
(* for its token, and the id of a key for the key.  Whoever is answered with  *)
(* one may use it, or lose it and never do.                                  *)
(*                                                                         *)
(* What no other call can see between two statements is one step: the         *)
(* transaction of RegisterService, whose rows belong to a service nobody      *)
(* knows yet, and a session check with the statement after it, since sessions *)
(* only come.                                                               *)
(***************************************************************************)
EXTENDS Naturals, Sequences, FiniteSets

CONSTANTS
    Calls,            \* requests that can be under way
    Emails,
    Passwords,
    RoleCodes,        \* what role_code can hold
    MaxServices,      \* bound on registered services
    MaxKeys           \* bound on API keys

\* The rows of EnsureDefaultRoles, which are there from the first start on.
PlatformRoles == {"ADMIN", "ANALYST", "DEVELOPER"}

ASSUME AccountBoundAssumption == MaxServices \in Nat /\ MaxKeys \in Nat

VARIABLES
    services,   \* how many services there are: their ids are 1, 2, ...
    users,      \* abtest.PlatformUser with abtest.PlatformUserRole
    keys,       \* abtest.ApiKey, by id
    sessions,   \* sessions_
    call        \* per request, what it knows after its last statement

accounts == <<services, users, keys>>
accessVars == <<services, users, keys, sessions, call>>

(* Operators named Bug... are deviations a change to the code could bring in;    *)
(* nothing uses them but the mutation runs listed in the project file.          *)

NoService == 0

Services == 1 .. services

User == [service : Nat \ {0}, email : Emails, password : Passwords, roles : SUBSET PlatformRoles]

ApiKey == [service : Nat \ {0}, status : {"ACTIVE", "REVOKED"}]

SessionData == [service : Nat \ {0}, email : Emails, roles : SUBSET PlatformRoles]

\* A user that is being logged in, one that is inserted and not committed, a
\* runtime request whose key is not checked yet, and one whose key was found:
\* revoked are the keys that were revoked when the request came.
Answering == [op : {"answering"}, service : Nat \ {0}, email : Emails]
Inserted == [op : {"inserted"}, service : Nat \ {0}, email : Emails,
             password : Passwords, role : RoleCodes]
Received == [op : {"received"}, key : Nat, revoked : SUBSET Nat]
Serving == [op : {"serving"}, key : Nat, revoked : SUBSET Nat, service : Nat \ {0}]

AccessInit ==
    /\ services = 0
    /\ users = {}
    /\ keys = <<>>
    /\ sessions = {}
    /\ call = [c \in Calls |-> {}]

CallContinues(c, a) == call' = [call EXCEPT ![c] = {a}]

CallEnds(c) == call' = [call EXCEPT ![c] = {}]

HasRole(s, role) == role \in s.roles

Admins == {s \in sessions : HasRole(s, "ADMIN")}

------------------------------------------------------------------------------
(* Registration and login                                                  *)

BugRegisterRoleLater(c, email, password) ==
    /\ call[c] = {}
    /\ services < MaxServices
    /\ services' = services + 1
    /\ users' = users \cup {[service |-> services + 1, email |-> email,
                             password |-> password, roles |-> {}]}
    /\ CallContinues(c, [op |-> "answering", service |-> services + 1, email |-> email])
    /\ UNCHANGED <<keys, sessions>>

BugRegisterAnswersFirst(c, email, password) ==
    /\ call[c] = {}
    /\ services < MaxServices
    /\ services' = services + 1
    /\ sessions' = sessions \cup {[service |-> services + 1, email |-> email,
                                   roles |-> {"ADMIN"}]}
    /\ UNCHANGED <<users, keys, call>>

\* The service, its first admin and the role of the admin are committed
\* together; the answer is still to be made.
RegisterService(c, email, password) ==
    /\ call[c] = {}
    /\ services < MaxServices
    /\ services' = services + 1
    /\ users' = users \cup {[service |-> services + 1, email |-> email,
                             password |-> password, roles |-> {"ADMIN"}]}
    /\ CallContinues(c, [op |-> "answering", service |-> services + 1, email |-> email])
    /\ UNCHANGED <<keys, sessions>>

\* The users a login can mean; the service need not be given.
MatchedCandidates(email, password, service) ==
    {u \in users : /\ u.email = email
                   /\ u.password = password
                   /\ service \in {NoService, u.service}}

\* A login of nobody is refused, and one that several services match is asked
\* to choose: neither leaves anything behind.
Login(c, email, password, service) ==
    /\ call[c] = {}
    /\ \E u \in MatchedCandidates(email, password, service) :
         /\ service = NoService => MatchedCandidates(email, password, service) = {u}
         /\ CallContinues(c, [op |-> "answering", service |-> u.service, email |-> u.email])
    /\ UNCHANGED <<accounts, sessions>>

CreateSessionToken(u) ==
    sessions' = sessions \cup {[service |-> u.service, email |-> u.email, roles |-> u.roles]}

\* The user is read again, and the session created.
CreateAuthResponse(c) ==
    \E a \in call[c] : \E u \in users :
        /\ a.op = "answering"
        /\ u.service = a.service
        /\ u.email = a.email
        /\ CreateSessionToken(u)
        /\ CallEnds(c)
        /\ UNCHANGED accounts

------------------------------------------------------------------------------
(* Users and keys of a service                                             *)

InsertedByOther(c, service, email) ==
    \E d \in Calls \ {c} : \E a \in call[d] :
        a.op = "inserted" /\ a.service = service /\ a.email = email

BugInsertUnconstrained(c, s, email, password, role) ==
    /\ call[c] = {}
    /\ HasRole(s, "ADMIN")
    /\ \A u \in users : <<u.service, u.email>> # <<s.service, email>>
    /\ CallContinues(c, [op |-> "inserted", service |-> s.service, email |-> email,
                         password |-> password, role |-> role])
    /\ UNCHANGED <<accounts, sessions>>

\* POST /platform-users: the INSERT waits for another of the same email and
\* service, and fails if there is one.
CreatePlatformUser(c, s, email, password, role) ==
    /\ call[c] = {}
    /\ HasRole(s, "ADMIN")
    /\ \A u \in users : <<u.service, u.email>> # <<s.service, email>>
    /\ ~ InsertedByOther(c, s.service, email)
    /\ CallContinues(c, [op |-> "inserted", service |-> s.service, email |-> email,
                         password |-> password, role |-> role])
    /\ UNCHANGED <<accounts, sessions>>

BugCommitAnyRole(c) ==
    \E a \in call[c] :
        /\ a.op = "inserted"
        /\ users' = users \cup {[service |-> a.service, email |-> a.email,
                                 password |-> a.password, roles |-> {a.role}]}
        /\ CallEnds(c)
        /\ UNCHANGED <<services, keys, sessions>>

\* The role is inserted by its code, and the transaction committed.
CommitUser(c) ==
    \E a \in call[c] :
        /\ a.op = "inserted"
        /\ a.role \in PlatformRoles
        /\ users' = users \cup {[service |-> a.service, email |-> a.email,
                                 password |-> a.password, roles |-> {a.role}]}
        /\ CallEnds(c)
        /\ UNCHANGED <<services, keys, sessions>>

\* "Unknown role_code"
RollbackUser(c) ==
    /\ \E a \in call[c] : a.op = "inserted" /\ a.role \notin PlatformRoles
    /\ CallEnds(c)
    /\ UNCHANGED <<accounts, sessions>>

\* POST and DELETE /api-keys, a statement each.
CreateApiKey(s) ==
    /\ HasRole(s, "ADMIN")
    /\ Len(keys) < MaxKeys
    /\ keys' = Append(keys, [service |-> s.service, status |-> "ACTIVE"])
    /\ UNCHANGED <<services, users, sessions, call>>

BugRevokeById(s, id) ==
    /\ HasRole(s, "ADMIN")
    /\ keys[id].status # "REVOKED"
    /\ keys' = [keys EXCEPT ![id].status = "REVOKED"]
    /\ UNCHANGED <<services, users, sessions, call>>

RevokeApiKey(s, id) ==
    /\ HasRole(s, "ADMIN")
    /\ keys[id].service = s.service
    /\ keys[id].status # "REVOKED"
    /\ keys' = [keys EXCEPT ![id].status = "REVOKED"]
    /\ UNCHANGED <<services, users, sessions, call>>

------------------------------------------------------------------------------
(* Runtime requests                                                        *)

Revoked == {id \in DOMAIN keys : keys[id].status = "REVOKED"}

\* POST /runtime/flags or /runtime/events with a key.
ReceiveCall(c, id) ==
    /\ call[c] = {}
    /\ CallContinues(c, [op |-> "received", key |-> id, revoked |-> Revoked])
    /\ UNCHANGED <<accounts, sessions>>

BugAuthenticateByHash(c) ==
    \E a \in call[c] :
        /\ a.op = "received"
        /\ CallContinues(c, [op |-> "serving", key |-> a.key, revoked |-> a.revoked,
                             service |-> keys[a.key].service])
        /\ UNCHANGED <<accounts, sessions>>

\* The key is looked up once, before all else; a revoked one is refused.
AuthenticateApiKey(c) ==
    \E a \in call[c] :
        /\ a.op = "received"
        /\ IF keys[a.key].status = "ACTIVE"
           THEN CallContinues(c, [op |-> "serving", key |-> a.key, revoked |-> a.revoked,
                                  service |-> keys[a.key].service])
           ELSE CallEnds(c)
        /\ UNCHANGED <<accounts, sessions>>

\* ResolveFlags or IngestEvent, for the service of the key.
ServeCall(c) ==
    /\ \E a \in call[c] : a.op = "serving"
    /\ CallEnds(c)
    /\ UNCHANGED <<accounts, sessions>>

------------------------------------------------------------------------------

\* A statement fails: what is not committed is undone, what is stays.
CallFails(c) ==
    /\ call[c] # {}
    /\ CallEnds(c)
    /\ UNCHANGED <<accounts, sessions>>

\* The process stops and starts: no session is left, and no call.
AccessRestart ==
    /\ sessions' = {}
    /\ call' = [c \in Calls |-> {}]
    /\ UNCHANGED accounts

\* What a call does by itself once it is under way.
AccessStep(c) ==
    \/ CreateAuthResponse(c)
    \/ CommitUser(c)
    \/ RollbackUser(c)
    \/ AuthenticateApiKey(c)
    \/ ServeCall(c)

AccessNext ==
    \/ \E c \in Calls, email \in Emails, password \in Passwords :
         \/ RegisterService(c, email, password)
         \/ \E service \in Services \cup {NoService} : Login(c, email, password, service)
         \/ \E s \in sessions, role \in RoleCodes : CreatePlatformUser(c, s, email, password, role)
    \/ \E s \in sessions : CreateApiKey(s) \/ \E id \in DOMAIN keys : RevokeApiKey(s, id)
    \/ \E c \in Calls : (\E id \in DOMAIN keys : ReceiveCall(c, id)) \/ AccessStep(c) \/ CallFails(c)

AccessSpec == AccessInit /\ [][AccessNext \/ AccessRestart]_accessVars

------------------------------------------------------------------------------
(* Properties                                                              *)

\* Every variable stays in its type.
AccessTypeOK ==
    /\ services \in Nat
    /\ users \in SUBSET User
    /\ keys \in Seq(ApiKey)
    /\ sessions \in SUBSET SessionData
    /\ call \in [Calls -> SUBSET (Answering \cup Inserted \cup Received \cup Serving)]

\* A login finds one account: within a service no two users have one email,
\* however many admins create users at once, and whatever registration or
\* creation was cut off before it was answered, who is committed can log in.
LoginMeetsOneAccount ==
    /\ \A u \in users :
         /\ u.service \in Services
         /\ MatchedCandidates(u.email, u.password, u.service) = {u}
    /\ \A u, v \in users : u.service = v.service /\ u.email = v.email => u = v

\* Every service has an admin from the moment it exists, on whom the scheduled
\* builds rely (they act as the first user of a service, and skip one without),
\* and no user is without a role.
AccountsComplete ==
    /\ \A n \in Services : \E u \in users : u.service = n /\ HasRole(u, "ADMIN")
    /\ \A u \in users : u.roles # {}

\* A session, which nothing ends, has the roles that its user has now, in the
\* service of the user.
SessionsOfUsers ==
    \A s \in sessions : \E u \in users :
        u.service = s.service /\ u.email = s.email /\ u.roles = s.roles

\* A runtime request that came after its key was revoked is not served, and one
\* that is served acts for the service of its key, also if the key is revoked
\* meanwhile.
RevokedIsRefused ==
    \A c \in Calls : \A a \in call[c] :
        a.op = "serving" => a.key \notin a.revoked /\ a.service = keys[a.key].service

================================================================================

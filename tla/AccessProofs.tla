----------------------------- MODULE AccessProofs -----------------------------
(***************************************************************************)
(* The invariants of Access, for any number of requests, services, users and  *)
(* keys.                                                                    *)
(***************************************************************************)
EXTENDS Access, TLAPS

\* Users are of services that there are, and a service has one of each email.
UsersInv ==
    /\ \A u \in users : u.service \in Services
    /\ \A u, v \in users : u.service = v.service /\ u.email = v.email => u = v

\* What a request knows is still so when it goes on: the user whom it answers
\* is there, the email that it has inserted is nobody else's, and the keys that
\* were revoked when it came are revoked.
CallOK(c, a) ==
    /\ a.op = "answering" => \E u \in users : u.service = a.service /\ u.email = a.email
    /\ a.op = "inserted" =>
         /\ a.service \in Services
         /\ \A u \in users : <<u.service, u.email>> # <<a.service, a.email>>
         /\ ~ InsertedByOther(c, a.service, a.email)
    /\ a.op \in {"received", "serving"} => a.key \in DOMAIN keys /\ a.revoked \subseteq Revoked
    /\ a.op = "serving" => a.key \notin a.revoked /\ a.service = keys[a.key].service

CallsInv == \A c \in Calls : \A a \in call[c] : CallOK(c, a)

AccessInv == AccessTypeOK /\ UsersInv /\ SessionsOfUsers /\ AccountsComplete /\ CallsInv

Call == Answering \cup Inserted \cup Received \cup Serving

------------------------------------------------------------------------------

\* What a request knows has the fields that its op calls for.
LEMMA CallFields ==
    ASSUME NEW a \in Call
    PROVE  /\ a.op = "answering" => a \in Answering
           /\ a.op = "inserted" => a \in Inserted
           /\ a.op = "received" => a \in Received
           /\ a.op = "serving" => a \in Serving
  BY DEF Call, Answering, Inserted, Received, Serving

LEMMA AccessInitInv == AccessInit => AccessInv
  BY DEF AccessInit, AccessInv, AccessTypeOK, UsersInv, SessionsOfUsers, AccountsComplete,
         CallsInv, Services

\* A request that has come further changes nothing for the others, but for the
\* email that it may have inserted.
LEMMA CallInv ==
    ASSUME AccessInv, NEW c \in Calls, NEW S \in SUBSET Call,
           \A a \in S : CallOK(c, a),
           call' = [call EXCEPT ![c] = S],
           UNCHANGED <<accounts, sessions>>
    PROVE  AccessInv'
<1> USE DEF accounts
<1>1. AccessTypeOK'
  BY DEF AccessInv, AccessTypeOK, Call
<1>2. UsersInv' /\ SessionsOfUsers' /\ AccountsComplete'
  BY DEF AccessInv, UsersInv, SessionsOfUsers, AccountsComplete, Services, HasRole
<1>3. CallsInv'
  <2> SUFFICES ASSUME NEW d \in Calls, NEW a \in call'[d]
               PROVE  CallOK(d, a)'
    BY DEF CallsInv
  <2>1. call \in [Calls -> SUBSET Call]
    BY DEF AccessInv, AccessTypeOK, Call
  <2>2. CallOK(d, a)
    BY <2>1 DEF AccessInv, CallsInv
  <2>3. ASSUME a.op = "inserted", InsertedByOther(d, a.service, a.email)'
        PROVE  FALSE
    <3>1. PICK e \in Calls \ {d} : \E b \in call'[e] :
            b.op = "inserted" /\ b.service = a.service /\ b.email = a.email
      BY <2>3 DEF InsertedByOther
    <3>2. PICK b \in call'[e] : b.op = "inserted" /\ b.service = a.service /\ b.email = a.email
      BY <3>1
    <3>3. CASE e # c
      <4>1. b \in call[e]
        BY <2>1, <3>3
      <4> QED
        BY <2>2, <2>3, <3>1, <3>2, <4>1 DEF CallOK, InsertedByOther
    <3>4. CASE e = c
      <4>1. b \in S /\ a \in call[d]
        BY <2>1, <3>1, <3>4
      <4>2. ~ InsertedByOther(c, b.service, b.email)
        BY <3>2, <4>1 DEF CallOK
      <4> QED
        BY <2>3, <3>1, <3>2, <3>4, <4>1, <4>2 DEF InsertedByOther
    <3> QED
      BY <3>3, <3>4
  <2> QED
    BY <2>2, <2>3 DEF CallOK, Services, Revoked
<1> QED
  BY <1>1, <1>2, <1>3 DEF AccessInv

LEMMA ContinuesInv ==
    ASSUME AccessInv, NEW c \in Calls, NEW a \in Call, CallOK(c, a), CallContinues(c, a),
           UNCHANGED <<accounts, sessions>>
    PROVE  AccessInv'
<1> DEFINE S == {a}
<1>1. S \in SUBSET Call /\ \A b \in S : CallOK(c, b)
  OBVIOUS
<1>2. call' = [call EXCEPT ![c] = S]
  BY DEF CallContinues
<1> HIDE DEF S
<1> QED
  BY <1>1, <1>2, CallInv

LEMMA EndInv ==
    ASSUME AccessInv, NEW c \in Calls, CallEnds(c), UNCHANGED <<accounts, sessions>>
    PROVE  AccessInv'
<1> DEFINE S == {}
<1>1. S \in SUBSET Call /\ \A b \in S : CallOK(c, b)
  OBVIOUS
<1>2. call' = [call EXCEPT ![c] = S]
  BY DEF CallEnds
<1> HIDE DEF S
<1> QED
  BY <1>1, <1>2, CallInv

\* A user that is added has an email that is new to its service, and that no
\* request has inserted.
LEMMA AddUserInv ==
    ASSUME AccessInv, NEW u \in User, NEW n \in Nat, n >= services,
           u.service \in 1 .. n, u.roles # {},
           n = services \/ (n = services + 1 /\ u.service = n /\ HasRole(u, "ADMIN")),
           \A v \in users : <<v.service, v.email>> # <<u.service, u.email>>,
           NEW c \in Calls, ~ InsertedByOther(c, u.service, u.email),
           NEW S \in SUBSET Answering,
           \A a \in S : a.service = u.service /\ a.email = u.email,
           services' = n, users' = users \cup {u},
           call' = [call EXCEPT ![c] = S],
           UNCHANGED <<keys, sessions>>
    PROVE  AccessInv'
<1>1. services \in Nat /\ call \in [Calls -> SUBSET Call]
  BY DEF AccessInv, AccessTypeOK, Call
<1>2. AccessTypeOK'
  BY DEF AccessInv, AccessTypeOK
<1>3. UsersInv'
  BY <1>1 DEF AccessInv, UsersInv, Services, User
<1>4. SessionsOfUsers'
  BY DEF AccessInv, SessionsOfUsers
<1>5. AccountsComplete'
  BY <1>1 DEF AccessInv, AccountsComplete, Services, HasRole
<1>6. CallsInv'
  <2> SUFFICES ASSUME NEW d \in Calls, NEW a \in call'[d]
               PROVE  CallOK(d, a)'
    BY DEF CallsInv
  <2>1. CASE d = c
    <3>1. a \in S /\ a.op = "answering"
      BY <1>1, <2>1 DEF Answering
    <3> QED
      BY <3>1 DEF CallOK
  <2>2. CASE d # c
    <3>1. a \in call[d] /\ CallOK(d, a)
      BY <1>1, <2>2 DEF AccessInv, CallsInv
    <3>2. a.op = "inserted" => <<u.service, u.email>> # <<a.service, a.email>>
      BY <2>2, <3>1 DEF InsertedByOther
    <3>3. a.op = "inserted" => ~ InsertedByOther(d, a.service, a.email)'
      <4>1. \A e \in Calls : \A b \in call'[e] : b.op = "inserted" => b \in call[e]
        BY <1>1 DEF Answering
      <4> QED
        BY <3>1, <4>1 DEF CallOK, InsertedByOther
    <3>4. a.op = "inserted" => a.service \in Services'
      BY <1>1, <3>1 DEF CallOK, Services
    <3> QED
      BY <3>1, <3>2, <3>3, <3>4 DEF CallOK, Revoked
  <2> QED
    BY <2>1, <2>2
<1> QED
  BY <1>2, <1>3, <1>4, <1>5, <1>6 DEF AccessInv

LEMMA RegisterServiceInv ==
    ASSUME AccessInv, NEW c \in Calls, NEW email \in Emails, NEW password \in Passwords,
           RegisterService(c, email, password)
    PROVE  AccessInv'
<1> DEFINE n == services + 1
           u == [service |-> n, email |-> email, password |-> password, roles |-> {"ADMIN"}]
           a == [op |-> "answering", service |-> n, email |-> email]
<1>1. services \in Nat /\ n \in Nat \ {0}
  BY DEF AccessInv, AccessTypeOK
<1>2. u \in User /\ a \in Answering /\ HasRole(u, "ADMIN")
  BY <1>1 DEF User, Answering, PlatformRoles, HasRole
<1>3. \A v \in users : v.service # n
  BY <1>1 DEF AccessInv, UsersInv, Services
<1>4. ~ InsertedByOther(c, n, email)
  BY <1>1 DEF AccessInv, CallsInv, CallOK, InsertedByOther, Services
<1>5. /\ services' = n /\ users' = users \cup {u}
      /\ call' = [call EXCEPT ![c] = {a}]
      /\ UNCHANGED <<keys, sessions>>
  BY DEF RegisterService, CallContinues
<1> DEFINE S == {a}
<1>6. /\ u.service = n /\ u.email = email /\ u.roles # {}
      /\ S \in SUBSET Answering /\ \A b \in S : b.service = u.service /\ b.email = u.email
  BY <1>2
<1>7. call' = [call EXCEPT ![c] = S] /\ n = services + 1 /\ n >= services /\ n \in 1 .. n
  BY <1>1, <1>5
<1>8. /\ \A v \in users : <<v.service, v.email>> # <<u.service, u.email>>
      /\ ~ InsertedByOther(c, u.service, u.email)
  BY <1>3, <1>4, <1>6
<1>9. /\ n \in Nat /\ u.service \in 1 .. n
      /\ n = services \/ (n = services + 1 /\ u.service = n /\ HasRole(u, "ADMIN"))
  BY <1>1, <1>2, <1>6, <1>7
<1>10. services' = n /\ users' = users \cup {u} /\ UNCHANGED <<keys, sessions>>
  BY <1>5
<1> HIDE DEF n, u, a, S
<1> QED
  BY <1>2, <1>6, <1>7, <1>8, <1>9, <1>10, AddUserInv

LEMMA LoginInv ==
    ASSUME AccessInv, NEW c \in Calls, NEW email \in Emails, NEW password, NEW service,
           Login(c, email, password, service)
    PROVE  AccessInv'
<1>1. PICK u \in MatchedCandidates(email, password, service) :
        CallContinues(c, [op |-> "answering", service |-> u.service, email |-> u.email])
  BY DEF Login
<1> DEFINE a == [op |-> "answering", service |-> u.service, email |-> u.email]
<1>2. u \in users /\ u \in User
  BY DEF MatchedCandidates, AccessInv, AccessTypeOK
<1>3. a \in Call /\ CallOK(c, a)
  <2>1. u.email = email
    BY DEF MatchedCandidates
  <2> QED
    BY <1>2, <2>1 DEF Call, Answering, User, CallOK
<1>4. CallContinues(c, a) /\ UNCHANGED <<accounts, sessions>>
  BY <1>1, <1>2 DEF Login, MatchedCandidates
<1> HIDE DEF a
<1> QED
  BY <1>3, <1>4, ContinuesInv

LEMMA CreateAuthResponseInv ==
    ASSUME AccessInv, NEW c \in Calls, CreateAuthResponse(c)
    PROVE  AccessInv'
<1>1. PICK u \in users :
        sessions' = sessions \cup {[service |-> u.service, email |-> u.email, roles |-> u.roles]}
  BY DEF CreateAuthResponse, CreateSessionToken
<1>2. /\ call' = [call EXCEPT ![c] = {}]
      /\ UNCHANGED <<services, users, keys>>
  BY DEF CreateAuthResponse, CreateSessionToken, CallEnds, accounts
<1>3. u \in User /\ call \in [Calls -> SUBSET Call]
  BY DEF AccessInv, AccessTypeOK, Call
<1>4. AccessTypeOK'
  BY <1>1, <1>2, <1>3 DEF AccessInv, AccessTypeOK, SessionData, User
<1>5. SessionsOfUsers' /\ UsersInv' /\ AccountsComplete'
  BY <1>1, <1>2 DEF AccessInv, SessionsOfUsers, UsersInv, AccountsComplete, Services, HasRole
<1>6. CallsInv'
  BY <1>2, <1>3 DEF AccessInv, CallsInv, CallOK, InsertedByOther, Services, Revoked
<1> QED
  BY <1>4, <1>5, <1>6 DEF AccessInv

LEMMA CreatePlatformUserInv ==
    ASSUME AccessInv, NEW c \in Calls, NEW s \in sessions, NEW email \in Emails,
           NEW password \in Passwords, NEW role \in RoleCodes,
           CreatePlatformUser(c, s, email, password, role)
    PROVE  AccessInv'
<1> DEFINE a == [op |-> "inserted", service |-> s.service, email |-> email,
                 password |-> password, role |-> role]
<1>1. s \in SessionData /\ s.service \in Services
  BY DEF AccessInv, AccessTypeOK, SessionsOfUsers, UsersInv
<1>2. a \in Call /\ CallOK(c, a)
  BY <1>1 DEF CreatePlatformUser, Call, Inserted, SessionData, CallOK
<1>3. CallContinues(c, a) /\ UNCHANGED <<accounts, sessions>>
  BY DEF CreatePlatformUser
<1> HIDE DEF a
<1> QED
  BY <1>2, <1>3, ContinuesInv

LEMMA CommitUserInv ==
    ASSUME AccessInv, NEW c \in Calls, CommitUser(c)
    PROVE  AccessInv'
<1>1. PICK a \in call[c] :
        /\ a.op = "inserted"
        /\ a.role \in PlatformRoles
        /\ users' = users \cup {[service |-> a.service, email |-> a.email,
                                 password |-> a.password, roles |-> {a.role}]}
        /\ call' = [call EXCEPT ![c] = {}]
        /\ UNCHANGED <<services, keys, sessions>>
  BY DEF CommitUser, CallEnds
<1> DEFINE u == [service |-> a.service, email |-> a.email,
                 password |-> a.password, roles |-> {a.role}]
<1>2. a \in Inserted /\ CallOK(c, a)
  BY <1>1, CallFields DEF AccessInv, AccessTypeOK, CallsInv, Call
<1>3. u \in User /\ u.service \in 1 .. services /\ u.roles # {}
  BY <1>1, <1>2 DEF Inserted, User, CallOK, Services
<1>4. /\ \A v \in users : <<v.service, v.email>> # <<u.service, u.email>>
      /\ ~ InsertedByOther(c, u.service, u.email)
  BY <1>1, <1>2 DEF CallOK
<1>5. services \in Nat /\ services >= services /\ {} \in SUBSET Answering
  BY DEF AccessInv, AccessTypeOK
<1>6. users' = users \cup {u}
  BY <1>1
<1> HIDE DEF u
<1> QED
  BY <1>1, <1>3, <1>4, <1>5, <1>6, AddUserInv

\* Keys are added, and revoked for good.
LEMMA KeysInv ==
    ASSUME AccessInv, keys' \in Seq(ApiKey), DOMAIN keys \subseteq DOMAIN keys',
           \A id \in DOMAIN keys : keys'[id].service = keys[id].service,
           \A id \in Revoked : id \in Revoked',
           UNCHANGED <<services, users, sessions, call>>
    PROVE  AccessInv'
<1>1. AccessTypeOK'
  BY DEF AccessInv, AccessTypeOK
<1>2. SessionsOfUsers' /\ UsersInv' /\ AccountsComplete'
  BY DEF AccessInv, SessionsOfUsers, UsersInv, AccountsComplete, Services, HasRole
<1>3. CallsInv'
  <2> SUFFICES ASSUME NEW c \in Calls, NEW a \in call[c]
               PROVE  CallOK(c, a)'
    BY DEF CallsInv
  <2>1. CallOK(c, a)
    BY DEF AccessInv, CallsInv
  <2> QED
    BY <2>1 DEF CallOK, InsertedByOther, Services
<1> QED
  BY <1>1, <1>2, <1>3 DEF AccessInv

LEMMA CreateApiKeyInv ==
    ASSUME AccessInv, NEW s \in sessions, CreateApiKey(s)
    PROVE  AccessInv'
<1> DEFINE k == [service |-> s.service, status |-> "ACTIVE"]
<1>1. s \in SessionData /\ keys \in Seq(ApiKey) /\ k \in ApiKey
  BY DEF AccessInv, AccessTypeOK, SessionData, ApiKey
<1>2. keys' = Append(keys, k) /\ UNCHANGED <<services, users, sessions, call>>
  BY DEF CreateApiKey
<1> HIDE DEF k
<1>3. /\ keys' \in Seq(ApiKey) /\ DOMAIN keys \subseteq DOMAIN keys'
      /\ \A id \in DOMAIN keys : keys'[id] = keys[id]
  BY <1>1, <1>2
<1>4. \A id \in Revoked : id \in Revoked'
  BY <1>3 DEF Revoked
<1> QED
  BY <1>2, <1>3, <1>4, KeysInv

LEMMA RevokeApiKeyInv ==
    ASSUME AccessInv, NEW s \in sessions, NEW id \in DOMAIN keys, RevokeApiKey(s, id)
    PROVE  AccessInv'
<1>1. keys \in Seq(ApiKey)
  BY DEF AccessInv, AccessTypeOK
<1>2. /\ keys' = [keys EXCEPT ![id].status = "REVOKED"]
      /\ UNCHANGED <<services, users, sessions, call>>
  BY DEF RevokeApiKey
<1> DEFINE k == [keys[id] EXCEPT !.status = "REVOKED"]
<1>3. \A i \in DOMAIN keys : keys[i] \in ApiKey
  BY <1>1
<1>4. k \in ApiKey /\ k.service = keys[id].service /\ k.status = "REVOKED"
  BY <1>3 DEF ApiKey
<1>5. keys' = [keys EXCEPT ![id] = k]
  BY <1>2
<1> HIDE DEF k
<1>6. /\ keys' \in Seq(ApiKey) /\ DOMAIN keys' = DOMAIN keys
      /\ \A i \in DOMAIN keys : keys'[i].service = keys[i].service
      /\ \A i \in DOMAIN keys : keys'[i].status \in {keys[i].status, "REVOKED"}
  BY <1>1, <1>4, <1>5
<1>7. \A i \in Revoked : i \in Revoked'
  BY <1>6 DEF Revoked
<1> QED
  BY <1>2, <1>6, <1>7, KeysInv

LEMMA ReceiveCallInv ==
    ASSUME AccessInv, NEW c \in Calls, NEW id \in DOMAIN keys, ReceiveCall(c, id)
    PROVE  AccessInv'
<1> DEFINE a == [op |-> "received", key |-> id, revoked |-> Revoked]
<1>1. keys \in Seq(ApiKey)
  BY DEF AccessInv, AccessTypeOK
<1>2. id \in Nat /\ Revoked \in SUBSET Nat
  BY <1>1 DEF Revoked
<1>3. a \in Call /\ CallOK(c, a)
  BY <1>2 DEF Call, Received, CallOK
<1>4. CallContinues(c, a) /\ UNCHANGED <<accounts, sessions>>
  BY DEF ReceiveCall
<1> HIDE DEF a
<1> QED
  BY <1>3, <1>4, ContinuesInv

LEMMA AuthenticateApiKeyInv ==
    ASSUME AccessInv, NEW c \in Calls, AuthenticateApiKey(c)
    PROVE  AccessInv'
<1>1. PICK a \in call[c] :
        /\ a.op = "received"
        /\ IF keys[a.key].status = "ACTIVE"
           THEN CallContinues(c, [op |-> "serving", key |-> a.key, revoked |-> a.revoked,
                                  service |-> keys[a.key].service])
           ELSE CallEnds(c)
  BY DEF AuthenticateApiKey
<1> DEFINE b == [op |-> "serving", key |-> a.key, revoked |-> a.revoked,
                 service |-> keys[a.key].service]
<1>2. a \in Received /\ CallOK(c, a) /\ keys \in Seq(ApiKey)
  BY <1>1, CallFields DEF AccessInv, AccessTypeOK, CallsInv, Call
<1>3. a.key \in DOMAIN keys /\ a.revoked \subseteq Revoked /\ keys[a.key] \in ApiKey
  BY <1>1, <1>2 DEF CallOK
<1>4. UNCHANGED <<accounts, sessions>>
  BY DEF AuthenticateApiKey
<1>5. CASE keys[a.key].status = "ACTIVE"
  <2>1. b \in Call
    BY <1>2, <1>3 DEF Call, Serving, Received, ApiKey
  <2>2. CallOK(c, b)
    BY <1>3, <1>5 DEF CallOK, Revoked
  <2>3. CallContinues(c, b)
    BY <1>1, <1>5
  <2> HIDE DEF b
  <2> QED
    BY <1>4, <2>1, <2>2, <2>3, ContinuesInv
<1>6. CASE keys[a.key].status # "ACTIVE"
  BY <1>1, <1>4, <1>6, EndInv
<1> QED
  BY <1>5, <1>6

LEMMA AccessRestartInv == AccessInv /\ AccessRestart => AccessInv'
  BY DEF AccessRestart, accounts, AccessInv, AccessTypeOK, UsersInv, SessionsOfUsers,
         AccountsComplete, CallsInv, Services, HasRole

LEMMA AccessUnchanged == AccessInv /\ UNCHANGED accessVars => AccessInv'
  BY DEF accessVars, AccessInv, AccessTypeOK, UsersInv, SessionsOfUsers, AccountsComplete,
         CallsInv, CallOK, InsertedByOther, Services, HasRole, Revoked

LEMMA AccessNextInv == AccessInv /\ AccessNext => AccessInv'
<1> SUFFICES ASSUME AccessInv, AccessNext PROVE AccessInv'
  OBVIOUS
<1>1. ASSUME NEW c \in Calls, NEW email \in Emails, NEW password \in Passwords,
             RegisterService(c, email, password)
      PROVE  AccessInv'
  BY <1>1, RegisterServiceInv
<1>2. ASSUME NEW c \in Calls, NEW email \in Emails, NEW password \in Passwords, NEW service,
             Login(c, email, password, service)
      PROVE  AccessInv'
  BY <1>2, LoginInv
<1>3. ASSUME NEW c \in Calls, NEW email \in Emails, NEW password \in Passwords,
             NEW s \in sessions, NEW role \in RoleCodes,
             CreatePlatformUser(c, s, email, password, role)
      PROVE  AccessInv'
  BY <1>3, CreatePlatformUserInv
<1>4. ASSUME NEW s \in sessions, CreateApiKey(s) PROVE AccessInv'
  BY <1>4, CreateApiKeyInv
<1>5. ASSUME NEW s \in sessions, NEW id \in DOMAIN keys, RevokeApiKey(s, id) PROVE AccessInv'
  BY <1>5, RevokeApiKeyInv
<1>6. ASSUME NEW c \in Calls, NEW id \in DOMAIN keys, ReceiveCall(c, id) PROVE AccessInv'
  BY <1>6, ReceiveCallInv
<1>7. ASSUME NEW c \in Calls, AccessStep(c) PROVE AccessInv'
  <2>1. CASE CreateAuthResponse(c)
    BY <2>1, CreateAuthResponseInv
  <2>2. CASE CommitUser(c)
    BY <2>2, CommitUserInv
  <2>3. CASE RollbackUser(c)
    BY <2>3, EndInv DEF RollbackUser
  <2>4. CASE AuthenticateApiKey(c)
    BY <2>4, AuthenticateApiKeyInv
  <2>5. CASE ServeCall(c)
    BY <2>5, EndInv DEF ServeCall
  <2> QED
    BY <1>7, <2>1, <2>2, <2>3, <2>4, <2>5 DEF AccessStep
<1>8. ASSUME NEW c \in Calls, CallFails(c) PROVE AccessInv'
  BY <1>8, EndInv DEF CallFails
<1> QED
  BY <1>1, <1>2, <1>3, <1>4, <1>5, <1>6, <1>7, <1>8 DEF AccessNext

LEMMA AccessInvAlways == AccessSpec => []AccessInv
<1>1. AccessInv /\ [AccessNext \/ AccessRestart]_accessVars => AccessInv'
  BY AccessNextInv, AccessRestartInv, AccessUnchanged
<1> QED
  BY AccessInitInv, <1>1, PTL DEF AccessSpec

------------------------------------------------------------------------------

\* Two users of a service never have one email, so that a login finds one.
LEMMA OneAccountMet == AccessInv => LoginMeetsOneAccount
<1> SUFFICES ASSUME AccessInv PROVE LoginMeetsOneAccount
  OBVIOUS
<1>1. \A u \in users : u \in User /\ u.service # 0
  BY DEF AccessInv, AccessTypeOK, User
<1>2. ASSUME NEW u \in users
      PROVE  MatchedCandidates(u.email, u.password, u.service) = {u}
  BY <1>1 DEF MatchedCandidates, NoService, AccessInv, UsersInv
<1> QED
  BY <1>2 DEF LoginMeetsOneAccount, AccessInv, UsersInv

LEMMA RevokedRefused == AccessInv => RevokedIsRefused
  BY DEF AccessInv, CallsInv, CallOK, RevokedIsRefused

\* By itself, Access keeps its types, finds one account for a login, leaves no
\* account half made, gives sessions the roles of their users, and refuses a key
\* that was revoked before the request came.
THEOREM AccessIsSafe ==
    AccessSpec => [](/\ AccessTypeOK /\ LoginMeetsOneAccount /\ AccountsComplete
                     /\ SessionsOfUsers /\ RevokedIsRefused)
<1>1. AccessInv => /\ AccessTypeOK /\ LoginMeetsOneAccount /\ AccountsComplete
                   /\ SessionsOfUsers /\ RevokedIsRefused
  BY OneAccountMet, RevokedRefused DEF AccessInv
<1> QED
  BY <1>1, AccessInvAlways, PTL

================================================================================

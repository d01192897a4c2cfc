------------------------------ MODULE UserRegistry ------------------------------
(***************************************************************************)
(* What the two EnsureEndUser promise together, without look-ups, locks or   *)
(* transactions: every answered call is logged under one user, which it adds *)
(* or knows, and adds its ids to, in one step.  Devices are exact.  Of an     *)
(* external id only this is promised: a user that is found by it has answered *)
(* for it before, but it need not be the only one, or have it still.          *)
(***************************************************************************)
EXTENDS Naturals

CONSTANTS Devices, Externals, Absent, Requests, Events, RequestOf

VARIABLES
    users,    \* rows of end users
    done,     \* per call that was answered, the id of its user
    input     \* per call that was made, the ids it carried

registryVars == <<users, done, input>>

Calls == Requests \cup Events

Ids ==
    {i \in [device : Devices \cup {Absent}, external : Externals \cup {Absent}] :
        i.device # Absent \/ i.external # Absent}

RegistryInit ==
    /\ users = {}
    /\ done = [c \in Calls |-> {}]
    /\ input = [c \in Calls |-> {}]

\* A call is made once, an event after the answer to its request.
Call(c, i) ==
    /\ input[c] = {}
    /\ c \in Events => done[RequestOf[c]] # {}
    /\ input' = [input EXCEPT ![c] = {i}]
    /\ UNCHANGED <<users, done>>

Answer(c, u) ==
    /\ done[c] = {}
    /\ done' = [done EXCEPT ![c] = {u.id}]
    /\ UNCHANGED input

\* A user with the ids of the call; no other has its id or its device.
AddUser(c) ==
    \E i \in input[c], u \in users' :
        /\ u.id \in Nat
        /\ u = [id |-> u.id, device |-> i.device, external |-> i.external]
        /\ \A w \in users : w.id # u.id /\ (w.device = u.device => w.device = Absent)
        /\ users' = users \cup {u}
        /\ Answer(c, u)

\* A call with the external id x was logged under user n.
AnsweredFor(n, x) == \E d \in Calls : n \in done[d] /\ \E j \in input[d] : j.external = x

\* The user of the device or, for a call without one, of an external id.  It
\* takes over an external id and keeps the rest, whatever else was written to
\* it since the call looked for it.
KnowUser(c) ==
    \E i \in input[c], u \in users :
        /\ IF i.device # Absent THEN u.device = i.device ELSE AnsweredFor(u.id, i.external)
        /\ users' = (users \ {u}) \cup
                      {[u EXCEPT !.external = IF i.external = Absent THEN @ ELSE i.external]}
        /\ Answer(c, u)

RegistryNext ==
    \/ \E c \in Calls, i \in Ids : Call(c, i)
    \/ \E c \in Calls : AddUser(c) \/ KnowUser(c)

RegistrySpec == RegistryInit /\ [][RegistryNext]_registryVars

================================================================================

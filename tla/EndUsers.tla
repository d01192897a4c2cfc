-------------------------------- MODULE EndUsers --------------------------------
(***************************************************************************)
(* End users.  Every runtime call, a request of flags or an event, begins   *)
(* its transaction by looking for its end user, by device if the call has   *)
(* one and by external id if not, and then updates the row it found or      *)
(* inserts a new one (EnsureEndUser, twice in the code).  Assignments and    *)
(* events are logged under the id of that row, and are joined by it.        *)
(***************************************************************************)
EXTENDS Naturals, FiniteSets

CONSTANTS
    Devices,
    Externals,     \* ids of users in the system of the client
    Absent,        \* an empty field, or NULL
    Requests,      \* calls of POST /runtime/flags
    Events,        \* calls of POST /runtime/events
    RequestOf,     \* the request whose req_id an event carries
    MaxFaults      \* bound: failing statements and process restarts

Calls == Requests \cup Events

ASSUME AbsentAssumption == Absent \notin Devices \cup Externals
ASSUME KeyAssumption == Devices \cap Externals = {}
ASSUME CallAssumption == Requests \cap Events = {} /\ RequestOf \in [Events -> Requests]
ASSUME BoundAssumption == MaxFaults \in Nat

VARIABLES
    users,    \* EndUser, as committed
    nextId,   \* the sequence of EndUser.id
    tx,       \* per call, its open transaction
    done,     \* per call that was answered, the id its rows are logged under
    input,    \* per call that was made, the ids it carried
    faults    \* what is left of the bound

vars == <<users, nextId, tx, done, input, faults>>

(* Operators named Bug... are deviations a change to the code could bring in;    *)
(* nothing uses them but the mutation runs listed in the project file.          *)

BugInputUnchecked == [device : Devices \cup {Absent}, external : Externals \cup {Absent}]

\* The ids a call may carry: a call without any is refused.
Input ==
    {i \in [device : Devices \cup {Absent}, external : Externals \cup {Absent}] :
        i.device # Absent \/ i.external # Absent}

\* Users without any id would never be found again.
EndUser ==
    {u \in [id : Nat \ {0}, device : Devices \cup {Absent}, external : Externals \cup {Absent}] :
        u.device # Absent \/ u.external # Absent}

\* found has the id of the row to update, if there is one; row has what the
\* transaction has written.
Transaction ==
    [input : Input, found : SUBSET (Nat \ {0}), row : SUBSET EndUser]

Init ==
    /\ users = {}
    /\ nextId = 1
    /\ tx = [c \in Calls |-> {}]
    /\ done = [c \in Calls |-> {}]
    /\ input = [c \in Calls |-> {}]
    /\ faults = MaxFaults

\* The rows the lookup of an input may return.
Matching(i) ==
    IF i.device # Absent
    THEN {u \in users : u.device = i.device}
    ELSE {u \in users : u.external = i.external}

\* ORDER BY id LIMIT 1
Found(i) ==
    {n \in {u.id : u \in Matching(i)} : \A u \in Matching(i) : n <= u.id}

\* The SELECT of EnsureEndUser.
EnsureEndUser(c, i) ==
    /\ input[c] = {}
    /\ input' = [input EXCEPT ![c] = {i}]
    /\ tx' = [tx EXCEPT ![c] = {[input |-> i, found |-> Found(i), row |-> {}]}]
    /\ UNCHANGED <<users, nextId, done, faults>>

\* The rows that other open transactions have written.
Held(c) == UNION {t.row : t \in UNION {tx[d] : d \in Calls \ {c}}}

Write(c, t, u) == tx' = [tx EXCEPT ![c] = {[t EXCEPT !.row = {u}]}]

\* COALESCE: fields that the call has replace those of the row.
Updated(u, i) ==
    [u EXCEPT !.device = IF i.device = Absent THEN @ ELSE i.device,
              !.external = IF i.external = Absent THEN @ ELSE i.external]

BugUpdateAtOnce(c) ==
    \E t \in tx[c] : \E u \in users :
        /\ t.row = {}
        /\ u.id \in t.found
        /\ Write(c, t, Updated(u, t.input))
        /\ UNCHANGED <<users, nextId, done, input, faults>>

\* UPDATE ... WHERE id: waits for another's version of the row, and applies to
\* what it then finds.
UpdateUser(c) ==
    \E t \in tx[c] : \E u \in users :
        /\ t.row = {}
        /\ u.id \in t.found
        /\ \A w \in Held(c) : w.id # u.id
        /\ Write(c, t, Updated(u, t.input))
        /\ UNCHANGED <<users, nextId, done, input, faults>>

NewUser(t) == [id |-> nextId, device |-> t.input.device, external |-> t.input.external]

BugInsertUnchecked(c) ==
    \E t \in tx[c] :
        /\ t.row = {}
        /\ t.found = {}
        /\ Write(c, t, NewUser(t))
        /\ nextId' = nextId + 1
        /\ UNCHANGED <<users, done, input, faults>>

\* The device is unique (uq_enduser_device_per_service), NULL aside: an INSERT
\* waits for another of the same device, and fails if that one commits.
InsertUser(c) ==
    \E t \in tx[c] :
        /\ t.row = {}
        /\ t.found = {}
        /\ t.input.device # Absent =>
             \A u \in users \cup Held(c) : u.device # t.input.device
        /\ Write(c, t, NewUser(t))
        /\ nextId' = nextId + 1
        /\ UNCHANGED <<users, done, input, faults>>

\* The log rows of the call are written under the id of its user.
Commit(c) ==
    \E t \in tx[c] : \E row \in t.row :
        /\ users' = {u \in users : u.id # row.id} \cup {row}
        /\ done' = [done EXCEPT ![c] = {row.id}]
        /\ tx' = [tx EXCEPT ![c] = {}]
        /\ UNCHANGED <<nextId, input, faults>>

\* The exception of a unique violation ends the call.
BugDuplicateIgnored(c) == FALSE /\ UNCHANGED vars

DuplicateDevice(c) ==
    /\ \E t \in tx[c] :
         /\ t.row = {}
         /\ t.found = {}
         /\ t.input.device # Absent
         /\ \A w \in Held(c) : w.device # t.input.device
         /\ \E u \in users : u.device = t.input.device
    /\ tx' = [tx EXCEPT ![c] = {}]
    /\ UNCHANGED <<users, nextId, done, input, faults>>

Fault == faults > 0 /\ faults' = faults - 1

CallFails(c) ==
    /\ tx[c] # {}
    /\ Fault
    /\ tx' = [tx EXCEPT ![c] = {}]
    /\ UNCHANGED <<users, nextId, done, input>>

Restart ==
    /\ Fault
    /\ tx' = [c \in Calls |-> {}]
    /\ UNCHANGED <<users, nextId, done, input>>

\* An event is sent for a request that was answered.
IngestEvent(v) == done[RequestOf[v]] # {} /\ \E i \in Input : EnsureEndUser(v, i)

ResolveFlags(r) == \E i \in Input : EnsureEndUser(r, i)

CallStep(c) == UpdateUser(c) \/ InsertUser(c) \/ Commit(c) \/ DuplicateDevice(c)

Next ==
    \/ \E r \in Requests : ResolveFlags(r)
    \/ \E v \in Events : IngestEvent(v)
    \/ \E c \in Calls : CallStep(c)
    \/ \E c \in Calls : CallFails(c)
    \/ Restart

Spec == Init /\ [][Next]_vars

\* A call that is not waiting for a row goes on.
FairSpec == Spec /\ \A c \in Calls : WF_vars(CallStep(c))

------------------------------------------------------------------------------
(* Properties                                                              *)

\* Every variable stays in its type.
TypeOK ==
    /\ users \in SUBSET EndUser
    /\ nextId \in Nat \ {0}
    /\ tx \in [Calls -> SUBSET Transaction]
    /\ done \in [Calls -> SUBSET (Nat \ {0})]
    /\ input \in [Calls -> SUBSET Input]
    /\ faults \in Nat

\* All calls from a device are logged under one user, whichever of them came
\* first or at the same time, with whatever external ids: events of a device
\* are joined with its assignments.
DeviceIsOneUser ==
    \A c, d \in Calls : \A i \in input[c], j \in input[d] :
        i.device = j.device /\ i.device # Absent => \A m \in done[c], n \in done[d] : m = n

\* No call waits for rows of others for ever.
CallsEnd == \A c \in Calls : tx[c] # {} ~> tx[c] = {}

\* An event with the ids of its request is logged under the user of its
\* request, and so is joined with the assignments it belongs to.
EventMeetsAssignment ==
    \A v \in Events :
        input[v] = input[RequestOf[v]] => done[v] \subseteq done[RequestOf[v]]

\* However calls overlap, wait or fail, an answered one is one step of
\* UserRegistry: no device has two users, no UPDATE undoes what another call
\* wrote to the row meanwhile, and a call by external id comes to no user who
\* never had it.
Registry == INSTANCE UserRegistry
ImplementsRegistry == Registry!RegistrySpec

==============================================================================

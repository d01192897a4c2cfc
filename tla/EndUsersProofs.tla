----------------------------- MODULE EndUsersProofs -----------------------------
(***************************************************************************)
(* The type invariant, DeviceIsOneUser and the refinement of UserRegistry,    *)
(* for any devices, external ids and calls.                                 *)
(***************************************************************************)
EXTENDS EndUsers, TLAPS

USE AbsentAssumption

\* Ids and devices of committed rows are unique.
RowsUnique ==
    \A u, w \in users :
        /\ u.id = w.id => u = w
        /\ u.device = w.device /\ u.device # Absent => u = w

\* An open call is one that was made; the row it has found, if any, is there
\* and of its device; and the ids that were given out are below nextId.
FoundInv ==
    /\ \A u \in users : u.id < nextId
    /\ \A c \in Calls : \A t \in tx[c] :
         /\ input[c] = {t.input}
         /\ \A n \in t.found : \E u \in users : u.id = n /\ t.input.device \in {Absent, u.device}
         /\ \A w \in t.row : w.id < nextId

\* An uncommitted row is a new version of a committed one with the same
\* device, or a new row with an id and a device of its own.
Written(w) ==
    \/ \E u \in users : u.id = w.id /\ u.device = w.device
    \/ \A u \in users : u.id # w.id /\ (w.device # Absent => u.device # w.device)

WrittenInv ==
    \A c \in Calls : \A t \in tx[c] : \A w \in t.row :
        /\ t.input.device \in {Absent, w.device}
        /\ Written(w)

\* Two uncommitted rows have nothing in common.
ApartInv ==
    \A c, d \in Calls : \A s \in tx[c], t \in tx[d] : \A v \in s.row, w \in t.row :
        c # d => v.id # w.id /\ (v.device = w.device => v.device = Absent)

\* The user of an answered call from a device has that device.
DoneInv ==
    \A c \in Calls : \A n \in done[c] :
        /\ input[c] # {}
        /\ \A i \in input[c] :
             i.device # Absent => \E u \in users : u.id = n /\ u.device = i.device

UserInv ==
    /\ TypeOK
    /\ RowsUnique
    /\ FoundInv
    /\ WrittenInv
    /\ ApartInv
    /\ DoneInv

------------------------------------------------------------------------------

LEMMA InitInv == Init => UserInv
  BY BoundAssumption DEF Init, UserInv, TypeOK, RowsUnique, FoundInv, WrittenInv, ApartInv, DoneInv

\* Calls that fail, of which the database keeps nothing.
LEMMA TxShrinks ==
    ASSUME UserInv, users' = users, nextId' = nextId, done' = done, input' = input,
           faults' \in Nat,
           tx' \in [Calls -> SUBSET Transaction],
           \A c \in Calls : tx'[c] \subseteq tx[c]
    PROVE  UserInv'
<1>1. TypeOK'
  BY DEF UserInv, TypeOK
<1>2. RowsUnique' /\ DoneInv'
  BY DEF UserInv, RowsUnique, DoneInv
<1>3. FoundInv'
  BY DEF UserInv, FoundInv
<1>4. WrittenInv'
  BY DEF UserInv, WrittenInv, Written
<1>5. ApartInv'
  BY DEF UserInv, ApartInv
<1> QED
  BY <1>1, <1>2, <1>3, <1>4, <1>5 DEF UserInv

\* A call begins: it has found rows that match its ids.
LEMMA EnsureInv ==
    ASSUME UserInv, NEW c \in Calls, NEW i \in Input, EnsureEndUser(c, i)
    PROVE  UserInv'
<1> DEFINE t == [input |-> i, found |-> Found(i), row |-> {}]
<1>1. t \in Transaction
  BY DEF UserInv, TypeOK, Found, Matching, Transaction, EndUser
<1>2. \A n \in Found(i) : \E u \in users : u.id = n /\ i.device \in {Absent, u.device}
  BY DEF Found, Matching
<1>3. tx' = [tx EXCEPT ![c] = {t}] /\ input' = [input EXCEPT ![c] = {i}] /\ input[c] = {}
  BY DEF EnsureEndUser
<1>4. t.input = i /\ t.found = Found(i) /\ t.row = {}
  OBVIOUS
<1> HIDE DEF t
<1>5. TypeOK'
  BY <1>1, <1>3 DEF EnsureEndUser, UserInv, TypeOK
<1>6. RowsUnique'
  BY DEF EnsureEndUser, UserInv, RowsUnique
<1>7. FoundInv'
  BY <1>2, <1>3, <1>4 DEF EnsureEndUser, UserInv, TypeOK, FoundInv
<1>8. WrittenInv'
  BY <1>3, <1>4 DEF EnsureEndUser, UserInv, TypeOK, WrittenInv, Written
<1>9. ApartInv'
  BY <1>3, <1>4 DEF EnsureEndUser, UserInv, TypeOK, ApartInv
<1>10. DoneInv'
  BY <1>3 DEF EnsureEndUser, UserInv, TypeOK, DoneInv
<1> QED
  BY <1>5, <1>6, <1>7, <1>8, <1>9, <1>10 DEF UserInv

\* A call writes a row: what UpdateUser and InsertUser have in common.
LEMMA WriteInv ==
    ASSUME UserInv, NEW c \in Calls, NEW t \in tx[c], NEW w \in EndUser,
           Write(c, t, w),
           users' = users, done' = done, input' = input, faults' = faults,
           nextId' \in Nat \ {0}, nextId <= nextId', w.id < nextId',
           t.input.device \in {Absent, w.device},
           Written(w),
           \A v \in Held(c) : v.id # w.id /\ (v.device = w.device => v.device = Absent)
    PROVE  UserInv'
<1> DEFINE s == [t EXCEPT !.row = {w}]
<1>1. t \in Transaction
  BY DEF UserInv, TypeOK
<1>2. s \in Transaction /\ s.input = t.input /\ s.found = t.found /\ s.row = {w}
  BY <1>1 DEF Transaction
<1>3. tx' = [tx EXCEPT ![c] = {s}]
  BY DEF Write
<1> HIDE DEF s
<1>4. TypeOK'
  BY <1>2, <1>3 DEF UserInv, TypeOK
<1>5. RowsUnique' /\ DoneInv'
  BY DEF UserInv, RowsUnique, DoneInv
<1>6. FoundInv'
  <2>1. \A u \in users : u.id < nextId'
    BY DEF UserInv, TypeOK, FoundInv, EndUser
  <2>2. \A d \in Calls : \A r \in tx[d] : \A v \in r.row : v.id < nextId'
    BY DEF UserInv, TypeOK, FoundInv, Transaction, EndUser
  <2> QED
    BY <1>2, <1>3, <2>1, <2>2 DEF UserInv, TypeOK, FoundInv
<1>7. WrittenInv'
  BY <1>2, <1>3 DEF UserInv, TypeOK, WrittenInv, Written
<1>8. ApartInv'
  BY <1>2, <1>3 DEF UserInv, TypeOK, ApartInv, Held
<1> QED
  BY <1>4, <1>5, <1>6, <1>7, <1>8 DEF UserInv

LEMMA UpdateInv ==
    ASSUME UserInv, NEW c \in Calls, UpdateUser(c)
    PROVE  UserInv'
<1>1. PICK t \in tx[c] : \E u \in users :
        /\ u.id \in t.found
        /\ \A v \in Held(c) : v.id # u.id
        /\ Write(c, t, Updated(u, t.input))
        /\ UNCHANGED <<users, nextId, done, input, faults>>
  BY DEF UpdateUser
<1>2. PICK u \in users :
        /\ u.id \in t.found
        /\ \A v \in Held(c) : v.id # u.id
        /\ Write(c, t, Updated(u, t.input))
        /\ UNCHANGED <<users, nextId, done, input, faults>>
  BY <1>1
<1> DEFINE w == Updated(u, t.input)
<1>3. u \in EndUser /\ t.input \in Input
  BY DEF UserInv, TypeOK, Transaction
<1>4. t.input.device \in {Absent, u.device}
  BY <1>2 DEF UserInv, FoundInv, RowsUnique
<1>5. w \in EndUser /\ w.id = u.id /\ w.device = u.device
  BY <1>3, <1>4 DEF EndUser, Input, Updated
<1>6. Write(c, t, w)
  BY <1>2
<1> HIDE DEF w
<1>7. w.id < nextId
  BY <1>5 DEF UserInv, FoundInv
<1>8. Written(w)
  BY <1>5 DEF Written
<1>9. ASSUME NEW v \in Held(c), v.device = w.device, v.device # Absent
      PROVE  FALSE
  <2>1. Written(v)
    BY DEF UserInv, WrittenInv, Held
  <2> QED
    BY <1>2, <1>5, <1>9, <2>1 DEF Written, UserInv, RowsUnique
<1> QED
  BY <1>2, <1>4, <1>5, <1>6, <1>7, <1>8, <1>9, WriteInv DEF UserInv, TypeOK

LEMMA InsertInv ==
    ASSUME UserInv, NEW c \in Calls, InsertUser(c)
    PROVE  UserInv'
<1>1. PICK t \in tx[c] :
        /\ t.input.device # Absent =>
             \A u \in users \cup Held(c) : u.device # t.input.device
        /\ Write(c, t, NewUser(t))
        /\ nextId' = nextId + 1
        /\ UNCHANGED <<users, done, input, faults>>
  BY DEF InsertUser
<1> DEFINE w == NewUser(t)
<1>2. t.input \in Input /\ nextId \in Nat \ {0}
  BY DEF UserInv, TypeOK, Transaction
<1>3. w \in EndUser /\ w.id = nextId /\ w.device = t.input.device
  BY <1>2 DEF NewUser, EndUser, Input
<1>4. \A u \in users : u.id < nextId /\ u.id \in Nat
  BY DEF UserInv, FoundInv, TypeOK, EndUser
<1>5. \A v \in Held(c) : v.id < nextId /\ v.id \in Nat
  BY DEF UserInv, FoundInv, TypeOK, EndUser, Transaction, Held
<1> HIDE DEF w
<1>6. Written(w)
  BY <1>1, <1>2, <1>3, <1>4 DEF Written
<1>7. \A v \in Held(c) : v.id # w.id /\ (v.device = w.device => v.device = Absent)
  BY <1>1, <1>2, <1>3, <1>5
<1>8. Write(c, t, w)
  BY <1>1 DEF w
<1> QED
  BY <1>1, <1>2, <1>3, <1>6, <1>7, <1>8, WriteInv

\* A commit keeps the id and the device of every row there was.
LEMMA CommitInv ==
    ASSUME UserInv, NEW c \in Calls, Commit(c)
    PROVE  UserInv'
<1>1. PICK t \in tx[c] : \E row \in t.row :
        /\ users' = {u \in users : u.id # row.id} \cup {row}
        /\ done' = [done EXCEPT ![c] = {row.id}]
        /\ tx' = [tx EXCEPT ![c] = {}]
        /\ UNCHANGED <<nextId, input, faults>>
  BY DEF Commit
<1>2. PICK w \in t.row :
        /\ users' = {u \in users : u.id # w.id} \cup {w}
        /\ done' = [done EXCEPT ![c] = {w.id}]
        /\ tx' = [tx EXCEPT ![c] = {}]
        /\ UNCHANGED <<nextId, input, faults>>
  BY <1>1
<1>3. w \in EndUser
  BY DEF UserInv, TypeOK, Transaction
<1>4. Written(w) /\ t.input.device \in {Absent, w.device}
  BY DEF UserInv, WrittenInv
<1>5. \A u \in users : \E v \in users' : v.id = u.id /\ v.device = u.device
  BY <1>2, <1>4 DEF Written, UserInv, RowsUnique
<1>6. TypeOK'
  BY <1>2, <1>3 DEF UserInv, TypeOK, EndUser
<1>7. RowsUnique'
  BY <1>2, <1>4 DEF Written, UserInv, RowsUnique
<1>8. FoundInv'
  <2>1. w.id < nextId /\ input[c] = {t.input}
    BY DEF UserInv, FoundInv
  <2>2. ASSUME NEW d \in Calls, NEW s \in tx'[d]
        PROVE  /\ s \in tx[d]
               /\ \A n \in s.found : \E u \in users' : u.id = n /\ s.input.device \in {Absent, u.device}
    <3>1. s \in tx[d]
      BY <1>2 DEF UserInv, TypeOK
    <3>2. \A n \in s.found : \E u \in users : u.id = n /\ s.input.device \in {Absent, u.device}
      BY <3>1 DEF UserInv, FoundInv
    <3> QED
      BY <1>5, <3>1, <3>2
  <2> QED
    BY <1>2, <2>1, <2>2 DEF UserInv, FoundInv
<1>9. WrittenInv'
  <2> SUFFICES ASSUME NEW d \in Calls, NEW s \in tx'[d], NEW v \in s.row
               PROVE  s.input.device \in {Absent, v.device} /\ Written(v)'
    BY DEF WrittenInv
  <2>1. d # c /\ s \in tx[d]
    BY <1>2 DEF UserInv, TypeOK
  <2>2. s.input.device \in {Absent, v.device} /\ Written(v)
    BY <2>1 DEF UserInv, WrittenInv
  <2>3. v.id # w.id /\ (v.device = w.device => v.device = Absent)
    BY <2>1 DEF UserInv, ApartInv
  <2> QED
    BY <1>2, <1>5, <2>2, <2>3 DEF Written
<1>10. ApartInv'
  BY <1>2 DEF UserInv, TypeOK, ApartInv
<1>11. DoneInv'
  <2> SUFFICES ASSUME NEW d \in Calls, NEW n \in done'[d]
               PROVE  /\ input[d] # {}
                      /\ \A i \in input[d] : i.device # Absent =>
                           \E u \in users' : u.id = n /\ u.device = i.device
    BY <1>2 DEF DoneInv
  <2>1. CASE d = c
    BY <1>2, <1>4, <2>1 DEF UserInv, TypeOK, FoundInv
  <2>2. CASE d # c
    <3>1. n \in done[d]
      BY <1>2, <2>2 DEF UserInv, TypeOK
    <3> QED
      BY <1>5, <3>1 DEF UserInv, DoneInv
  <2> QED
    BY <2>1, <2>2
<1> QED
  BY <1>6, <1>7, <1>8, <1>9, <1>10, <1>11 DEF UserInv

LEMMA NextInv == UserInv /\ [Next]_vars => UserInv'
<1> SUFFICES ASSUME UserInv, [Next]_vars PROVE UserInv'
  OBVIOUS
<1>1. ASSUME NEW r \in Requests, ResolveFlags(r) PROVE UserInv'
  BY <1>1, EnsureInv DEF ResolveFlags, Calls
<1>2. ASSUME NEW v \in Events, IngestEvent(v) PROVE UserInv'
  BY <1>2, EnsureInv DEF IngestEvent, Calls
<1>3. ASSUME NEW c \in Calls, UpdateUser(c) PROVE UserInv'
  BY <1>3, UpdateInv
<1>4. ASSUME NEW c \in Calls, InsertUser(c) PROVE UserInv'
  BY <1>4, InsertInv
<1>5. ASSUME NEW c \in Calls, Commit(c) PROVE UserInv'
  BY <1>5, CommitInv
<1>6. ASSUME NEW c \in Calls, DuplicateDevice(c) PROVE UserInv'
  <2>1. tx' = [tx EXCEPT ![c] = {}] /\ tx \in [Calls -> SUBSET Transaction]
    BY <1>6 DEF DuplicateDevice, UserInv, TypeOK
  <2> QED
    BY <1>6, <2>1, TxShrinks DEF DuplicateDevice, UserInv, TypeOK
<1>7. ASSUME NEW c \in Calls, CallFails(c) PROVE UserInv'
  <2>1. tx' = [tx EXCEPT ![c] = {}] /\ tx \in [Calls -> SUBSET Transaction]
    BY <1>7 DEF CallFails, UserInv, TypeOK
  <2>2. faults' \in Nat
    BY <1>7 DEF CallFails, Fault, UserInv, TypeOK
  <2> QED
    BY <1>7, <2>1, <2>2, TxShrinks DEF CallFails
<1>8. CASE Restart
  <2>1. faults' \in Nat
    BY <1>8 DEF Restart, Fault, UserInv, TypeOK
  <2> QED
    BY <1>8, <2>1, TxShrinks DEF Restart
<1>9. CASE UNCHANGED vars
  BY <1>9, TxShrinks DEF vars, UserInv, TypeOK
<1> QED
  BY <1>1, <1>2, <1>3, <1>4, <1>5, <1>6, <1>7, <1>8, <1>9 DEF Next, CallStep

\* Ids and devices of committed rows are unique, and what every open call has
\* found and written fits them.
THEOREM UsersAreConsistent == Spec => []UserInv
  BY InitInv, NextInv, PTL DEF Spec

\* Every variable stays in its type.
THEOREM TypeCorrect == Spec => []TypeOK
<1>1. UserInv => TypeOK
  BY DEF UserInv
<1> QED
  BY <1>1, UsersAreConsistent, PTL

\* All calls from a device are logged under one user, however they overlap or
\* fail, for any number of devices, external ids and calls.
THEOREM OneUserPerDevice == Spec => []DeviceIsOneUser
<1>1. UserInv => DeviceIsOneUser
  BY DEF UserInv, DoneInv, RowsUnique, DeviceIsOneUser
<1> QED
  BY <1>1, UsersAreConsistent, PTL

------------------------------------------------------------------------------
(* Answered calls are steps of UserRegistry                                 *)

\* A row is written for the call that holds it: it is what the call makes of a row
\* that it has found, as that is now, or a new one with the ids of the call.
VersionInv ==
    \A c \in Calls : \A t \in tx[c] : \A w \in t.row :
        \/ \E u \in users : u.id \in t.found /\ w = Updated(u, t.input)
        \/ /\ w = [id |-> w.id, device |-> t.input.device, external |-> t.input.external]
           /\ \A u \in users : u.id # w.id /\ (u.device = w.device => u.device = Absent)

\* A row that has an external id, or that a call has found by it, has answered
\* for it; an open call has no answer.
KnownInv ==
    /\ \A u \in users : u.external # Absent => Registry!AnsweredFor(u.id, u.external)
    /\ \A c \in Calls : \A t \in tx[c] :
         /\ done[c] = {}
         /\ t.input.device = Absent =>
              \A n \in t.found : Registry!AnsweredFor(n, t.input.external)

RegistryInv == VersionInv /\ KnownInv

\* What was answered stays so.
LEMMA StillAnsweredFor ==
    ASSUME \A c \in Calls : done[c] \subseteq done'[c] /\ input[c] \subseteq input'[c],
           NEW n, NEW x, Registry!AnsweredFor(n, x)
    PROVE  Registry!AnsweredFor(n, x)'
  BY DEF Registry!AnsweredFor, Registry!Calls, Calls

\* Calls that fail.
LEMMA RegistryShrinks ==
    ASSUME RegistryInv, users' = users, done' = done, input' = input,
           \A c \in Calls : tx'[c] \subseteq tx[c]
    PROVE  RegistryInv'
  BY DEF RegistryInv, VersionInv, KnownInv, Registry!AnsweredFor, Registry!Calls, Calls

LEMMA EnsureRegistry ==
    ASSUME UserInv, RegistryInv, NEW c \in Calls, NEW i \in Input, EnsureEndUser(c, i)
    PROVE  RegistryInv'
<1> DEFINE t == [input |-> i, found |-> Found(i), row |-> {}]
<1>1. /\ input[c] = {} /\ input' = [input EXCEPT ![c] = {i}]
      /\ tx' = [tx EXCEPT ![c] = {t}]
      /\ users' = users /\ done' = done
  BY DEF EnsureEndUser
<1>2. t.input = i /\ t.found = Found(i) /\ t.row = {}
  OBVIOUS
<1> HIDE DEF t
<1>3. \A d \in Calls : input[d] \subseteq input'[d]
  BY <1>1 DEF UserInv, TypeOK
<1>4. \A n, x : Registry!AnsweredFor(n, x) => Registry!AnsweredFor(n, x)'
  BY <1>1, <1>3, StillAnsweredFor
<1>5. VersionInv'
  BY <1>1, <1>2 DEF RegistryInv, VersionInv, UserInv, TypeOK
<1>6. done[c] = {}
  BY <1>1 DEF UserInv, DoneInv
<1>7. i.device = Absent => \A n \in Found(i) : Registry!AnsweredFor(n, i.external)
  BY DEF Found, Matching, RegistryInv, KnownInv, Input
<1>8. KnownInv'
  BY <1>1, <1>2, <1>4, <1>6, <1>7 DEF RegistryInv, KnownInv, UserInv, TypeOK
<1> QED
  BY <1>5, <1>8 DEF RegistryInv

\* A call writes a row.
LEMMA WriteRegistry ==
    ASSUME UserInv, RegistryInv, NEW c \in Calls, NEW t \in tx[c], NEW w,
           Write(c, t, w), users' = users, done' = done, input' = input,
           \/ \E u \in users : u.id \in t.found /\ w = Updated(u, t.input)
           \/ /\ w = [id |-> w.id, device |-> t.input.device, external |-> t.input.external]
              /\ \A u \in users : u.id # w.id /\ (u.device = w.device => u.device = Absent)
    PROVE  RegistryInv'
<1> DEFINE s == [t EXCEPT !.row = {w}]
<1>1. t \in Transaction
  BY DEF UserInv, TypeOK
<1>2. s.input = t.input /\ s.found = t.found /\ s.row = {w}
  BY <1>1 DEF Transaction
<1>3. tx' = [tx EXCEPT ![c] = {s}]
  BY DEF Write
<1> HIDE DEF s
<1>4. VersionInv'
  BY <1>2, <1>3 DEF RegistryInv, VersionInv, UserInv, TypeOK
<1>5. KnownInv'
  BY <1>2, <1>3 DEF RegistryInv, KnownInv, UserInv, TypeOK, Registry!AnsweredFor, Registry!Calls, Calls
<1> QED
  BY <1>4, <1>5 DEF RegistryInv

LEMMA UpdateRegistry ==
    ASSUME UserInv, RegistryInv, NEW c \in Calls, UpdateUser(c)
    PROVE  RegistryInv'
<1>1. PICK t \in tx[c] : \E u \in users :
        /\ u.id \in t.found
        /\ Write(c, t, Updated(u, t.input))
        /\ UNCHANGED <<users, nextId, done, input, faults>>
  BY DEF UpdateUser
<1>2. PICK u \in users :
        /\ u.id \in t.found
        /\ Write(c, t, Updated(u, t.input))
        /\ UNCHANGED <<users, nextId, done, input, faults>>
  BY <1>1
<1> DEFINE w == Updated(u, t.input)
<1>3. \E v \in users : v.id \in t.found /\ w = Updated(v, t.input)
  BY <1>2
<1>4. Write(c, t, w)
  BY <1>2
<1> HIDE DEF w
<1> QED
  BY <1>2, <1>3, <1>4, WriteRegistry

LEMMA InsertRegistry ==
    ASSUME UserInv, RegistryInv, NEW c \in Calls, InsertUser(c)
    PROVE  RegistryInv'
<1>1. PICK t \in tx[c] :
        /\ t.input.device # Absent =>
             \A u \in users \cup Held(c) : u.device # t.input.device
        /\ Write(c, t, NewUser(t))
        /\ UNCHANGED <<users, done, input, faults>>
  BY DEF InsertUser
<1> DEFINE w == NewUser(t)
<1>2. w.id = nextId /\ w = [id |-> w.id, device |-> t.input.device, external |-> t.input.external]
  BY DEF NewUser
<1>3. w.device = t.input.device
  BY DEF NewUser
<1>4. \A u \in users : u.id < nextId /\ u.id \in Nat /\ nextId \in Nat
  BY DEF UserInv, FoundInv, TypeOK, EndUser
<1>5. Write(c, t, w)
  BY <1>1
<1> HIDE DEF w
<1>6. \A u \in users : u.id # w.id /\ (u.device = w.device => u.device = Absent)
  BY <1>1, <1>2, <1>3, <1>4
<1> QED
  BY <1>1, <1>2, <1>5, <1>6, WriteRegistry

\* The commit of t, which has written w, and what is known of both.
Commits(c, t, w) ==
    /\ w \in EndUser /\ t.input \in Input
    /\ input[c] = {t.input} /\ done[c] = {}
    /\ users' = {u \in users : u.id # w.id} \cup {w}
    /\ done' = [done EXCEPT ![c] = {w.id}]
    /\ tx' = [tx EXCEPT ![c] = {}]
    /\ input' = input
    /\ \A d \in Calls : done[d] \subseteq done'[d]

\* Each commit is one of these.
LEMMA CommitRow ==
    ASSUME UserInv, RegistryInv, NEW c \in Calls, Commit(c)
    PROVE  \E t \in tx[c] : \E w \in t.row : Commits(c, t, w)
<1>1. PICK t \in tx[c] : \E w \in t.row :
        /\ users' = {u \in users : u.id # w.id} \cup {w}
        /\ done' = [done EXCEPT ![c] = {w.id}]
        /\ tx' = [tx EXCEPT ![c] = {}]
        /\ UNCHANGED <<nextId, input, faults>>
  BY DEF Commit
<1>2. t \in Transaction /\ input[c] = {t.input} /\ done[c] = {}
  BY DEF UserInv, TypeOK, FoundInv, RegistryInv, KnownInv
<1>3. t.input \in Input /\ \A w \in t.row : w \in EndUser
  BY <1>2 DEF Transaction
<1>4. done' = [done EXCEPT ![c] = done'[c]] => \A d \in Calls : done[d] \subseteq done'[d]
  BY <1>2 DEF UserInv, TypeOK
<1>5. done \in [Calls -> SUBSET (Nat \ {0})]
  BY DEF UserInv, TypeOK
<1> QED
  BY <1>1, <1>2, <1>3, <1>4, <1>5 DEF Commits

LEMMA CommitRegistry ==
    ASSUME UserInv, RegistryInv, NEW c \in Calls, Commit(c)
    PROVE  RegistryInv'
<1>0. PICK t \in tx[c] : \E w \in t.row : Commits(c, t, w)
  BY CommitRow
<1>1. PICK w \in t.row : Commits(c, t, w)
  BY <1>0
<1> USE DEF Commits
<1>2. \A n, x : Registry!AnsweredFor(n, x) => Registry!AnsweredFor(n, x)'
  BY <1>1, StillAnsweredFor
<1>3. \A d \in Calls : d # c => tx'[d] = tx[d]
  BY <1>1 DEF UserInv, TypeOK
<1>4. tx'[c] = {} /\ done'[c] = {w.id} /\ \A d \in Calls : d # c => done'[d] = done[d]
  BY <1>1 DEF UserInv, TypeOK
<1>5. VersionInv'
  <2> SUFFICES ASSUME NEW d \in Calls, d # c, NEW s \in tx[d], NEW v \in s.row
               PROVE  \/ \E u \in users' : u.id \in s.found /\ v = Updated(u, s.input)
                      \/ /\ v = [id |-> v.id, device |-> s.input.device, external |-> s.input.external]
                         /\ \A u \in users' : u.id # v.id /\ (u.device = v.device => u.device = Absent)
    BY <1>3, <1>4 DEF VersionInv
  <2>1. v.id # w.id /\ (v.device = w.device => v.device = Absent)
    BY DEF UserInv, ApartInv
  <2>2. CASE \E u \in users : u.id \in s.found /\ v = Updated(u, s.input)
    <3>1. PICK u \in users : u.id \in s.found /\ v = Updated(u, s.input)
      BY <2>2
    <3>2. u.id = v.id
      BY <3>1 DEF Updated, UserInv, TypeOK, EndUser
    <3> QED
      BY <1>1, <2>1, <3>1, <3>2
  <2>3. CASE /\ v = [id |-> v.id, device |-> s.input.device, external |-> s.input.external]
             /\ \A u \in users : u.id # v.id /\ (u.device = v.device => u.device = Absent)
    BY <1>1, <2>1, <2>3
  <2> QED
    BY <2>2, <2>3 DEF RegistryInv, VersionInv
<1>6. Registry!AnsweredFor(w.id, t.input.external)'
  BY <1>1, <1>4 DEF Registry!AnsweredFor, Registry!Calls, Calls
<1>7. w.external # Absent => Registry!AnsweredFor(w.id, w.external)'
  <2>1. CASE \E u \in users : u.id \in t.found /\ w = Updated(u, t.input)
    <3>1. PICK u \in users : u.id \in t.found /\ w = Updated(u, t.input)
      BY <2>1
    <3>2. u.id = w.id /\ w.external \in {u.external, t.input.external}
      BY <3>1 DEF Updated, UserInv, TypeOK, EndUser
    <3> QED
      BY <1>2, <1>6, <3>2 DEF RegistryInv, KnownInv
  <2>2. CASE w = [id |-> w.id, device |-> t.input.device, external |-> t.input.external]
    BY <1>6, <2>2
  <2> QED
    BY <2>1, <2>2 DEF RegistryInv, VersionInv
<1>8. KnownInv'
  BY <1>1, <1>2, <1>3, <1>4, <1>7 DEF RegistryInv, KnownInv
<1> QED
  BY <1>5, <1>8 DEF RegistryInv

\* The commit of a call is a step of the registry.
LEMMA CommitAnswers ==
    ASSUME UserInv, RegistryInv, NEW c \in Calls, Commit(c)
    PROVE  Registry!AddUser(c) \/ Registry!KnowUser(c)
<1>0. PICK t \in tx[c] : \E w \in t.row : Commits(c, t, w)
  BY CommitRow
<1>1. PICK w \in t.row : Commits(c, t, w)
  BY <1>0
<1> USE DEF Commits
<1>2. CASE \E u \in users : u.id \in t.found /\ w = Updated(u, t.input)
  <2>1. PICK u \in users : u.id \in t.found /\ w = Updated(u, t.input)
    BY <1>2
  <2>2. u \in EndUser
    BY DEF UserInv, TypeOK
  <2>3. t.input.device \in {Absent, u.device}
    BY <2>1 DEF UserInv, FoundInv, RowsUnique
  <2>4. /\ w.id = u.id
        /\ w = [u EXCEPT !.external = IF t.input.external = Absent THEN @ ELSE t.input.external]
    BY <2>1, <2>2, <2>3 DEF Updated, EndUser
  <2>5. {v \in users : v.id # w.id} = users \ {u}
    BY <2>4 DEF UserInv, RowsUnique
  <2>6. IF t.input.device # Absent THEN u.device = t.input.device
        ELSE Registry!AnsweredFor(u.id, t.input.external)
    BY <2>1, <2>3 DEF RegistryInv, KnownInv
  <2>7. Registry!Answer(c, u)
    BY <1>1, <2>4 DEF Registry!Answer
  <2>8. Registry!KnowUser(c)
    BY <1>1, <2>4, <2>5, <2>6, <2>7 DEF Registry!KnowUser
  <2> QED
    BY <2>8
<1>3. CASE /\ w = [id |-> w.id, device |-> t.input.device, external |-> t.input.external]
           /\ \A u \in users : u.id # w.id /\ (u.device = w.device => u.device = Absent)
  <2>1. {v \in users : v.id # w.id} = users
    BY <1>3
  <2>2. w \in users' /\ w.id \in Nat
    BY <1>1 DEF EndUser
  <2>3. Registry!Answer(c, w)
    BY <1>1 DEF Registry!Answer
  <2>4. Registry!AddUser(c)
    BY <1>1, <1>3, <2>1, <2>2, <2>3 DEF Registry!AddUser
  <2> QED
    BY <2>4
<1> QED
  BY <1>2, <1>3 DEF RegistryInv, VersionInv

LEMMA RegistryNextInv == UserInv /\ RegistryInv /\ [Next]_vars => RegistryInv'
<1> SUFFICES ASSUME UserInv, RegistryInv, [Next]_vars PROVE RegistryInv'
  OBVIOUS
<1>1. ASSUME NEW r \in Requests, ResolveFlags(r) PROVE RegistryInv'
  BY <1>1, EnsureRegistry DEF ResolveFlags, Calls
<1>2. ASSUME NEW v \in Events, IngestEvent(v) PROVE RegistryInv'
  BY <1>2, EnsureRegistry DEF IngestEvent, Calls
<1>3. ASSUME NEW c \in Calls, UpdateUser(c) PROVE RegistryInv'
  BY <1>3, UpdateRegistry
<1>4. ASSUME NEW c \in Calls, InsertUser(c) PROVE RegistryInv'
  BY <1>4, InsertRegistry
<1>5. ASSUME NEW c \in Calls, Commit(c) PROVE RegistryInv'
  BY <1>5, CommitRegistry
<1>6. ASSUME NEW c \in Calls, DuplicateDevice(c) \/ CallFails(c) PROVE RegistryInv'
  BY <1>6, RegistryShrinks DEF DuplicateDevice, CallFails, UserInv, TypeOK
<1>7. CASE Restart
  BY <1>7, RegistryShrinks DEF Restart
<1>8. CASE UNCHANGED vars
  BY <1>8, RegistryShrinks DEF vars
<1> QED
  BY <1>1, <1>2, <1>3, <1>4, <1>5, <1>6, <1>7, <1>8 DEF Next, CallStep

\* A call that is made is a Call, a commit an answer, all else a stutter.
LEMMA RegistryStep ==
    UserInv /\ RegistryInv /\ [Next]_vars => [Registry!RegistryNext]_(Registry!registryVars)
<1> SUFFICES ASSUME UserInv, RegistryInv, [Next]_vars
             PROVE  Registry!RegistryNext \/ UNCHANGED <<users, done, input>>
  BY DEF Registry!registryVars
<1> USE DEF Registry!Calls, Registry!Ids, Input, Calls
<1>1. ASSUME NEW r \in Requests, ResolveFlags(r) PROVE Registry!RegistryNext
  BY <1>1, CallAssumption DEF ResolveFlags, EnsureEndUser, Registry!RegistryNext, Registry!Call
<1>2. ASSUME NEW v \in Events, IngestEvent(v) PROVE Registry!RegistryNext
  BY <1>2 DEF IngestEvent, EnsureEndUser, Registry!RegistryNext, Registry!Call
<1>3. ASSUME NEW c \in Calls, Commit(c) PROVE Registry!RegistryNext
  BY <1>3, CommitAnswers DEF Registry!RegistryNext
<1>4. ASSUME NEW c \in Calls, UpdateUser(c) \/ InsertUser(c) \/ DuplicateDevice(c) \/ CallFails(c)
      PROVE  UNCHANGED <<users, done, input>>
  BY <1>4 DEF UpdateUser, InsertUser, DuplicateDevice, CallFails
<1>5. CASE Restart
  BY <1>5 DEF Restart
<1>6. CASE UNCHANGED vars
  BY <1>6 DEF vars
<1> QED
  BY <1>1, <1>2, <1>3, <1>4, <1>5, <1>6 DEF Next, CallStep

\* The statements of overlapping calls implement UserRegistry: an answered call
\* has added one user or found its own, whose row it has lost nothing of, for any
\* devices, external ids and calls.
THEOREM ImplementsUserRegistry == Spec => ImplementsRegistry
<1>1. Init => RegistryInv /\ Registry!RegistryInit
  BY DEF Init, RegistryInv, VersionInv, KnownInv, Registry!RegistryInit, Registry!Calls, Calls
<1>2. Spec => []RegistryInv
  BY <1>1, RegistryNextInv, UsersAreConsistent, PTL DEF Spec
<1>3. Spec => Registry!RegistrySpec
  BY <1>1, <1>2, RegistryStep, UsersAreConsistent, PTL DEF Spec, Registry!RegistrySpec
<1> QED
  BY <1>3 DEF ImplementsRegistry

================================================================================

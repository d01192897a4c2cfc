------------------------ MODULE ConfigPublicationProofs ------------------------
(* Theorems about ConfigPublication, for every value of its constants. *)
EXTENDS ConfigPublication, FiniteSetTheorems, TLAPS

USE DEF NULL

(* The part of the inductive invariant that concerns open builds: the number a
   build has read is at most one above the last committed one, and the build
   that holds the uncommitted row of a service's next version is alone with it. *)
BuildVersions ==
    \A b \in Builders : \A r \in tx[b] :
        /\ r.version \in 1 .. Len(configs[r.service]) + 1
        /\ r.phase = "inserted" =>
             /\ r.version = Len(configs[r.service]) + 1
             /\ \A c \in Builders \ {b} : \A q \in tx[c] :
                  ~ (q.phase = "inserted" /\ q.service = r.service)

VersionInv == TypeOK /\ VersionsInOrder /\ BuildVersions

\* When the committed versions are 1 .. n, MAX + 1 is n + 1.
LEMMA NextVersionIsFree ==
    ASSUME TypeOK, VersionsInOrder, NEW s \in Services
    PROVE  /\ Versions(s) = 1 .. Len(configs[s])
           /\ NextVersion(s) = Len(configs[s]) + 1
<1> DEFINE n == Len(configs[s])
<1>1. n \in Nat /\ DOMAIN configs[s] = 1 .. n
  BY DEF TypeOK
<1>2. Versions(s) = 1 .. n
  BY <1>1 DEF Versions, VersionsInOrder
<1>3. n \in Versions(s) \cup {0} /\ \A w \in Versions(s) \cup {0} : w <= n
  BY <1>1, <1>2
<1>4. \A v \in Versions(s) \cup {0} :
        (\A w \in Versions(s) \cup {0} : w <= v) => v = n
  BY <1>1, <1>2, <1>3
<1>5. (CHOOSE v \in Versions(s) \cup {0} : \A w \in Versions(s) \cup {0} : w <= v) = n
  BY <1>3, <1>4
<1> QED
  BY <1>1, <1>2, <1>5 DEF NextVersion

\* The rows of a build are finite in number, so its counts are numbers.
LEMMA CountIsNat ==
    ASSUME NEW S \in SUBSET Experiments
    PROVE  Cardinality(S) \in Nat
BY ExperimentAssumption, FS_Subset, FS_CardinalityType

------------------------------------------------------------------------------
(* Type correctness                                                        *)

\* A build that goes on to r, whatever statement brought it there, keeps the types.
LEMMA ContinueType ==
    ASSUME TypeOK, NEW b \in Builders, NEW r \in Build, Continue(b, r)
    PROVE  TypeOK'
BY DEF TypeOK, Continue, rows, published

LEMMA BeginType ==
    ASSUME TypeOK, VersionsInOrder, NEW b \in Builders, NEW s \in Services, Begin(b, s)
    PROVE  tx' \in [Builders -> SUBSET Build]
<1>1. NextVersion(s) \in Nat
  BY NextVersionIsFree DEF TypeOK
<1> QED
  BY <1>1 DEF TypeOK, Begin, Build, Phase

LEMMA RollbackType ==
    ASSUME TypeOK, NEW b \in Builders, Rollback(b),
           budget' \in [patches : Nat, builds : Nat, faults : Nat]
    PROVE  TypeOK'
BY DEF TypeOK, Rollback, rows, published

LEMMA FaultBudget ==
    ASSUME TypeOK, budget.faults > 0, budget' = [budget EXCEPT !.faults = @ - 1]
    PROVE  budget' \in [patches : Nat, builds : Nat, faults : Nat]
<1>1. budget \in [patches : Nat, builds : Nat, faults : Nat]
  BY DEF TypeOK
<1>2. budget.faults - 1 \in Nat
  BY <1>1
<1> QED
  BY <1>1, <1>2

LEMMA TypeStep ==
    ASSUME TypeOK, VersionsInOrder, [Next]_vars
    PROVE  TypeOK'
<1>1. ASSUME NEW e \in Experiments, CreateExperiment(e)
      PROVE  TypeOK'
  BY <1>1 DEF TypeOK, CreateExperiment, published, Status
<1>2. ASSUME NEW p \in Operators, NEW e \in Experiments, NEW action \in Actions,
             PatchRead(p, e, action)
      PROVE  TypeOK'
  <2>1. PICK t \in FindTransition(status[e], action) :
          patch' = [patch EXCEPT ![p] = {[experiment |-> e, to |-> t.to, at |-> clock]}]
    BY <1>2 DEF PatchRead
  <2>2. t.to \in Status
    BY DEF FindTransition, kTransitions, Status
  <2>3. [experiment |-> e, to |-> t.to, at |-> clock] \in PatchRequest
    BY <2>2 DEF PatchRequest, TypeOK
  <2>4. patch' \in [Operators -> SUBSET PatchRequest]
    BY <2>1, <2>3 DEF TypeOK
  <2>5. budget' \in [patches : Nat, builds : Nat, faults : Nat]
    BY <1>2 DEF PatchRead, TypeOK
  <2> QED
    BY <1>2, <2>4, <2>5 DEF TypeOK, PatchRead, rows, published
<1>3. ASSUME NEW p \in Operators, PatchWrite(p)
      PROVE  TypeOK'
  <2>0. PICK r \in patch[p] : \E now \in r.at .. clock : UpdateStatus(r, now)
    BY <1>3 DEF PatchWrite
  <2>1. PICK now \in r.at .. clock : UpdateStatus(r, now)
    BY <2>0
  <2>2. r.experiment \in Experiments /\ r.to \in Status /\ now \in Nat /\ now + Duration \in Nat
    BY BoundAssumption DEF TypeOK, PatchRequest
  <2>3. status' \in [Experiments -> Status]
    BY <2>1, <2>2 DEF TypeOK, UpdateStatus
  <2>4. startAt' \in [Experiments -> Nat \cup {NULL}]
    BY <2>1, <2>2 DEF TypeOK, UpdateStatus, Coalesce
  <2>5. endAt' \in [Experiments -> Nat \cup {NULL}]
    BY <2>1, <2>2 DEF TypeOK, UpdateStatus, Coalesce
  <2> QED
    BY <1>3, <2>3, <2>4, <2>5 DEF TypeOK, PatchWrite, published
<1>4. ASSUME NEW b \in Builders, NEW s \in Services, ManualBuild(b, s)
      PROVE  TypeOK'
  BY <1>4, BeginType DEF TypeOK, ManualBuild, rows, published
<1>5. ASSUME NEW s \in Services, SchedulerBuild(s)
      PROVE  TypeOK'
  BY <1>5, BeginType DEF TypeOK, SchedulerBuild, rows, published, Builders
<1>6. ASSUME NEW b \in Builders, BuildStep(b)
      PROVE  TypeOK'
  <2>0. tx[b] \in SUBSET Build
    BY DEF TypeOK
  <2>1. CASE ScanExpired(b)
    BY <2>0, <2>1, ContinueType DEF ScanExpired, Build, Phase
  <2>2. CASE ExpireRow(b)
    BY <2>0, <2>2, ContinueType DEF ExpireRow, Build
  <2>3. CASE ScanQueued(b)
    BY <2>0, <2>3, ContinueType DEF ScanQueued, Build, Phase
  <2>4. CASE QueueRow(b)
    BY <2>0, <2>4, ContinueType DEF QueueRow, Build
  <2>5. CASE SelectExperiments(b)
    BY <2>0, <2>5, ContinueType DEF SelectExperiments, Build, Phase
  <2>6. CASE InsertVersion(b)
    BY <2>0, <2>6, ContinueType DEF InsertVersion, Build, Phase
  <2>7. CASE DuplicateVersion(b)
    BY <2>7, RollbackType DEF DuplicateVersion, TypeOK
  <2>8. CASE DeadlockVictim(b)
    BY <2>8, RollbackType DEF DeadlockVictim, TypeOK
  <2>9. CASE Commit(b)
    <3>1. PICK r \in tx[b] : r.phase = "inserted" /\ MakeVisible(r)
      BY <2>9 DEF Commit
    <3>2. r \in Build
      BY <2>0
    <3>3. status' \in [Experiments -> Status]
      BY <3>1 DEF TypeOK, Seen, Status, MakeVisible
    <3>4. [version |-> r.version, experiments |-> r.experiments] \in ConfigRow
      BY <3>2 DEF ConfigRow, Build
    <3>5. configs' \in [Services -> Seq(ConfigRow)]
      BY <3>1, <3>2, <3>4 DEF TypeOK, Build, MakeVisible
    <3>6. Cardinality(r.queued) \in Nat /\ Cardinality(r.expired) \in Nat
      BY <3>2, CountIsNat DEF Build
    <3>7. [config |-> r.version, queued_added_count |-> Cardinality(r.queued),
           completed_removed_count |-> Cardinality(r.expired)] \in AuditRow
      BY <3>2, <3>6 DEF AuditRow, Build
    <3>8. audit' \in [Services -> Seq(AuditRow)]
      BY <3>1, <3>2, <3>7 DEF TypeOK, Build, MakeVisible
    <3> QED
      BY <2>9, <3>3, <3>5, <3>8 DEF TypeOK, Commit
  <2> QED
    BY <1>6, <2>1, <2>2, <2>3, <2>4, <2>5, <2>6, <2>7, <2>8, <2>9 DEF BuildStep
<1>7. ASSUME NEW b \in Builders, BuildFails(b)
      PROVE  TypeOK'
  <2>1. budget' \in [patches : Nat, builds : Nat, faults : Nat]
    BY <1>7, FaultBudget DEF BuildFails
  <2> QED
    BY <1>7, <2>1, RollbackType DEF BuildFails
<1>8. CASE SchedulerScan
  BY <1>8 DEF TypeOK, SchedulerScan, rows, published
<1>9. CASE Restart
  <2>1. budget' \in [patches : Nat, builds : Nat, faults : Nat]
    BY <1>9, FaultBudget DEF Restart
  <2>2. patch' \in [Operators -> SUBSET PatchRequest]
    BY <1>9 DEF Restart
  <2>3. tx' \in [Builders -> SUBSET Build]
    BY <1>9 DEF Restart
  <2>4. agenda' = {} /\ UNCHANGED <<rows, published, clock>>
    BY <1>9 DEF Restart
  <2> QED
    BY <2>1, <2>2, <2>3, <2>4 DEF TypeOK, rows, published
<1>10. CASE Tick
  BY <1>10 DEF TypeOK, Tick, rows, published
<1>11. CASE UNCHANGED vars
  BY <1>11 DEF TypeOK, vars
<1> QED
  BY <1>1, <1>2, <1>3, <1>4, <1>5, <1>6, <1>7, <1>8, <1>9, <1>10, <1>11 DEF Next

------------------------------------------------------------------------------
(* Version numbers                                                         *)

\* What a step of a build keeps of VersionsInOrder and BuildVersions when it
\* publishes nothing: build b goes on to r with the version it had, and if it
\* has inserted its row then nobody else has.
LEMMA ContinueVersions ==
    ASSUME VersionInv, NEW b \in Builders, NEW q \in tx[b], NEW r \in Build,
           Continue(b, r), r.service = q.service, r.version = q.version,
           r.phase = "inserted" =>
             /\ r.version = Len(configs[r.service]) + 1
             /\ \A c \in Builders \ {b} : \A o \in tx[c] :
                  ~ (o.phase = "inserted" /\ o.service = r.service)
    PROVE  VersionsInOrder' /\ BuildVersions'
<1>1. configs' = configs /\ audit' = audit
  BY DEF Continue, published
<1>2. tx' = [tx EXCEPT ![b] = {r}] /\ tx \in [Builders -> SUBSET Build]
  BY DEF Continue, VersionInv, TypeOK
<1>3. VersionsInOrder'
  BY <1>1 DEF VersionInv, VersionsInOrder
<1>4. r.version \in 1 .. Len(configs[r.service]) + 1
  BY DEF VersionInv, BuildVersions
<1>5. BuildVersions'
  BY <1>1, <1>2, <1>4 DEF VersionInv, BuildVersions
<1> QED
  BY <1>3, <1>5

\* A step that publishes nothing and only ends builds keeps both.
LEMMA EndVersions ==
    ASSUME VersionInv, UNCHANGED published,
           tx' \in [Builders -> SUBSET Build],
           \A b \in Builders : tx'[b] \subseteq tx[b]
    PROVE  VersionsInOrder' /\ BuildVersions'
<1>1. configs' = configs /\ audit' = audit
  BY DEF published
<1>2. VersionsInOrder'
  BY <1>1 DEF VersionInv, VersionsInOrder
<1>3. BuildVersions'
  BY <1>1 DEF VersionInv, BuildVersions
<1> QED
  BY <1>2, <1>3

LEMMA BeginVersions ==
    ASSUME VersionInv, NEW b \in Builders, NEW s \in Services, Begin(b, s),
           UNCHANGED published
    PROVE  VersionsInOrder' /\ BuildVersions'
<1>1. configs' = configs /\ audit' = audit
  BY DEF published
<1>2. VersionsInOrder'
  BY <1>1 DEF VersionInv, VersionsInOrder
<1>3. NextVersion(s) = Len(configs[s]) + 1 /\ Len(configs[s]) \in Nat
  BY NextVersionIsFree DEF VersionInv, TypeOK
<1>4. \A c \in Builders : \A r \in tx'[c] :
        \/ r \in tx[c]
        \/ c = b /\ r.service = s /\ r.version = NextVersion(s) /\ r.phase = "begun"
  BY DEF Begin, VersionInv, TypeOK
<1>5. BuildVersions'
  BY <1>1, <1>3, <1>4 DEF VersionInv, BuildVersions
<1> QED
  BY <1>2, <1>5

LEMMA VersionStep ==
    ASSUME VersionInv, [Next]_vars
    PROVE  VersionsInOrder' /\ BuildVersions'
<1> USE DEF VersionInv
<1>0. TypeOK /\ TypeOK'
  BY TypeStep
<1>1. ASSUME NEW e \in Experiments, CreateExperiment(e)
      PROVE  VersionsInOrder' /\ BuildVersions'
  BY <1>0, <1>1, EndVersions DEF CreateExperiment, TypeOK
<1>2. ASSUME NEW p \in Operators, NEW e \in Experiments, NEW action \in Actions,
             PatchRead(p, e, action)
      PROVE  VersionsInOrder' /\ BuildVersions'
  BY <1>0, <1>2, EndVersions DEF PatchRead, TypeOK
<1>3. ASSUME NEW p \in Operators, PatchWrite(p)
      PROVE  VersionsInOrder' /\ BuildVersions'
  BY <1>0, <1>3, EndVersions DEF PatchWrite, TypeOK
<1>4. ASSUME NEW b \in Builders, NEW s \in Services, ManualBuild(b, s)
      PROVE  VersionsInOrder' /\ BuildVersions'
  BY <1>4, BeginVersions DEF ManualBuild
<1>5. ASSUME NEW s \in Services, SchedulerBuild(s)
      PROVE  VersionsInOrder' /\ BuildVersions'
  BY <1>5, BeginVersions DEF SchedulerBuild, Builders
<1>6. ASSUME NEW b \in Builders, BuildStep(b)
      PROVE  VersionsInOrder' /\ BuildVersions'
  <2>0. \A r \in tx[b] : r \in Build
    BY DEF TypeOK
  <2>1. CASE ScanExpired(b)
    BY <2>0, <2>1, ContinueVersions DEF ScanExpired, Build, Phase
  <2>2. CASE ExpireRow(b)
    BY <2>0, <2>2, ContinueVersions DEF ExpireRow, Build
  <2>3. CASE ScanQueued(b)
    BY <2>0, <2>3, ContinueVersions DEF ScanQueued, Build, Phase
  <2>4. CASE QueueRow(b)
    BY <2>0, <2>4, ContinueVersions DEF QueueRow, Build
  <2>5. CASE SelectExperiments(b)
    BY <2>0, <2>5, ContinueVersions DEF SelectExperiments, Build, Phase
  <2>6. CASE InsertVersion(b)
    <3>1. PICK q \in tx[b] :
            /\ q.phase = "selected"
            /\ ~ InsertedElsewhere(b, q)
            /\ q.version \notin Versions(q.service)
            /\ Continue(b, [q EXCEPT !.phase = "inserted"])
      BY <2>6 DEF InsertVersion
    <3> DEFINE r == [q EXCEPT !.phase = "inserted"]
    <3>2. q \in Build /\ r \in Build /\ r.service = q.service /\ r.version = q.version
      BY <2>0 DEF Build, Phase
    \* Read as at most one above the last version, and not taken: it is the next.
    <3>3. r.version = Len(configs[r.service]) + 1
      <4>1. Versions(q.service) = 1 .. Len(configs[q.service]) /\ q.service \in Services
        BY <3>2, NextVersionIsFree DEF Build
      <4>2. q.version \in 1 .. Len(configs[q.service]) + 1 /\ Len(configs[q.service]) \in Nat
        BY <4>1 DEF BuildVersions, TypeOK
      <4> QED
        BY <3>1, <3>2, <4>1, <4>2
    <3>4. \A c \in Builders \ {b} : \A o \in tx[c] :
            ~ (o.phase = "inserted" /\ o.service = r.service)
      BY <3>1, <3>2, <3>3 DEF InsertedElsewhere, BuildVersions
    <3> QED
      BY <3>1, <3>2, <3>3, <3>4, ContinueVersions
  <2>7. CASE DuplicateVersion(b)
    BY <1>0, <2>7, EndVersions DEF DuplicateVersion, Rollback, TypeOK
  <2>8. CASE DeadlockVictim(b)
    BY <1>0, <2>8, EndVersions DEF DeadlockVictim, Rollback, TypeOK
  <2>9. CASE Commit(b)
    <3>1. PICK r \in tx[b] : r.phase = "inserted" /\ MakeVisible(r)
      BY <2>9 DEF Commit
    <3> DEFINE s == r.service
               n == Len(configs[s])
               row == [config |-> n + 1, queued_added_count |-> Cardinality(r.queued),
                       completed_removed_count |-> Cardinality(r.expired)]
    <3>2. r \in Build /\ s \in Services /\ r.version = n + 1 /\ n \in Nat
      BY <2>0, <3>1 DEF BuildVersions, Build, TypeOK
    <3>3. /\ configs' = [configs EXCEPT ![s] =
                Append(@, [version |-> n + 1, experiments |-> r.experiments])]
          /\ audit' = [audit EXCEPT ![s] = Append(@, row)]
      BY <3>1, <3>2 DEF MakeVisible
    <3>4. row \in AuditRow /\ row.config = n + 1
      <4>1. Cardinality(r.queued) \in Nat /\ Cardinality(r.expired) \in Nat
        BY <3>2, CountIsNat DEF Build
      <4> QED
        BY <3>2, <4>1 DEF AuditRow
    <3> HIDE DEF row
    <3>5. /\ configs'[s] = Append(configs[s], [version |-> n + 1, experiments |-> r.experiments])
          /\ audit'[s] = Append(audit[s], row)
          /\ \A t \in Services \ {s} : configs'[t] = configs[t] /\ audit'[t] = audit[t]
      BY <3>2, <3>3, <3>4 DEF TypeOK
    <3>6. VersionsInOrder'
      <4>1. Len(audit[s]) = n /\ configs[s] \in Seq(ConfigRow) /\ audit[s] \in Seq(AuditRow)
        BY <3>2 DEF VersionsInOrder, TypeOK
      <4>2. /\ Len(configs'[s]) = n + 1 /\ Len(audit'[s]) = n + 1
            /\ \A i \in 1 .. n + 1 :
                 configs'[s][i].version = i /\ audit'[s][i].config = i
        <5>1. \A i \in 1 .. n : configs[s][i].version = i /\ audit[s][i].config = i
          BY <3>2, <4>1 DEF VersionsInOrder
        <5>0. [version |-> n + 1, experiments |-> r.experiments] \in ConfigRow
          BY <3>2 DEF ConfigRow, Build
        <5>2. Len(configs'[s]) = n + 1 /\ Len(audit'[s]) = n + 1
          BY <3>2, <3>4, <3>5, <4>1, <5>0
        <5>3. \A i \in 1 .. n : configs'[s][i] = configs[s][i] /\ audit'[s][i] = audit[s][i]
          BY <3>2, <3>4, <3>5, <4>1, <5>0
        <5>4. configs'[s][n + 1].version = n + 1 /\ audit'[s][n + 1] = row
          BY <3>2, <3>4, <3>5, <4>1, <5>0
        <5> QED
          BY <3>2, <3>4, <5>1, <5>2, <5>3, <5>4
      <4>3. DOMAIN configs'[s] = 1 .. n + 1
        BY <1>0, <3>2, <4>2 DEF TypeOK
      <4>4. \A t \in Services \ {s} : DOMAIN configs'[t] = DOMAIN configs[t]
        BY <3>5
      <4> QED
        BY <3>2, <3>5, <4>2, <4>3, <4>4 DEF VersionsInOrder
    \* The other builds of s have read at most n + 1, and none has inserted.
    <3>7. BuildVersions'
      <4>1. Len(configs'[s]) = n + 1 /\ \A t \in Services \ {s} : Len(configs'[t]) = Len(configs[t])
        BY <3>2, <3>5 DEF TypeOK
      <4>2. \A c \in Builders : tx'[c] = IF c = b THEN {} ELSE tx[c]
        BY <2>9 DEF Commit, TypeOK
      <4>3. \A c \in Builders \ {b} : \A q \in tx[c] :
              q.service = s => q.phase # "inserted" /\ q.version \in 1 .. n + 1
        BY <3>1 DEF BuildVersions
      <4>4. \A c \in Builders : \A q \in tx[c] : q.service \in Services
        BY DEF TypeOK, Build
      <4> HIDE DEF s, n
      <4> SUFFICES ASSUME NEW c \in Builders, NEW q \in tx'[c]
                   PROVE  /\ q.version \in 1 .. Len(configs'[q.service]) + 1
                          /\ q.phase = "inserted" =>
                               /\ q.version = Len(configs'[q.service]) + 1
                               /\ \A d \in Builders \ {c} : \A o \in tx'[d] :
                                    ~ (o.phase = "inserted" /\ o.service = q.service)
        BY DEF BuildVersions
      <4>5. c # b /\ q \in tx[c]
        BY <4>2
      <4>6. CASE q.service = s
        BY <3>2, <4>1, <4>3, <4>5, <4>6
      <4>7. CASE q.service # s
        BY <4>1, <4>2, <4>4, <4>5, <4>7 DEF BuildVersions
      <4> QED
        BY <4>6, <4>7
    <3> QED
      BY <3>6, <3>7
  <2> QED
    BY <1>6, <2>1, <2>2, <2>3, <2>4, <2>5, <2>6, <2>7, <2>8, <2>9 DEF BuildStep
<1>7. ASSUME NEW b \in Builders, BuildFails(b)
      PROVE  VersionsInOrder' /\ BuildVersions'
  BY <1>0, <1>7, EndVersions DEF BuildFails, Rollback, TypeOK
<1>8. CASE SchedulerScan
  BY <1>0, <1>8, EndVersions DEF SchedulerScan, TypeOK
<1>9. CASE Restart
  BY <1>0, <1>9, EndVersions DEF Restart, TypeOK
<1>10. CASE Tick
  BY <1>0, <1>10, EndVersions DEF Tick, TypeOK
<1>11. CASE UNCHANGED vars
  BY <1>0, <1>11, EndVersions DEF vars, published, TypeOK
<1> QED
  BY <1>1, <1>2, <1>3, <1>4, <1>5, <1>6, <1>7, <1>8, <1>9, <1>10, <1>11 DEF Next

LEMMA InitVersions == Init => VersionInv
<1> SUFFICES ASSUME Init PROVE VersionInv
  OBVIOUS
<1>1. TypeOK
  BY BoundAssumption DEF Init, TypeOK, Status
<1>2. VersionsInOrder
  BY DEF Init, VersionsInOrder
<1>3. BuildVersions
  BY DEF Init, BuildVersions
<1> QED
  BY <1>1, <1>2, <1>3 DEF VersionInv

\* The version numbers stand on the types, and the other way round: MAX + 1 is
\* a number because the committed versions are 1 .. n.
THEOREM VersionInvariant == Spec => []VersionInv
<1>1. VersionInv /\ [Next]_vars => VersionInv'
  BY TypeStep, VersionStep DEF VersionInv
<1> QED
  BY <1>1, InitVersions, PTL DEF Spec

\* Every variable stays in its type, for any experiments, services, operators,
\* admins and bounds.
THEOREM TypeCorrect == Spec => []TypeOK
<1>1. VersionInv => TypeOK
  BY DEF VersionInv
<1> QED
  BY <1>1, VersionInvariant, PTL

\* Whatever builds overlap, fail or are cut off, the versions of a service are
\* 1, 2, 3, ... with one audit row each.
THEOREM VersionsAreInOrder == Spec => []VersionsInOrder
<1>1. VersionInv => VersionsInOrder
  BY DEF VersionInv
<1> QED
  BY <1>1, VersionInvariant, PTL

==============================================================================

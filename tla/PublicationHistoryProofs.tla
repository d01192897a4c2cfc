------------------------ MODULE PublicationHistoryProofs ------------------------
(* What row locks and version numbers give together: windows that are written
   once, a history that is kept, the order of the lifecycle for one operator,
   and that ConfigPublication implements PublicationHistory, and through it
   ConfigFeed for each service. *)
EXTENDS ConfigPublicationProofs

USE DEF NULL

------------------------------------------------------------------------------
(* Row locks                                                               *)

\* Build b goes on to r: the invariant needs only be checked for the rows of r.
LEMMA ContinueRows ==
    ASSUME TypeOK, RowsHeldStill, NEW b \in Builders, NEW r \in Build, Continue(b, r),
           \A e \in Experiments :
             /\ e \in r.expired => Expired(e, r.service, r.now)
             /\ e \in r.queued => Queued(e, r.service)
             /\ e \in Touched(r) => ~ LockedByOther(b, e)
    PROVE  RowsHeldStill'
<1>1. \A c \in Builders : tx'[c] = IF c = b THEN {r} ELSE tx[c]
  BY DEF Continue, TypeOK
<1>2. \A e \in Experiments : \A s, now : (Expired(e, s, now)' <=> Expired(e, s, now))
                                     /\ (Queued(e, s)' <=> Queued(e, s))
  BY DEF Continue, rows, Expired, Queued
<1>3. \A e \in Experiments : LockedByOther(b, e)' <=> LockedByOther(b, e)
  BY <1>1 DEF LockedByOther, Locks
<1>4. ASSUME NEW c \in Builders \ {b}, NEW q \in tx[c], NEW e \in Experiments, e \in Touched(q)
      PROVE  ~ LockedByOther(c, e)'
  <2>1. ~ LockedByOther(c, e)
    BY <1>4 DEF RowsHeldStill
  <2>2. LockedByOther(b, e)
    BY <1>4 DEF LockedByOther, Locks
  <2>3. e \notin Touched(r)
    BY <2>2
  <2> QED
    BY <1>1, <2>1, <2>3 DEF LockedByOther, Locks
<1> SUFFICES ASSUME NEW c \in Builders, NEW q \in tx'[c], NEW e \in Experiments
             PROVE  /\ e \in q.expired => Expired(e, q.service, q.now)'
                    /\ e \in q.queued => Queued(e, q.service)'
                    /\ e \in Touched(q) => ~ LockedByOther(c, e)'
  BY DEF RowsHeldStill, Touched, Expired, Queued
<1>5. CASE c = b
  BY <1>1, <1>2, <1>3, <1>5
<1>6. CASE c # b
  BY <1>1, <1>2, <1>4, <1>6 DEF RowsHeldStill
<1> QED
  BY <1>5, <1>6

\* In particular, a build that takes no row.
LEMMA SameRows ==
    ASSUME TypeOK, RowsHeldStill, NEW b \in Builders, NEW q \in tx[b], NEW r \in Build,
           Continue(b, r), r.service = q.service, r.now = q.now,
           r.expired = q.expired, r.queued = q.queued
    PROVE  RowsHeldStill'
<1>1. \A e \in Experiments :
        /\ e \in r.expired => Expired(e, r.service, r.now)
        /\ e \in r.queued => Queued(e, r.service)
        /\ e \in Touched(r) => ~ LockedByOther(b, e)
  BY DEF RowsHeldStill, Touched
<1> QED
  BY <1>1, ContinueRows

\* No build takes a row, and whatever rows are still held have not changed.
LEMMA OthersKeepRows ==
    ASSUME RowsHeldStill,
           \A c \in Builders : \A q \in tx'[c] :
             \/ Touched(q) = {} /\ q.expired = {} /\ q.queued = {}
             \/ /\ q \in tx[c]
                /\ \A e \in Touched(q) : status'[e] = status[e] /\ endAt'[e] = endAt[e]
    PROVE  RowsHeldStill'
<1> SUFFICES ASSUME NEW c \in Builders, NEW q \in tx'[c], NEW e \in Experiments, e \in Touched(q)
             PROVE  /\ e \in q.expired => Expired(e, q.service, q.now)'
                    /\ e \in q.queued => Queued(e, q.service)'
                    /\ ~ LockedByOther(c, e)'
  BY DEF RowsHeldStill, Touched, Expired, Queued
<1>1. q \in tx[c] /\ status'[e] = status[e] /\ endAt'[e] = endAt[e]
  OBVIOUS
<1>2. /\ e \in q.expired => Expired(e, q.service, q.now)
      /\ e \in q.queued => Queued(e, q.service)
      /\ ~ LockedByOther(c, e)
  BY <1>1 DEF RowsHeldStill
<1>3. ~ LockedByOther(c, e)'
  BY <1>2 DEF LockedByOther, Locks
<1> QED
  BY <1>1, <1>2, <1>3 DEF Expired, Queued

LEMMA RowsStep ==
    ASSUME TypeOK, RowsHeldStill, [Next]_vars
    PROVE  RowsHeldStill'
<1>1. ASSUME NEW e \in Experiments, CreateExperiment(e)
      PROVE  RowsHeldStill'
  <2>1. \A c \in Builders : \A q \in tx[c] : e \notin Touched(q)
    BY <1>1 DEF CreateExperiment, RowsHeldStill, Touched, Expired, Queued
  <2>2. tx' = tx /\ endAt' = endAt /\ \A x \in Experiments \ {e} : status'[x] = status[x]
    BY <1>1 DEF CreateExperiment, TypeOK
  <2> QED
    BY <2>1, <2>2, OthersKeepRows DEF TypeOK, Build, Touched
<1>2. ASSUME NEW p \in Operators, NEW e \in Experiments, NEW action \in Actions,
             PatchRead(p, e, action)
      PROVE  RowsHeldStill'
  BY <1>2, OthersKeepRows DEF PatchRead, rows
<1>3. ASSUME NEW p \in Operators, PatchWrite(p)
      PROVE  RowsHeldStill'
  <2>1. PICK r \in patch[p] : \E now \in r.at .. clock : UpdateStatus(r, now)
    BY <1>3 DEF PatchWrite
  <2>2. /\ ~ Locked(r.experiment)
        /\ \A x \in Experiments \ {r.experiment} : status'[x] = status[x] /\ endAt'[x] = endAt[x]
    BY <2>1 DEF UpdateStatus, TypeOK
  <2>3. \A c \in Builders : \A q \in tx[c] : r.experiment \notin Touched(q)
    BY <2>2 DEF Locked, Locks
  <2> QED
    BY <1>3, <2>2, <2>3, OthersKeepRows DEF PatchWrite, TypeOK, Build, Touched
<1>4. ASSUME NEW b \in Builders, NEW s \in Services, Begin(b, s), UNCHANGED rows
      PROVE  RowsHeldStill'
  BY <1>4, OthersKeepRows DEF Begin, rows, TypeOK, Touched
<1>5. ASSUME NEW b \in Builders, BuildStep(b)
      PROVE  RowsHeldStill'
  <2>0. /\ tx[b] \in SUBSET Build
        /\ \A q \in tx[b] : \A e \in Experiments :
             /\ e \in q.expired => Expired(e, q.service, q.now)
             /\ e \in q.queued => Queued(e, q.service)
             /\ e \in Touched(q) => ~ LockedByOther(b, e)
    BY DEF TypeOK, RowsHeldStill
  <2>1. CASE ScanExpired(b)
    <3>1. PICK q \in tx[b] :
            Continue(b, [q EXCEPT !.phase = "expiring",
                                  !.todo = {e \in Experiments : Expired(e, q.service, q.now)}])
      BY <2>1 DEF ScanExpired
    <3> DEFINE r == [q EXCEPT !.phase = "expiring",
                              !.todo = {e \in Experiments : Expired(e, q.service, q.now)}]
    <3>2. /\ r \in Build /\ r.service = q.service /\ r.now = q.now
          /\ r.expired = q.expired /\ r.queued = q.queued
      BY <2>0 DEF Build, Phase
    <3> QED
      BY <3>1, <3>2, SameRows
  <2>2. CASE ExpireRow(b)
    <3>1. PICK q \in tx[b] : \E e \in q.todo :
            /\ ~ LockedByOther(b, e)
            /\ Continue(b, [q EXCEPT !.todo = @ \ {e},
                                     !.expired = @ \cup {x \in {e} : Expired(x, q.service, q.now)}])
      BY <2>2 DEF ExpireRow
    <3>2. PICK e \in q.todo :
            /\ ~ LockedByOther(b, e)
            /\ Continue(b, [q EXCEPT !.todo = @ \ {e},
                                     !.expired = @ \cup {x \in {e} : Expired(x, q.service, q.now)}])
      BY <3>1
    <3> DEFINE r == [q EXCEPT !.todo = @ \ {e},
                              !.expired = @ \cup {x \in {e} : Expired(x, q.service, q.now)}]
    <3>3. /\ r \in Build /\ r.service = q.service /\ r.now = q.now /\ r.queued = q.queued
          /\ r.expired = q.expired \cup {x \in {e} : Expired(x, q.service, q.now)}
      BY <2>0 DEF Build
    <3> HIDE DEF r
    <3> QED
      BY <2>0, <3>2, <3>3, ContinueRows DEF Touched, r
  <2>3. CASE ScanQueued(b)
    <3>1. PICK q \in tx[b] :
            Continue(b, [q EXCEPT !.phase = "queueing",
                                  !.todo = {e \in Experiments : Queued(e, q.service)}])
      BY <2>3 DEF ScanQueued
    <3> DEFINE r == [q EXCEPT !.phase = "queueing",
                              !.todo = {e \in Experiments : Queued(e, q.service)}]
    <3>2. /\ r \in Build /\ r.service = q.service /\ r.now = q.now
          /\ r.expired = q.expired /\ r.queued = q.queued
      BY <2>0 DEF Build, Phase
    <3> QED
      BY <3>1, <3>2, SameRows
  <2>4. CASE QueueRow(b)
    <3>1. PICK q \in tx[b] : \E e \in q.todo :
            /\ ~ LockedByOther(b, e)
            /\ Continue(b, [q EXCEPT !.todo = @ \ {e},
                                     !.queued = @ \cup {x \in {e} : Queued(x, q.service)}])
      BY <2>4 DEF QueueRow
    <3>2. PICK e \in q.todo :
            /\ ~ LockedByOther(b, e)
            /\ Continue(b, [q EXCEPT !.todo = @ \ {e},
                                     !.queued = @ \cup {x \in {e} : Queued(x, q.service)}])
      BY <3>1
    <3> DEFINE r == [q EXCEPT !.todo = @ \ {e},
                              !.queued = @ \cup {x \in {e} : Queued(x, q.service)}]
    <3>3. /\ r \in Build /\ r.service = q.service /\ r.now = q.now /\ r.expired = q.expired
          /\ r.queued = q.queued \cup {x \in {e} : Queued(x, q.service)}
      BY <2>0 DEF Build
    <3> HIDE DEF r
    <3> QED
      BY <2>0, <3>2, <3>3, ContinueRows DEF Touched, r
  <2>5. CASE SelectExperiments(b)
    <3>1. PICK q \in tx[b] :
            Continue(b, [q EXCEPT !.phase = "selected",
                                  !.experiments = {e \in Experiments : ServiceOf[e] = q.service /\ Seen(q, e) \in ServedStatus}])
      BY <2>5 DEF SelectExperiments
    <3> DEFINE r == [q EXCEPT !.phase = "selected",
                              !.experiments = {e \in Experiments : ServiceOf[e] = q.service /\ Seen(q, e) \in ServedStatus}]
    <3>2. /\ r \in Build /\ r.service = q.service /\ r.now = q.now
          /\ r.expired = q.expired /\ r.queued = q.queued
      BY <2>0 DEF Build, Phase
    <3> QED
      BY <3>1, <3>2, SameRows
  <2>6. CASE InsertVersion(b)
    BY <2>0, <2>6, ContinueRows DEF InsertVersion, Build, Phase, Touched
  <2>7. CASE DuplicateVersion(b)
    BY <2>7, OthersKeepRows DEF DuplicateVersion, Rollback, rows, TypeOK
  <2>8. CASE DeadlockVictim(b)
    BY <2>8, OthersKeepRows DEF DeadlockVictim, Rollback, rows, TypeOK
  <2>9. CASE Commit(b)
    <3>1. PICK r \in tx[b] : r.phase = "inserted" /\ MakeVisible(r)
      BY <2>9 DEF Commit
    <3>2. \A e \in Experiments \ Touched(r) : status'[e] = status[e]
      BY <3>1 DEF MakeVisible, Seen, Touched
    <3>3. \A c \in Builders \ {b} : \A q \in tx[c] : \A e \in Touched(q) :
            e \in Experiments /\ e \notin Touched(r)
      BY <2>0 DEF LockedByOther, Locks, TypeOK, Build, Touched
    <3>4. endAt' = endAt /\ \A c \in Builders : tx'[c] = IF c = b THEN {} ELSE tx[c]
      BY <2>9 DEF Commit, TypeOK
    <3> QED
      BY <3>2, <3>3, <3>4, OthersKeepRows
  <2> QED
    BY <1>5, <2>1, <2>2, <2>3, <2>4, <2>5, <2>6, <2>7, <2>8, <2>9 DEF BuildStep
<1>6. ASSUME NEW b \in Builders, BuildFails(b)
      PROVE  RowsHeldStill'
  BY <1>6, OthersKeepRows DEF BuildFails, Rollback, rows, TypeOK
<1>7. CASE SchedulerScan
  BY <1>7, OthersKeepRows DEF SchedulerScan, rows
<1>8. CASE Restart
  BY <1>8, OthersKeepRows DEF Restart, rows
<1>9. CASE Tick
  BY <1>9, OthersKeepRows DEF Tick, rows
<1>10. CASE UNCHANGED vars
  BY <1>10, OthersKeepRows DEF vars
<1>11. ASSUME NEW b \in Builders, NEW s \in Services, ManualBuild(b, s)
       PROVE  RowsHeldStill'
  BY <1>4, <1>11 DEF ManualBuild
<1>12. ASSUME NEW s \in Services, SchedulerBuild(s)
       PROVE  RowsHeldStill'
  BY <1>4, <1>12 DEF SchedulerBuild, Builders
<1> QED
  BY <1>1, <1>2, <1>3, <1>5, <1>6, <1>7, <1>8, <1>9, <1>10, <1>11, <1>12 DEF Next

\* A row that an open build has updated does not change under it and is not
\* taken by another build, for any number of operators and admins.
THEOREM RowsAreHeldStill == Spec => []RowsHeldStill
<1>1. Init => RowsHeldStill
  BY DEF Init, RowsHeldStill
<1>2. TypeOK /\ RowsHeldStill /\ [Next]_vars => RowsHeldStill'
  BY RowsStep
<1> QED
  BY <1>1, <1>2, TypeCorrect, PTL DEF Spec

------------------------------------------------------------------------------
(* Experiment windows                                                      *)

\* What a PATCH that has read carries: the experiment exists, the status it
\* will write is the target of a transition, and if that is a status past
\* RUNNING then the experiment has been started, whatever happens meanwhile.
PatchInv ==
    \A p \in Operators : \A r \in patch[p] :
        /\ status[r.experiment] # "NONE"
        /\ \E t \in kTransitions : r.to = t.to
        /\ r.to \in StartedStatus \ {"RUNNING"} => startAt[r.experiment] # NULL

WindowInv == WindowComplete /\ PatchInv

\* A step that touches no row and starts no PATCH keeps the windows.
LEMMA SameWindows ==
    ASSUME TypeOK, WindowInv, UNCHANGED rows,
           \A p \in Operators : patch'[p] \subseteq patch[p]
    PROVE  WindowInv'
<1>1. status' = status /\ startAt' = startAt /\ endAt' = endAt
  BY DEF rows
<1> QED
  BY <1>1 DEF WindowInv, WindowComplete, PatchInv

\* An UPDATE to RUNNING sets both ends or neither; one to COMPLETED finds them set.
LEMMA UpdateWindow ==
    ASSUME TypeOK, WindowInv, NEW p \in Operators, NEW r \in patch[p],
           NEW now \in r.at .. clock, UpdateStatus(r, now)
    PROVE  /\ \A e \in Experiments : startAt[e] # NULL => startAt'[e] = startAt[e] /\ endAt'[e] = endAt[e]
           /\ \A e \in Experiments : status[e] # "NONE" => status'[e] # "NONE"
           /\ WindowComplete'
<1> DEFINE x == r.experiment
<1>1. x \in Experiments /\ now \in Nat /\ now + Duration \in Nat
  BY BoundAssumption DEF TypeOK, PatchRequest
<1>2. \A e \in Experiments \ {x} :
        status'[e] = status[e] /\ startAt'[e] = startAt[e] /\ endAt'[e] = endAt[e]
  BY DEF UpdateStatus, TypeOK
<1>3. /\ status'[x] = r.to
      /\ startAt'[x] = IF r.to = "RUNNING" THEN Coalesce(startAt[x], now) ELSE startAt[x]
      /\ endAt'[x] = CASE r.to = "RUNNING"   -> Coalesce(endAt[x], now + Duration)
                       [] r.to = "COMPLETED" -> Coalesce(endAt[x], now)
                       [] OTHER              -> endAt[x]
  BY <1>1 DEF UpdateStatus, TypeOK
<1>4. /\ startAt[x] \in Nat \cup {NULL}
      /\ startAt[x] # NULL => endAt[x] = startAt[x] + Duration /\ endAt[x] # NULL
      /\ startAt[x] = NULL => endAt[x] = NULL
  <2>1. startAt[x] \in Nat \cup {NULL} /\ Duration \in Nat
    BY <1>1, BoundAssumption DEF TypeOK
  <2>2. /\ startAt[x] # NULL => endAt[x] = startAt[x] + Duration
        /\ startAt[x] = NULL => endAt[x] = NULL
    BY <1>1 DEF WindowInv, WindowComplete
  <2> QED
    BY <2>1, <2>2
<1>5. r.to # "NONE" /\ (r.to \in StartedStatus \ {"RUNNING"} => startAt[x] # NULL)
  BY DEF WindowInv, PatchInv, kTransitions
<1>6. startAt[x] # NULL => startAt'[x] = startAt[x] /\ endAt'[x] = endAt[x]
  BY <1>3, <1>4 DEF Coalesce
<1>7. CASE r.to = "RUNNING"
  <2>1. startAt'[x] # NULL /\ endAt'[x] = startAt'[x] + Duration
    <3>1. startAt'[x] = Coalesce(startAt[x], now) /\ endAt'[x] = Coalesce(endAt[x], now + Duration)
      BY <1>3, <1>7
    <3>2. CASE startAt[x] = NULL
      BY <1>1, <1>4, <3>1, <3>2 DEF Coalesce
    <3>3. CASE startAt[x] # NULL
      BY <1>4, <3>1, <3>3 DEF Coalesce
    <3> QED
      BY <3>2, <3>3
  <2> QED
    BY <1>2, <1>3, <1>5, <1>6, <2>1 DEF WindowInv, WindowComplete
<1>8. CASE r.to # "RUNNING"
  <2>1. startAt'[x] = startAt[x] /\ endAt'[x] = endAt[x]
    BY <1>3, <1>4, <1>5, <1>8 DEF Coalesce, StartedStatus
  <2> QED
    BY <1>2, <1>3, <1>4, <1>5, <1>6, <1>8, <2>1 DEF WindowInv, WindowComplete
<1> QED
  BY <1>7, <1>8

LEMMA WindowStep ==
    ASSUME TypeOK, RowsHeldStill, WindowInv, [Next]_vars
    PROVE  WindowInv'
<1>1. ASSUME NEW e \in Experiments, CreateExperiment(e)
      PROVE  WindowInv'
  <2>1. /\ status' = [status EXCEPT ![e] = "DRAFT"] /\ startAt' = startAt /\ endAt' = endAt
        /\ patch' = patch /\ status \in [Experiments -> Status]
        /\ \A p \in Operators : \A r \in patch[p] : r.experiment \in Experiments
    BY <1>1 DEF CreateExperiment, TypeOK, PatchRequest
  <2> QED
    BY <2>1 DEF WindowInv, WindowComplete, PatchInv, StartedStatus
<1>2. ASSUME NEW p \in Operators, NEW e \in Experiments, NEW action \in Actions,
             PatchRead(p, e, action)
      PROVE  WindowInv'
  <2>1. PICK t \in FindTransition(status[e], action) :
          patch' = [patch EXCEPT ![p] = {[experiment |-> e, to |-> t.to, at |-> clock]}]
    BY <1>2 DEF PatchRead
  <2>2. /\ status' = status /\ startAt' = startAt /\ endAt' = endAt
        /\ status[e] # "NONE" /\ patch \in [Operators -> SUBSET PatchRequest]
    BY <1>2 DEF PatchRead, rows, TypeOK
  <2>3. t \in kTransitions /\ (t.to \in StartedStatus \ {"RUNNING"} => status[e] \in StartedStatus)
    BY DEF FindTransition, kTransitions, StartedStatus
  <2>4. t.to \in StartedStatus \ {"RUNNING"} => startAt[e] # NULL
    BY <2>3 DEF WindowInv, WindowComplete
  <2> QED
    BY <2>1, <2>2, <2>3, <2>4 DEF WindowInv, WindowComplete, PatchInv
<1>3. ASSUME NEW p \in Operators, PatchWrite(p)
      PROVE  WindowInv'
  <2>1. PICK r \in patch[p] : \E now \in r.at .. clock : UpdateStatus(r, now)
    BY <1>3 DEF PatchWrite
  <2>2. PICK now \in r.at .. clock : UpdateStatus(r, now)
    BY <2>1
  <2>3. \A q \in Operators : patch'[q] \subseteq patch[q] /\ patch[q] \subseteq PatchRequest
    BY <1>3 DEF PatchWrite, TypeOK
  <2>4. PatchInv'
    BY <2>2, <2>3, UpdateWindow DEF WindowInv, PatchInv, PatchRequest
  <2> QED
    BY <2>2, <2>4, UpdateWindow DEF WindowInv
<1>4. ASSUME NEW b \in Builders, BuildStep(b)
      PROVE  WindowInv'
  <2>1. CASE Commit(b)
    <3>1. PICK r \in tx[b] : MakeVisible(r)
      BY <2>1 DEF Commit
    <3>2. \A e \in Experiments :
            \/ status'[e] = status[e]
            \/ status'[e] = "ADDED_IN_CONFIG"
            \/ status'[e] = "COMPLETED" /\ status[e] = "RUNNING"
      BY <3>1 DEF MakeVisible, Seen, RowsHeldStill, Expired
    <3>3. startAt' = startAt /\ endAt' = endAt /\ patch' = patch
          /\ \A p \in Operators : \A q \in patch[p] : q.experiment \in Experiments
      BY <2>1 DEF Commit, TypeOK, PatchRequest
    <3>4. WindowComplete'
      BY <3>2, <3>3 DEF WindowInv, WindowComplete, StartedStatus
    <3>5. PatchInv'
      BY <3>2, <3>3 DEF WindowInv, PatchInv
    <3> QED
      BY <3>4, <3>5 DEF WindowInv
  <2>2. CASE ~ Commit(b)
    <3>1. UNCHANGED <<rows, patch>>
      BY <1>4, <2>2 DEF BuildStep, ScanExpired, ExpireRow, ScanQueued, QueueRow, SelectExperiments,
                        InsertVersion, Continue, DuplicateVersion, DeadlockVictim, Rollback
    <3> QED
      BY <3>1, SameWindows
  <2> QED
    BY <2>1, <2>2
<1>5. ASSUME NEW b \in Builders, BuildFails(b)
      PROVE  WindowInv'
  BY <1>5, SameWindows DEF BuildFails, Rollback
<1>6. ASSUME NEW b \in Builders, NEW s \in Services, ManualBuild(b, s)
      PROVE  WindowInv'
  BY <1>6, SameWindows DEF ManualBuild
<1>7. ASSUME NEW s \in Services, SchedulerBuild(s)
      PROVE  WindowInv'
  BY <1>7, SameWindows DEF SchedulerBuild
<1>8. CASE SchedulerScan
  BY <1>8, SameWindows DEF SchedulerScan
<1>9. CASE Restart
  BY <1>9, SameWindows DEF Restart
<1>10. CASE Tick
  BY <1>10, SameWindows DEF Tick
<1>11. CASE UNCHANGED vars
  BY <1>11, SameWindows DEF vars, rows
<1> QED
  BY <1>1, <1>2, <1>3, <1>4, <1>5, <1>6, <1>7, <1>8, <1>9, <1>10, <1>11 DEF Next

LEMMA WindowInvariant == Spec => []WindowInv
<1>1. Init => WindowInv
  BY DEF Init, WindowInv, WindowComplete, PatchInv, StartedStatus
<1>2. TypeOK /\ RowsHeldStill /\ WindowInv /\ [Next]_vars => WindowInv'
  BY WindowStep
<1> QED
  BY <1>1, <1>2, TypeCorrect, RowsAreHeldStill, PTL DEF Spec

\* An experiment that was ever started has both ends of its window,
\* duration_days apart, whatever PATCHes and builds race.
THEOREM WindowsAreComplete == Spec => []WindowComplete
<1>1. WindowInv => WindowComplete
  BY DEF WindowInv
<1> QED
  BY <1>1, WindowInvariant, PTL

------------------------------------------------------------------------------
(* Write-once windows, append-only configs                                 *)

\* The builds' only step that reaches the tables is Commit.
LEMMA OnlyCommitPublishes ==
    ASSUME NEW b \in Builders, BuildStep(b), ~ Commit(b)
    PROVE  UNCHANGED <<rows, published, patch>>
BY DEF BuildStep, ScanExpired, ExpireRow, ScanQueued, QueueRow, SelectExperiments,
       InsertVersion, Continue, DuplicateVersion, DeadlockVictim, Rollback

LEMMA StepKeepsHistory ==
    ASSUME TypeOK, WindowInv, [Next]_vars
    PROVE  HistoryStep
<1>0. \A s \in Services : configs[s] \in Seq(ConfigRow) /\ Len(configs[s]) \in Nat
  BY DEF TypeOK
<1>1. ASSUME UNCHANGED <<startAt, endAt, configs>>
      PROVE  HistoryStep
  BY <1>0, <1>1 DEF HistoryStep
<1>2. ASSUME NEW p \in Operators, PatchWrite(p)
      PROVE  HistoryStep
  <2>1. PICK r \in patch[p] : \E now \in r.at .. clock : UpdateStatus(r, now)
    BY <1>2 DEF PatchWrite
  <2>2. \A e \in Experiments :
          startAt[e] # NULL => startAt'[e] = startAt[e] /\ endAt'[e] = endAt[e]
    BY <2>1, UpdateWindow
  <2>3. configs' = configs
    BY <1>2 DEF PatchWrite, published
  <2> QED
    BY <1>0, <2>2, <2>3 DEF HistoryStep
<1>3. ASSUME NEW b \in Builders, Commit(b)
      PROVE  HistoryStep
  <2>1. PICK r \in tx[b] : MakeVisible(r)
    BY <1>3 DEF Commit
  <2> DEFINE row == [version |-> r.version, experiments |-> r.experiments]
  <2>2. r \in Build /\ r.service \in Services /\ row \in ConfigRow
    BY DEF TypeOK, Build, ConfigRow
  <2>3. configs' = [configs EXCEPT ![r.service] = Append(@, row)]
    BY <2>1 DEF MakeVisible
  <2> HIDE DEF row
  <2>4. \A s \in Services : configs'[s] = IF s = r.service THEN Append(configs[s], row) ELSE configs[s]
    BY <2>3 DEF TypeOK
  <2>5. \A s \in Services : /\ Len(configs'[s]) >= Len(configs[s])
                            /\ \A i \in DOMAIN configs[s] : configs'[s][i] = configs[s][i]
    <3> SUFFICES ASSUME NEW s \in Services
                 PROVE  /\ Len(configs'[s]) >= Len(configs[s])
                        /\ \A i \in DOMAIN configs[s] : configs'[s][i] = configs[s][i]
      OBVIOUS
    <3> DEFINE log == configs[s]
    <3>1. log \in Seq(ConfigRow) /\ Len(log) \in Nat
      BY <1>0
    <3>2. configs'[s] = log \/ configs'[s] = Append(log, row)
      BY <2>4
    <3> HIDE DEF log
    <3>3. CASE configs'[s] = log
      BY <3>1, <3>3 DEF log
    <3>4. CASE configs'[s] = Append(log, row)
      BY <2>2, <3>1, <3>4 DEF log
    <3> QED
      BY <3>2, <3>3, <3>4
  <2> QED
    BY <1>3, <2>5 DEF Commit, HistoryStep
<1>4. ASSUME NEW b \in Builders, BuildStep(b)
      PROVE  HistoryStep
  BY <1>1, <1>3, <1>4, OnlyCommitPublishes DEF rows, published
<1>5. ASSUME NEW e \in Experiments, CreateExperiment(e)
      PROVE  HistoryStep
  BY <1>1, <1>5 DEF CreateExperiment, published
<1>6. ASSUME NEW p \in Operators, NEW e \in Experiments, NEW action \in Actions,
             PatchRead(p, e, action)
      PROVE  HistoryStep
  BY <1>1, <1>6 DEF PatchRead, rows, published
<1>7. ASSUME NEW b \in Builders, NEW s \in Services, ManualBuild(b, s)
      PROVE  HistoryStep
  BY <1>1, <1>7 DEF ManualBuild, rows, published
<1>8. ASSUME NEW s \in Services, SchedulerBuild(s)
      PROVE  HistoryStep
  BY <1>1, <1>8 DEF SchedulerBuild, rows, published
<1>9. ASSUME NEW b \in Builders, BuildFails(b)
      PROVE  HistoryStep
  BY <1>1, <1>9 DEF BuildFails, Rollback, rows, published
<1>10. CASE SchedulerScan \/ Restart \/ Tick \/ UNCHANGED vars
  BY <1>1, <1>10 DEF SchedulerScan, Restart, Tick, rows, published, vars
<1> QED
  BY <1>2, <1>4, <1>5, <1>6, <1>7, <1>8, <1>9, <1>10 DEF Next

\* No interleaving of PATCHes, builds, failures and restarts rewrites the
\* window of an experiment or a published config.
THEOREM HistoryIsKept == Spec => HistoryKept
<1>1. TypeOK /\ WindowInv /\ [Next]_vars => [HistoryStep]_vars
  BY StepKeepsHistory
<1> QED
  BY <1>1, TypeCorrect, WindowInvariant, PTL DEF Spec, HistoryKept

------------------------------------------------------------------------------
(* ConfigPublication implements PublicationHistory                         *)

\* What a build is about to publish: all it has queued, nothing it has
\* completed, and nothing that is still a draft, although operators may have
\* moved the rows it only read.
SnapshotInv ==
    \A b \in Builders : \A r \in tx[b] : r.phase \in {"selected", "inserted"} =>
        /\ r.queued \subseteq r.experiments
        /\ r.experiments \cap r.expired = {}
        /\ \A e \in r.experiments :
             ServiceOf[e] = r.service /\ status[e] \notin {"NONE", "DRAFT"}

\* An experiment that has left the draft stage never returns to it.
LEMMA DraftIsLeftForGood ==
    ASSUME TypeOK, WindowInv, [Next]_vars, NEW e \in Experiments,
           status[e] \notin {"NONE", "DRAFT"}
    PROVE  status'[e] \notin {"NONE", "DRAFT"}
<1>1. ASSUME NEW x \in Experiments, CreateExperiment(x)
      PROVE  status'[e] = status[e]
  BY <1>1 DEF CreateExperiment, TypeOK
<1>2. ASSUME NEW p \in Operators, PatchWrite(p)
      PROVE  status'[e] \notin {"NONE", "DRAFT"}
  <2>1. PICK r \in patch[p] : \E now \in r.at .. clock : UpdateStatus(r, now)
    BY <1>2 DEF PatchWrite
  <2>2. PICK t \in kTransitions : r.to = t.to
    BY DEF WindowInv, PatchInv
  <2>3. r.to \notin {"NONE", "DRAFT"}
    BY <2>2 DEF kTransitions
  <2> QED
    BY <2>1, <2>3 DEF UpdateStatus, TypeOK
<1>3. ASSUME NEW b \in Builders, Commit(b)
      PROVE  status'[e] \notin {"NONE", "DRAFT"}
  BY <1>3 DEF Commit, MakeVisible, Seen
<1>4. ASSUME NEW b \in Builders, BuildStep(b), ~ Commit(b)
      PROVE  status'[e] = status[e]
  BY <1>4, OnlyCommitPublishes DEF rows
<1>5. ASSUME \/ \E p \in Operators, x \in Experiments, action \in Actions : PatchRead(p, x, action)
             \/ \E b \in Builders, s \in Services : ManualBuild(b, s)
             \/ \E s \in Services : SchedulerBuild(s)
             \/ \E b \in Builders : BuildFails(b)
             \/ SchedulerScan
             \/ Restart
             \/ Tick
             \/ UNCHANGED vars
      PROVE  status'[e] = status[e]
  BY <1>5 DEF PatchRead, ManualBuild, SchedulerBuild, BuildFails, Rollback,
              SchedulerScan, Restart, Tick, rows, vars
<1> QED
  BY <1>1, <1>2, <1>3, <1>4, <1>5 DEF Next

\* Every build after the step is one from before, or has just begun, or has
\* taken a row, or has made the snapshot SnapshotInv describes.
LEMMA SnapshotStep ==
    ASSUME TypeOK, RowsHeldStill, WindowInv, SnapshotInv, [Next]_vars
    PROVE  SnapshotInv'
<1>1. ASSUME \A b \in Builders : \A r \in tx'[b] :
                \/ r \in tx[b]
                \/ r.phase \in {"begun", "expiring", "queueing"}
      PROVE  SnapshotInv'
  <2> SUFFICES ASSUME NEW b \in Builders, NEW r \in tx'[b], r.phase \in {"selected", "inserted"}
               PROVE  /\ r.queued \subseteq r.experiments
                      /\ r.experiments \cap r.expired = {}
                      /\ \A e \in r.experiments :
                           ServiceOf[e] = r.service /\ status'[e] \notin {"NONE", "DRAFT"}
    BY DEF SnapshotInv
  <2>1. r \in tx[b] /\ r \in Build
    BY <1>1 DEF TypeOK
  <2>2. r.experiments \subseteq Experiments
    BY <2>1 DEF Build
  <2> QED
    BY <2>1, <2>2, DraftIsLeftForGood DEF SnapshotInv
<1>2. ASSUME NEW b \in Builders, BuildStep(b)
      PROVE  SnapshotInv'
  <2>0. tx[b] \in SUBSET Build /\ tx \in [Builders -> SUBSET Build]
    BY DEF TypeOK
  <2>1. CASE ScanExpired(b) \/ ExpireRow(b) \/ ScanQueued(b) \/ QueueRow(b)
    <3>1. \E r \in Build : r.phase \in {"expiring", "queueing"} /\ tx' = [tx EXCEPT ![b] = {r}]
      <4>1. CASE ScanExpired(b)
        BY <2>0, <4>1 DEF ScanExpired, Continue, Build, Phase
      <4>2. CASE ExpireRow(b)
        BY <2>0, <4>2 DEF ExpireRow, Continue, Build, Phase
      <4>3. CASE ScanQueued(b)
        BY <2>0, <4>3 DEF ScanQueued, Continue, Build, Phase
      <4>4. CASE QueueRow(b)
        BY <2>0, <4>4 DEF QueueRow, Continue, Build, Phase
      <4> QED
        BY <2>1, <4>1, <4>2, <4>3, <4>4
    <3> QED
      BY <1>1, <2>0, <3>1
  <2>2. CASE SelectExperiments(b)
    <3>1. PICK q \in tx[b] :
            Continue(b, [q EXCEPT !.phase = "selected",
                                  !.experiments = {e \in Experiments :
                                      /\ ServiceOf[e] = q.service
                                      /\ Seen(q, e) \in ServedStatus}])
      BY <2>2 DEF SelectExperiments
    <3> DEFINE r == [q EXCEPT !.phase = "selected",
                              !.experiments = {e \in Experiments :
                                  /\ ServiceOf[e] = q.service
                                  /\ Seen(q, e) \in ServedStatus}]
    <3>2. /\ r.queued = q.queued /\ r.expired = q.expired /\ r.service = q.service
          /\ r.experiments = {e \in Experiments :
                                 ServiceOf[e] = q.service /\ Seen(q, e) \in ServedStatus}
          /\ q.queued \subseteq Experiments /\ q.expired \subseteq Experiments
      BY <2>0 DEF Build
    <3>3. tx' = [tx EXCEPT ![b] = {r}] /\ status' = status
      BY <3>1 DEF Continue, rows
    <3> HIDE DEF r
    <3>4. \A e \in q.queued : Seen(q, e) \in ServedStatus /\ ServiceOf[e] = q.service
      <4> TAKE e \in q.queued
      <4>1. e \in Experiments
        BY <3>2
      <4>2. Queued(e, q.service)
        BY <4>1 DEF RowsHeldStill
      <4>3. Seen(q, e) = "ADDED_IN_CONFIG"
        BY <4>1 DEF Seen, RowsHeldStill, Queued, Expired
      <4> QED
        BY <4>2, <4>3 DEF Queued, ServedStatus
    <3>5. \A e \in q.expired : Seen(q, e) \notin ServedStatus
      BY <3>2 DEF RowsHeldStill, Queued, Expired, Seen, ServedStatus
    <3>6. \A e \in Experiments : Seen(q, e) \in ServedStatus => status[e] \notin {"NONE", "DRAFT"}
      BY DEF RowsHeldStill, Queued, Seen, ServedStatus
    <3>7. \A c \in Builders : \A o \in tx'[c] : o = r \/ o \in tx[c]
      BY <2>0, <3>3
    <3> QED
      BY <3>2, <3>3, <3>4, <3>5, <3>6, <3>7 DEF SnapshotInv
  <2>3. CASE InsertVersion(b)
    <3>1. PICK q \in tx[b] : q.phase = "selected" /\ Continue(b, [q EXCEPT !.phase = "inserted"])
      BY <2>3 DEF InsertVersion
    <3> DEFINE r == [q EXCEPT !.phase = "inserted"]
    <3>2. /\ r.queued = q.queued /\ r.expired = q.expired /\ r.service = q.service
          /\ r.experiments = q.experiments
      BY <2>0 DEF Build
    <3>3. tx' = [tx EXCEPT ![b] = {r}] /\ status' = status
      BY <3>1 DEF Continue, rows
    <3> HIDE DEF r
    <3>4. \A c \in Builders : \A o \in tx'[c] : o = r \/ o \in tx[c]
      BY <2>0, <3>3
    <3> QED
      BY <3>1, <3>2, <3>3, <3>4 DEF SnapshotInv
  <2>4. CASE DuplicateVersion(b) \/ DeadlockVictim(b) \/ Commit(b)
    BY <1>1, <2>0, <2>4 DEF DuplicateVersion, DeadlockVictim, Commit, Rollback
  <2> QED
    BY <1>2, <2>1, <2>2, <2>3, <2>4 DEF BuildStep
<1>3. ASSUME \/ \E b \in Builders, s \in Services : ManualBuild(b, s)
             \/ \E s \in Services : SchedulerBuild(s)
             \/ \E b \in Builders : BuildFails(b)
      PROVE  SnapshotInv'
  <2>1. ASSUME NEW b \in Builders, NEW s \in Services, Begin(b, s)
        PROVE  SnapshotInv'
    BY <1>1, <2>1 DEF Begin, TypeOK
  <2>2. ASSUME NEW b \in Builders, Rollback(b)
        PROVE  SnapshotInv'
    BY <1>1, <2>2 DEF Rollback, TypeOK
  <2> QED
    BY <1>3, <2>1, <2>2 DEF ManualBuild, SchedulerBuild, Builders, BuildFails
<1>4. ASSUME \/ \E e \in Experiments : CreateExperiment(e)
             \/ \E p \in Operators, e \in Experiments, action \in Actions : PatchRead(p, e, action)
             \/ \E p \in Operators : PatchWrite(p)
             \/ SchedulerScan
             \/ Restart
             \/ Tick
             \/ UNCHANGED vars
      PROVE  SnapshotInv'
  BY <1>1, <1>4 DEF CreateExperiment, PatchRead, PatchWrite, SchedulerScan, Restart, Tick, vars
<1> QED
  BY <1>2, <1>3, <1>4 DEF Next

LEMMA SnapshotInvariant == Spec => []SnapshotInv
<1>1. Init => SnapshotInv
  BY DEF Init, SnapshotInv
<1>2. TypeOK /\ RowsHeldStill /\ WindowInv /\ SnapshotInv /\ [Next]_vars => SnapshotInv'
  BY SnapshotStep
<1> QED
  BY <1>1, <1>2, TypeCorrect, RowsAreHeldStill, WindowInvariant, PTL DEF Spec

\* The abstract module has its own copy of the operators it takes from others.
LEMMA SameTransitions == History!kTransitions = kTransitions
BY DEF History!kTransitions, kTransitions

LEMMA SameCardinality == \A S : History!Cardinality(S) = Cardinality(S)
BY DEF History!Cardinality, Cardinality, History!IsFiniteSet, IsFiniteSet

\* A PATCH's UPDATE is one atomic move, a COMMIT one atomic publication, and
\* every other step is invisible.
LEMMA StepImplements ==
    ASSUME VersionInv, RowsHeldStill, WindowInv, SnapshotInv, [Next]_vars
    PROVE  [History!HistoryNext]_(History!historyVars)
<1> USE DEF History!historyVars
<1>0. TypeOK
  BY DEF VersionInv
<1>1. ASSUME NEW e \in Experiments, CreateExperiment(e)
      PROVE  History!HistoryNext
  BY <1>1 DEF CreateExperiment, published, History!HistoryNext, History!CreateDraft
<1>2. ASSUME NEW p \in Operators, PatchWrite(p)
      PROVE  History!HistoryNext
  <2>1. PICK r \in patch[p] : \E now \in r.at .. clock : UpdateStatus(r, now)
    BY <1>2 DEF PatchWrite
  <2>2. r.experiment \in Experiments /\ status[r.experiment] # "NONE"
    BY <1>0 DEF TypeOK, PatchRequest, WindowInv, PatchInv
  <2>3. PICK t \in kTransitions : r.to = t.to
    BY DEF WindowInv, PatchInv
  <2>4. status' = [status EXCEPT ![r.experiment] = t.to]
    BY <2>1, <2>3 DEF UpdateStatus
  <2>5. UNCHANGED <<configs, audit>>
    BY <1>2 DEF PatchWrite, published
  <2>6. History!Move(r.experiment)
    BY <2>2, <2>4, <2>5, SameTransitions DEF History!Move
  <2> QED
    BY <2>2, <2>6 DEF History!HistoryNext
<1>3. ASSUME NEW b \in Builders, Commit(b)
      PROVE  History!HistoryNext
  <2>1. PICK r \in tx[b] : r.phase = "inserted" /\ MakeVisible(r)
    BY <1>3 DEF Commit
  <2> DEFINE s == r.service
             others == r.experiments \ r.queued
             ofService == {e \in Experiments : ServiceOf[e] = s}
  <2>2. /\ s \in Services /\ r.queued \subseteq Experiments /\ r.expired \subseteq Experiments
        /\ r.experiments \subseteq Experiments /\ r.version = Len(configs[s]) + 1
    BY <1>0, <2>1 DEF TypeOK, Build, VersionInv, BuildVersions
  <2>3. /\ \A e \in r.queued : ServiceOf[e] = s /\ status[e] = "IN_QUEUE"
        /\ \A e \in r.expired : ServiceOf[e] = s /\ status[e] = "RUNNING"
    BY <2>2 DEF RowsHeldStill, Queued, Expired
  <2>4. /\ r.experiments = r.queued \cup others
        /\ others \cap r.expired = {}
        /\ \A e \in others : ServiceOf[e] = s /\ status[e] \notin {"NONE", "DRAFT"}
    BY <2>1 DEF SnapshotInv
  <2>5. r.queued \in SUBSET ofService /\ r.expired \in SUBSET ofService /\ others \in SUBSET ofService
    BY <2>2, <2>3, <2>4
  <2>6. status' = [e \in Experiments |->
                     CASE e \in r.queued  -> "ADDED_IN_CONFIG"
                       [] e \in r.expired -> "COMPLETED"
                       [] OTHER            -> status[e]]
    BY <2>1 DEF MakeVisible, Seen
  <2>7. configs' = [configs EXCEPT ![s] =
                     Append(@, [version |-> Len(@) + 1, experiments |-> r.queued \cup others])]
    BY <2>1, <2>2, <2>4 DEF MakeVisible
  <2>8. audit' = [audit EXCEPT ![s] =
                   Append(@, [config |-> Len(configs[s]) + 1,
                              queued_added_count |-> Cardinality(r.queued),
                              completed_removed_count |-> Cardinality(r.expired)])]
    BY <2>1, <2>2 DEF MakeVisible
  <2> HIDE DEF s, others
  <2>9. History!Publish(s)
    BY <2>3, <2>4, <2>5, <2>6, <2>7, <2>8, SameCardinality DEF History!Publish
  <2> QED
    BY <2>2, <2>9 DEF History!HistoryNext
<1>4. ASSUME NEW b \in Builders, BuildStep(b), ~ Commit(b)
      PROVE  UNCHANGED History!historyVars
  BY <1>4, OnlyCommitPublishes DEF rows, published
<1>5. ASSUME \/ \E p \in Operators, x \in Experiments, action \in Actions : PatchRead(p, x, action)
             \/ \E b \in Builders, s \in Services : ManualBuild(b, s)
             \/ \E s \in Services : SchedulerBuild(s)
             \/ \E b \in Builders : BuildFails(b)
             \/ SchedulerScan
             \/ Restart
             \/ Tick
             \/ UNCHANGED vars
      PROVE  UNCHANGED History!historyVars
  BY <1>5 DEF PatchRead, ManualBuild, SchedulerBuild, BuildFails, Rollback,
              SchedulerScan, Restart, Tick, rows, published, vars
<1> QED
  BY <1>1, <1>2, <1>3, <1>4, <1>5 DEF Next

\* Transactions, locks and the unique constraint make every build look like one
\* step that publishes the next version, moves what it took and audits it, for
\* any number of services, experiments, operators and admins.
THEOREM ImplementsPublicationHistory == Spec => ImplementsHistory
<1>1. Init => History!HistoryInit
  BY DEF Init, History!HistoryInit
<1>2. VersionInv /\ RowsHeldStill /\ WindowInv /\ SnapshotInv /\ [Next]_vars
        => [History!HistoryNext]_(History!historyVars)
  BY StepImplements
<1> QED
  BY <1>1, <1>2, VersionInvariant, RowsAreHeldStill, WindowInvariant, SnapshotInvariant, PTL
  DEF Spec, ImplementsHistory, History!HistorySpec

Feeds == INSTANCE ConfigFeedProofs

\* What Rollout is composed with: the statements of builds, however they
\* interleave, fail or restart, append whole configs to the feed of a service and
\* do nothing else to it.
THEOREM EachServiceHasAFeed ==
    ASSUME NEW s \in Services
    PROVE  Spec => Feeds!Feed(s)!FeedSpec
<1>1. History!HistoryInit => Feeds!HistoryInit
  BY DEF History!HistoryInit, Feeds!HistoryInit
<1>2. [History!HistoryNext]_(History!historyVars) => [Feeds!HistoryNext]_(Feeds!historyVars)
  <2>1. History!historyVars = Feeds!historyVars
    BY DEF History!historyVars, Feeds!historyVars
  <2>2. ASSUME NEW e \in Experiments
        PROVE  (History!CreateDraft(e) => Feeds!CreateDraft(e)) /\ (History!Move(e) => Feeds!Move(e))
    BY DEF History!CreateDraft, Feeds!CreateDraft, History!Move, Feeds!Move,
           History!kTransitions, Feeds!kTransitions
  <2>3. ASSUME NEW u \in Services, History!Publish(u)
        PROVE  Feeds!Publish(u)
    <3>1. \A S : Feeds!Cardinality(S) = History!Cardinality(S)
      BY DEF Feeds!Cardinality, History!Cardinality, Feeds!IsFiniteSet, History!IsFiniteSet
    <3> QED
      BY <2>3, <3>1 DEF History!Publish, Feeds!Publish
  <2>4. History!HistoryNext => Feeds!HistoryNext
    BY <2>2, <2>3 DEF History!HistoryNext, Feeds!HistoryNext
  <2>5. UNCHANGED History!historyVars => UNCHANGED Feeds!historyVars
    BY DEF History!historyVars, Feeds!historyVars
  <2> QED
    BY <2>4, <2>5
<1>3. ImplementsHistory => Feeds!HistorySpec
  BY <1>1, <1>2, PTL DEF ImplementsHistory, History!HistorySpec, Feeds!HistorySpec
<1>4. Feeds!HistorySpec => Feeds!Feed(s)!FeedSpec
  BY Feeds!ImplementsConfigFeed, PTL
<1> QED
  BY <1>3, <1>4, ImplementsPublicationHistory, PTL

------------------------------------------------------------------------------
(* The order of the lifecycle, for one operator                            *)

\* What a PATCH has read still holds when nobody else sends one, or a build has
\* already made the very move it is about to make.
CurrentInv ==
    \A p \in Operators : \A r \in patch[p] : \E t \in kTransitions :
        /\ r.to = t.to
        /\ \/ status[r.experiment] = t.from
           \/ status[r.experiment] = t.to /\ t.action \in {"add_to_config", "complete"}

\* What a build's COMMIT does to the statuses.
LEMMA CommitMoves ==
    ASSUME TypeOK, RowsHeldStill, NEW b \in Builders, Commit(b), NEW e \in Experiments
    PROVE  \/ status'[e] = status[e]
           \/ status[e] = "IN_QUEUE" /\ status'[e] = "ADDED_IN_CONFIG"
           \/ status[e] = "RUNNING" /\ status'[e] = "COMPLETED"
<1>1. PICK r \in tx[b] : MakeVisible(r)
  BY DEF Commit
<1>2. status'[e] = Seen(r, e)
  BY <1>1 DEF MakeVisible
<1>3. (e \in r.queued => status[e] = "IN_QUEUE") /\ (e \in r.expired => status[e] = "RUNNING")
  BY DEF RowsHeldStill, Queued, Expired
<1> QED
  BY <1>2, <1>3 DEF Seen

LEMMA LifecycleInvStep ==
    ASSUME NEW op, Operators = {op}, TypeOK, RowsHeldStill, CurrentInv, [Next]_vars
    PROVE  CurrentInv' /\ \A e \in Experiments : LifecycleStep(e)
<1>0. \A p \in Operators : \A r \in patch[p] : r.experiment \in Experiments
  BY DEF TypeOK, PatchRequest
<1>1. ASSUME status' = status, \A p \in Operators : patch'[p] \subseteq patch[p]
      PROVE  CurrentInv' /\ \A e \in Experiments : LifecycleStep(e)
  BY <1>1 DEF CurrentInv, LifecycleStep
<1>2. ASSUME NEW x \in Experiments, CreateExperiment(x)
      PROVE  CurrentInv' /\ \A e \in Experiments : LifecycleStep(e)
  <2>1. status[x] = "NONE" /\ patch' = patch /\ \A e \in Experiments :
          status'[e] = IF e = x THEN "DRAFT" ELSE status[e]
    BY <1>2 DEF CreateExperiment, TypeOK
  <2>2. \A p \in Operators : \A r \in patch[p] : r.experiment # x
    BY <2>1 DEF CurrentInv, kTransitions
  <2> QED
    BY <1>0, <2>1, <2>2 DEF CurrentInv, LifecycleStep
<1>3. ASSUME NEW p \in Operators, NEW x \in Experiments, NEW action \in Actions,
             PatchRead(p, x, action)
      PROVE  CurrentInv' /\ \A e \in Experiments : LifecycleStep(e)
  <2>1. PICK t \in FindTransition(status[x], action) :
          patch' = [patch EXCEPT ![p] = {[experiment |-> x, to |-> t.to, at |-> clock]}]
    BY <1>3 DEF PatchRead
  <2>2. status' = status /\ t \in kTransitions /\ t.from = status[x]
    BY <1>3 DEF PatchRead, rows, FindTransition
  <2>3. \A q \in Operators : patch'[q] = {[experiment |-> x, to |-> t.to, at |-> clock]}
    BY <2>1 DEF TypeOK
  <2> QED
    BY <2>2, <2>3 DEF CurrentInv, LifecycleStep
<1>4. ASSUME NEW p \in Operators, PatchWrite(p)
      PROVE  CurrentInv' /\ \A e \in Experiments : LifecycleStep(e)
  <2>1. PICK r \in patch[p] : \E now \in r.at .. clock : UpdateStatus(r, now)
    BY <1>4 DEF PatchWrite
  <2>2. \A q \in Operators : patch'[q] = {}
    BY <1>4 DEF PatchWrite, TypeOK
  <2>3. \A e \in Experiments : status'[e] = IF e = r.experiment THEN r.to ELSE status[e]
    BY <2>1 DEF UpdateStatus, TypeOK
  <2>4. PICK t \in kTransitions :
          /\ r.to = t.to
          /\ status[r.experiment] = t.from \/ status[r.experiment] = t.to
    BY DEF CurrentInv
  <2> QED
    BY <2>2, <2>3, <2>4 DEF CurrentInv, LifecycleStep
<1>5. ASSUME NEW b \in Builders, Commit(b)
      PROVE  CurrentInv' /\ \A e \in Experiments : LifecycleStep(e)
  <2>1. \A e \in Experiments :
          \/ status'[e] = status[e]
          \/ status[e] = "IN_QUEUE" /\ status'[e] = "ADDED_IN_CONFIG"
          \/ status[e] = "RUNNING" /\ status'[e] = "COMPLETED"
    BY <1>5, CommitMoves
  <2>2. patch' = patch
    BY <1>5 DEF Commit
  <2>3. CurrentInv'
    BY <1>0, <2>1, <2>2 DEF CurrentInv, kTransitions
  <2> QED
    BY <2>1, <2>3 DEF LifecycleStep, kTransitions
<1>6. ASSUME NEW b \in Builders, BuildStep(b), ~ Commit(b)
      PROVE  CurrentInv' /\ \A e \in Experiments : LifecycleStep(e)
  BY <1>1, <1>6, OnlyCommitPublishes DEF rows
<1>7. ASSUME \/ \E b \in Builders, s \in Services : ManualBuild(b, s)
             \/ \E s \in Services : SchedulerBuild(s)
             \/ \E b \in Builders : BuildFails(b)
             \/ SchedulerScan
             \/ Restart
             \/ Tick
             \/ UNCHANGED vars
      PROVE  CurrentInv' /\ \A e \in Experiments : LifecycleStep(e)
  BY <1>1, <1>7 DEF ManualBuild, SchedulerBuild, BuildFails, Rollback,
                    SchedulerScan, Restart, Tick, rows, vars
<1> QED
  BY <1>2, <1>3, <1>4, <1>5, <1>6, <1>7 DEF Next

\* As long as one PATCH is in flight at a time, experiments move only along the
\* transition table, whatever the builds do between its SELECT and its UPDATE.
THEOREM OneOperatorKeepsOrder ==
    ASSUME NEW CONSTANT op, Operators = {op}
    PROVE  Spec => LifecycleOrder
<1>1. Init => CurrentInv
  BY DEF Init, CurrentInv
<1>2. TypeOK /\ RowsHeldStill /\ CurrentInv /\ [Next]_vars
        => CurrentInv' /\ [\A e \in Experiments : LifecycleStep(e)]_vars
  BY LifecycleInvStep
<1> QED
  BY <1>1, <1>2, TypeCorrect, RowsAreHeldStill, PTL DEF Spec, LifecycleOrder

------------------------------------------------------------------------------
(* What is out of the config stays out, for one operator without            *)
(* add_to_config                                                           *)

Finished == StartedStatus \ {"RUNNING"}

\* The next commit of its service can be that of r.
CanPublish(r) == r.phase \in {"selected", "inserted"} /\ r.version = Len(configs[r.service]) + 1

\* What r is about to publish, if nobody does before it: all that is served now,
\* but what it has completed, and of what is finished only what is still served.
UpToDate(r) ==
    \A e \in Experiments : ServiceOf[e] = r.service =>
        /\ status[e] \in ServedStatus => e \in r.experiments \cup r.expired
        /\ status[e] \in Finished /\ e \in r.experiments => Served(e)

ServedInv ==
    /\ \A p \in Operators : \A r \in patch[p] : r.to # "ADDED_IN_CONFIG"
    /\ \A e \in Experiments : status[e] \in ServedStatus => Served(e)
    /\ \A b \in Builders : \A r \in tx[b] : CanPublish(r) => UpToDate(r)

\* Nothing is published, and no experiment joins those that are served.
LEMMA NothingServed ==
    ASSUME ServedInv, configs' = configs,
           \A p \in Operators : \A r \in patch'[p] : r.to # "ADDED_IN_CONFIG",
           \A b \in Builders : \A r \in tx'[b] : r \in tx[b] \/ r.phase = "begun",
           \A e \in Experiments :
             \/ status'[e] = status[e]
             \/ status'[e] \notin ServedStatus \cup Finished
             \/ status[e] = "ADDED_IN_CONFIG" /\ status'[e] = "RUNNING"
             \/ status[e] \in {"RUNNING"} \cup Finished /\ status'[e] \in Finished
    PROVE  ServedInv'
<1>1. \A e \in Experiments : Served(e)' = Served(e)
  BY DEF Served
<1>2. \A e \in Experiments :
        /\ status'[e] \in ServedStatus => status[e] \in ServedStatus
        /\ status'[e] \in Finished => status[e] \in ServedStatus \cup Finished
  BY DEF ServedStatus, Finished, StartedStatus
<1>3. \A e \in Experiments : (status[e] \in ServedStatus => Served(e))'
  BY <1>1, <1>2 DEF ServedInv
<1>4. ASSUME NEW b \in Builders, NEW r \in tx'[b], CanPublish(r)' PROVE UpToDate(r)'
  <2>1. r \in tx[b] /\ CanPublish(r)
    BY <1>4 DEF CanPublish
  <2>2. UpToDate(r)
    BY <2>1 DEF ServedInv
  <2>3. ASSUME NEW e \in Experiments, ServiceOf[e] = r.service
        PROVE  /\ status'[e] \in ServedStatus => e \in r.experiments \cup r.expired
               /\ status'[e] \in Finished /\ e \in r.experiments => Served(e)
    BY <1>2, <2>2, <2>3 DEF UpToDate, ServedInv
  <2> QED
    BY <1>1, <2>3 DEF UpToDate
<1> QED
  BY <1>3, <1>4 DEF ServedInv

\* The statement that decides what is served: all that its build sees.
LEMMA SelectServed ==
    ASSUME TypeOK, RowsHeldStill, ServedInv, NEW b \in Builders, SelectExperiments(b)
    PROVE  ServedInv'
<1>1. PICK q \in tx[b] :
        Continue(b, [q EXCEPT !.phase = "selected",
                              !.experiments = {e \in Experiments :
                                  /\ ServiceOf[e] = q.service
                                  /\ Seen(q, e) \in ServedStatus}])
  BY DEF SelectExperiments
<1> DEFINE X == {e \in Experiments : ServiceOf[e] = q.service /\ Seen(q, e) \in ServedStatus}
<1>2. PICK r : r = [q EXCEPT !.phase = "selected", !.experiments = X]
  OBVIOUS
<1>3. /\ r.service = q.service /\ r.expired = q.expired
      /\ \A e \in Experiments :
           e \in r.experiments <=> ServiceOf[e] = q.service /\ Seen(q, e) \in ServedStatus
  BY <1>2 DEF TypeOK, Build
<1>4. tx' = [tx EXCEPT ![b] = {r}] /\ UNCHANGED <<status, configs, patch>>
  BY <1>1, <1>2 DEF Continue, rows, published
<1>5. \A e \in Experiments :
        /\ status[e] \in ServedStatus => Seen(q, e) \in ServedStatus \/ e \in q.expired
        /\ status[e] \in Finished => Seen(q, e) \notin ServedStatus
  <2>1. \A e \in Experiments :
          (e \in q.queued => status[e] = "IN_QUEUE") /\ (e \in q.expired => status[e] = "RUNNING")
    BY DEF RowsHeldStill, Queued, Expired
  <2> QED
    BY <2>1 DEF Seen, ServedStatus, Finished, StartedStatus
<1>6. UpToDate(r)
  BY <1>3, <1>5 DEF UpToDate
<1>7. \A o : (CanPublish(o)' <=> CanPublish(o)) /\ (UpToDate(o)' <=> UpToDate(o))
  BY <1>4 DEF CanPublish, UpToDate, Served
<1>8. \A c \in Builders : \A o \in tx'[c] : o = r \/ o \in tx[c]
  BY <1>4 DEF TypeOK
<1> QED
  BY <1>4, <1>6, <1>7, <1>8 DEF ServedInv, Served

LEMMA InsertServed ==
    ASSUME TypeOK, ServedInv, NEW b \in Builders, InsertVersion(b)
    PROVE  ServedInv'
<1>1. PICK q \in tx[b] : q.phase = "selected" /\ Continue(b, [q EXCEPT !.phase = "inserted"])
  BY DEF InsertVersion
<1> DEFINE r == [q EXCEPT !.phase = "inserted"]
<1>2. q \in Build
  BY DEF TypeOK
<1>3. /\ r.experiments = q.experiments /\ r.service = q.service /\ r.expired = q.expired
      /\ r.version = q.version
  BY <1>2 DEF Build
<1>4. tx' = [tx EXCEPT ![b] = {r}] /\ UNCHANGED <<status, configs, patch>>
  BY <1>1 DEF Continue, rows, published
<1> HIDE DEF r
<1>5. \A c \in Builders : \A o \in tx'[c] : o = r \/ o \in tx[c]
  BY <1>4 DEF TypeOK
<1>6. CanPublish(r) => CanPublish(q) /\ (UpToDate(q) => UpToDate(r))
  BY <1>1, <1>3 DEF CanPublish, UpToDate
<1>7. \A o : (CanPublish(o)' <=> CanPublish(o)) /\ (UpToDate(o)' <=> UpToDate(o))
  BY <1>4 DEF CanPublish, UpToDate, Served
<1> QED
  BY <1>4, <1>5, <1>6, <1>7 DEF ServedInv, Served

\* The commit makes what is served and what is in the config the same, and all
\* other builds of the service come too late.
LEMMA CommitServed ==
    ASSUME VersionInv, RowsHeldStill, SnapshotInv, ServedInv, NEW b \in Builders, Commit(b)
    PROVE  /\ ServedInv'
           /\ \A e \in Experiments : status[e] \in Finished /\ ~ Served(e) => ~ Served(e)'
<1>0. TypeOK
  BY DEF VersionInv
<1>1. PICK r \in tx[b] : r.phase = "inserted" /\ MakeVisible(r)
  BY DEF Commit
<1> DEFINE s == r.service
           n == Len(configs[s])
           row == [version |-> r.version, experiments |-> r.experiments]
<1>2. /\ s \in Services /\ r.version = n + 1 /\ n \in Nat
      /\ configs \in [Services -> Seq(ConfigRow)] /\ row \in ConfigRow
  <2>1. r \in Build /\ configs \in [Services -> Seq(ConfigRow)]
    BY <1>0 DEF TypeOK
  <2>2. s \in Services /\ row \in ConfigRow /\ configs[s] \in Seq(ConfigRow)
    BY <2>1 DEF Build, ConfigRow
  <2>3. r.version = n + 1
    BY <1>1 DEF VersionInv, BuildVersions
  <2> QED
    BY <2>1, <2>2, <2>3
<1>3. /\ configs' = [configs EXCEPT ![s] = Append(@, row)]
      /\ \A e \in Experiments : status'[e] = Seen(r, e)
      /\ tx' = [tx EXCEPT ![b] = {}] /\ patch' = patch
  BY <1>1 DEF MakeVisible, Commit
<1>4. \A e \in Experiments : ServiceOf[e] # s => (Served(e)' <=> Served(e))
  BY <1>2, <1>3, ServiceAssumption DEF Served
<1>5. \A e \in Experiments : ServiceOf[e] = s => (Served(e)' <=> e \in r.experiments)
  <2>1. configs'[s] = Append(configs[s], row)
    BY <1>2, <1>3
  <2>2. Len(configs'[s]) = n + 1 /\ configs'[s][n + 1] = row /\ configs'[s] # <<>>
    BY <1>2, <2>1
  <2> QED
    BY <2>2 DEF Served
<1>6. UpToDate(r)
  BY <1>1, <1>2 DEF ServedInv, CanPublish
<1>7. /\ \A e \in r.queued : e \in r.experiments
      /\ \A e \in Experiments :
           /\ e \in r.queued => ServiceOf[e] = s /\ status[e] = "IN_QUEUE"
           /\ e \in r.expired => ServiceOf[e] = s /\ status[e] = "RUNNING"
  BY <1>1 DEF SnapshotInv, RowsHeldStill, Queued, Expired
<1>8. \A e \in Experiments : ServiceOf[e] # s => status'[e] = status[e]
  BY <1>3, <1>7 DEF Seen
<1>9. ASSUME NEW e \in Experiments, status'[e] \in ServedStatus PROVE Served(e)'
  <2>1. CASE ServiceOf[e] # s
    BY <1>4, <1>8, <1>9, <2>1 DEF ServedInv
  <2>2. CASE ServiceOf[e] = s /\ e \in r.queued
    BY <1>5, <1>7, <2>2
  <2>3. CASE ServiceOf[e] = s /\ e \notin r.queued
    <3>1. e \notin r.expired /\ status[e] \in ServedStatus
      BY <1>3, <1>9, <2>3 DEF Seen, ServedStatus
    <3>2. e \in r.experiments
      BY <1>6, <2>3, <3>1 DEF UpToDate
    <3> QED
      BY <1>5, <2>3, <3>2
  <2> QED
    BY <2>1, <2>2, <2>3
<1>10. ASSUME NEW c \in Builders, NEW q \in tx'[c], CanPublish(q)' PROVE UpToDate(q)'
  <2>1. q \in tx[c] /\ q \in Build
    BY <1>0, <1>3 DEF TypeOK
  <2>2. q.service # s
    <3>1. configs'[s] = Append(configs[s], row)
      BY <1>2, <1>3
    <3>2. Len(configs'[s]) = n + 1
      BY <1>2, <3>1
    <3>3. q.service = s => q.version \in 1 .. n + 1
      BY <2>1 DEF VersionInv, BuildVersions
    <3> QED
      BY <1>2, <1>10, <3>2, <3>3 DEF CanPublish
  <2>3. CanPublish(q)
    BY <1>2, <1>3, <1>10, <2>1, <2>2 DEF CanPublish, Build
  <2>4. UpToDate(q)
    BY <2>1, <2>3 DEF ServedInv
  <2> QED
    BY <1>4, <1>8, <2>2, <2>4 DEF UpToDate
<1>11. ServedInv'
  BY <1>3, <1>9, <1>10 DEF ServedInv
<1>12. \A e \in Experiments : status[e] \in Finished /\ ~ Served(e) => ~ Served(e)'
  BY <1>4, <1>5, <1>6 DEF UpToDate
<1> QED
  BY <1>11, <1>12

LEMMA ServedInvStep ==
    ASSUME NEW op, Operators = {op}, "add_to_config" \notin Actions,
           VersionInv, RowsHeldStill, SnapshotInv, CurrentInv, ServedInv, [Next]_vars
    PROVE  /\ ServedInv'
           /\ \A e \in Experiments : status[e] \in Finished /\ ~ Served(e) => ~ Served(e)'
<1>0. TypeOK
  BY DEF VersionInv
<1>1. ASSUME NEW b \in Builders, Commit(b)
      PROVE  /\ ServedInv'
             /\ \A e \in Experiments : status[e] \in Finished /\ ~ Served(e) => ~ Served(e)'
  BY <1>1, CommitServed
<1>2. ASSUME configs' = configs, ServedInv'
      PROVE  /\ ServedInv'
             /\ \A e \in Experiments : status[e] \in Finished /\ ~ Served(e) => ~ Served(e)'
  BY <1>2 DEF Served
<1>3. ASSUME NEW b \in Builders, BuildStep(b), ~ Commit(b)
      PROVE  configs' = configs /\ ServedInv'
  <2>1. UNCHANGED <<status, configs, patch>>
    BY <1>3, OnlyCommitPublishes DEF rows, published
  <2>2. CASE SelectExperiments(b)
    BY <1>0, <2>1, <2>2, SelectServed
  <2>3. CASE InsertVersion(b)
    BY <1>0, <2>1, <2>3, InsertServed
  <2>4. CASE ScanExpired(b) \/ ExpireRow(b) \/ ScanQueued(b) \/ QueueRow(b)
    <3>0. tx[b] \subseteq Build
      BY <1>0 DEF TypeOK
    <3>1. \E r : tx' = [tx EXCEPT ![b] = {r}] /\ r.phase \notin {"selected", "inserted"}
      <4>1. CASE ScanExpired(b)
        <5>1. PICK q \in tx[b] :
                q.phase = "begun" /\ Continue(b, [q EXCEPT !.phase = "expiring",
                    !.todo = {e \in Experiments : Expired(e, q.service, q.now)}])
          BY <4>1 DEF ScanExpired
        <5> DEFINE r == [q EXCEPT !.phase = "expiring",
                    !.todo = {e \in Experiments : Expired(e, q.service, q.now)}]
        <5>2. tx' = [tx EXCEPT ![b] = {r}]
          BY <5>1 DEF Continue
        <5>3. r.phase = "expiring"
          BY <3>0, <5>1 DEF Build
        <5> HIDE DEF r
        <5> QED
          BY <5>2, <5>3
      <4>2. CASE ExpireRow(b)
        <5>1. PICK q \in tx[b], e \in Experiments :
                q.phase = "expiring" /\ Continue(b, [q EXCEPT !.todo = @ \ {e},
                    !.expired = @ \cup {x \in {e} : Expired(x, q.service, q.now)}])
          <6>1. PICK q \in tx[b] : \E e \in q.todo :
                  q.phase = "expiring" /\ Continue(b, [q EXCEPT !.todo = @ \ {e},
                    !.expired = @ \cup {x \in {e} : Expired(x, q.service, q.now)}])
            BY <4>2 DEF ExpireRow
          <6> QED
            BY <3>0, <6>1 DEF Build
        <5> DEFINE r == [q EXCEPT !.todo = @ \ {e},
                    !.expired = @ \cup {x \in {e} : Expired(x, q.service, q.now)}]
        <5>2. tx' = [tx EXCEPT ![b] = {r}]
          BY <5>1 DEF Continue
        <5>3. r.phase = "expiring"
          BY <3>0, <5>1 DEF Build
        <5> HIDE DEF r
        <5> QED
          BY <5>2, <5>3
      <4>3. CASE ScanQueued(b)
        <5>1. PICK q \in tx[b] :
                q.phase = "expiring" /\ Continue(b, [q EXCEPT !.phase = "queueing",
                    !.todo = {e \in Experiments : Queued(e, q.service)}])
          BY <4>3 DEF ScanQueued
        <5> DEFINE r == [q EXCEPT !.phase = "queueing",
                    !.todo = {e \in Experiments : Queued(e, q.service)}]
        <5>2. tx' = [tx EXCEPT ![b] = {r}]
          BY <5>1 DEF Continue
        <5>3. r.phase = "queueing"
          BY <3>0, <5>1 DEF Build
        <5> HIDE DEF r
        <5> QED
          BY <5>2, <5>3
      <4>4. CASE QueueRow(b)
        <5>1. PICK q \in tx[b], e \in Experiments :
                q.phase = "queueing" /\ Continue(b, [q EXCEPT !.todo = @ \ {e},
                    !.queued = @ \cup {x \in {e} : Queued(x, q.service)}])
          <6>1. PICK q \in tx[b] : \E e \in q.todo :
                  q.phase = "queueing" /\ Continue(b, [q EXCEPT !.todo = @ \ {e},
                    !.queued = @ \cup {x \in {e} : Queued(x, q.service)}])
            BY <4>4 DEF QueueRow
          <6> QED
            BY <3>0, <6>1 DEF Build
        <5> DEFINE r == [q EXCEPT !.todo = @ \ {e},
                    !.queued = @ \cup {x \in {e} : Queued(x, q.service)}]
        <5>2. tx' = [tx EXCEPT ![b] = {r}]
          BY <5>1 DEF Continue
        <5>3. r.phase = "queueing"
          BY <3>0, <5>1 DEF Build
        <5> HIDE DEF r
        <5> QED
          BY <5>2, <5>3
      <4> QED
        BY <2>4, <4>1, <4>2, <4>3, <4>4
    <3>2. PICK r : tx' = [tx EXCEPT ![b] = {r}] /\ r.phase \notin {"selected", "inserted"}
      BY <3>1
    <3>3. \A c \in Builders : \A o \in tx'[c] : o = r \/ o \in tx[c]
      BY <1>0, <3>2 DEF TypeOK
    <3> QED
      BY <2>1, <3>2, <3>3 DEF ServedInv, CanPublish, UpToDate, Served
  <2>5. CASE DuplicateVersion(b) \/ DeadlockVictim(b)
    <3>1. tx' = [tx EXCEPT ![b] = {}]
      BY <2>5 DEF DuplicateVersion, DeadlockVictim, Rollback
    <3> QED
      BY <1>0, <2>1, <3>1, NothingServed DEF ServedInv, TypeOK
  <2> QED
    BY <1>3, <2>1, <2>2, <2>3, <2>4, <2>5 DEF BuildStep
<1>4. ASSUME NEW p \in Operators, PatchWrite(p)
      PROVE  configs' = configs /\ ServedInv'
  <2>1. PICK r \in patch[p] : \E now \in r.at .. clock : UpdateStatus(r, now)
    BY <1>4 DEF PatchWrite
  <2>2. \A e \in Experiments : status'[e] = IF e = r.experiment THEN r.to ELSE status[e]
    BY <1>0, <2>1 DEF UpdateStatus, TypeOK
  <2>3. configs' = configs /\ tx' = tx /\ \A o \in Operators : patch'[o] \subseteq patch[o]
    BY <1>0, <1>4 DEF PatchWrite, published, TypeOK
  <2>4. PICK t \in kTransitions :
          r.to = t.to /\ (status[r.experiment] = t.from \/ status[r.experiment] = t.to)
    BY DEF CurrentInv
  <2>5. t.to # "ADDED_IN_CONFIG"
    BY <2>4 DEF ServedInv
  <2>6. \/ t.to \notin ServedStatus \cup Finished
        \/ t.from = "ADDED_IN_CONFIG" /\ t.to = "RUNNING"
        \/ t.from \in {"RUNNING"} \cup Finished /\ t.to \in Finished
    BY <2>5 DEF kTransitions, ServedStatus, Finished, StartedStatus
  <2>7. \A e \in Experiments :
          \/ status'[e] = status[e]
          \/ status'[e] \notin ServedStatus \cup Finished
          \/ status[e] = "ADDED_IN_CONFIG" /\ status'[e] = "RUNNING"
          \/ status[e] \in {"RUNNING"} \cup Finished /\ status'[e] \in Finished
    BY <2>2, <2>4, <2>6
  <2>8. \A o \in Operators : \A q \in patch'[o] : q.to # "ADDED_IN_CONFIG"
    BY <2>3 DEF ServedInv
  <2> QED
    BY <2>3, <2>7, <2>8, NothingServed
<1>5. ASSUME NEW p \in Operators, NEW e \in Experiments, NEW action \in Actions,
             PatchRead(p, e, action)
      PROVE  configs' = configs /\ ServedInv'
  <2>1. PICK t \in FindTransition(status[e], action) :
          patch' = [patch EXCEPT ![p] = {[experiment |-> e, to |-> t.to, at |-> clock]}]
    BY <1>5 DEF PatchRead
  <2>2. t.to # "ADDED_IN_CONFIG"
    <3>1. t \in kTransitions /\ t.action # "add_to_config"
      BY DEF FindTransition
    <3> QED
      BY <3>1 DEF kTransitions
  <2>3. \A o \in Operators : \A q \in patch'[o] : q.to # "ADDED_IN_CONFIG"
    BY <1>0, <2>1, <2>2 DEF ServedInv, TypeOK
  <2>4. UNCHANGED <<status, configs, tx>>
    BY <1>5 DEF PatchRead, rows, published
  <2> QED
    BY <2>3, <2>4, NothingServed
<1>6. ASSUME NEW e \in Experiments, CreateExperiment(e)
      PROVE  configs' = configs /\ ServedInv'
  <2>1. /\ \A x \in Experiments : status'[x] = IF x = e THEN "DRAFT" ELSE status[x]
        /\ UNCHANGED <<configs, patch, tx>>
    BY <1>0, <1>6 DEF CreateExperiment, published, TypeOK
  <2>2. "DRAFT" \notin ServedStatus \cup Finished
    BY DEF ServedStatus, Finished, StartedStatus
  <2> QED
    BY <2>1, <2>2, NothingServed DEF ServedInv
<1>7. ASSUME \/ \E b \in Builders, s \in Services : ManualBuild(b, s)
             \/ \E s \in Services : SchedulerBuild(s)
             \/ \E b \in Builders : BuildFails(b)
             \/ SchedulerScan
             \/ Restart
             \/ Tick
             \/ UNCHANGED vars
      PROVE  configs' = configs /\ ServedInv'
  <2>1. UNCHANGED <<status, configs>> /\ \A o \in Operators : patch'[o] \subseteq patch[o]
    BY <1>7 DEF ManualBuild, SchedulerBuild, BuildFails, Rollback, SchedulerScan, Restart, Tick,
                rows, published, vars
  <2>2. \A o \in Operators : \A q \in patch'[o] : q.to # "ADDED_IN_CONFIG"
    BY <2>1 DEF ServedInv
  <2>3. \A c \in Builders : \A q \in tx'[c] : q \in tx[c] \/ q.phase = "begun"
    <3>1. ASSUME NEW b \in Builders, NEW s \in Services, Begin(b, s)
          PROVE  \A c \in Builders : \A q \in tx'[c] : q \in tx[c] \/ q.phase = "begun"
      BY <1>0, <3>1 DEF Begin, TypeOK
    <3>2. ASSUME NEW b \in Builders, Rollback(b)
          PROVE  \A c \in Builders : \A q \in tx'[c] : q \in tx[c]
      BY <1>0, <3>2 DEF Rollback, TypeOK
    <3> QED
      BY <1>7, <3>1, <3>2 DEF ManualBuild, SchedulerBuild, Builders, BuildFails, SchedulerScan,
                              Restart, Tick, vars
  <2> QED
    BY <2>1, <2>2, <2>3, NothingServed
<1> QED
  BY <1>1, <1>2, <1>3, <1>4, <1>5, <1>6, <1>7 DEF Next

\* While one PATCH is in flight at a time, and only builds put experiments into
\* a config, an experiment that is finished and out of the config does not come
\* back, however many builds overlap, fail or are cut off.
THEOREM WithdrawnAlwaysStaysOut ==
    ASSUME NEW CONSTANT op, Operators = {op}, "add_to_config" \notin Actions
    PROVE  Spec => WithdrawnStaysOut
<1>1. Init => CurrentInv /\ ServedInv
  BY DEF Init, CurrentInv, ServedInv, ServedStatus
<1>2. TypeOK /\ RowsHeldStill /\ CurrentInv /\ [Next]_vars => CurrentInv'
  BY LifecycleInvStep
<1>3. VersionInv /\ RowsHeldStill /\ SnapshotInv /\ CurrentInv /\ ServedInv /\ [Next]_vars
        => /\ ServedInv'
           /\ [\A e \in Experiments :
                 status[e] \in StartedStatus \ {"RUNNING"} /\ ~ Served(e) => ~ Served(e)']_vars
  BY ServedInvStep DEF Finished
<1> QED
  BY <1>1, <1>2, <1>3, TypeCorrect, VersionInvariant, RowsAreHeldStill, SnapshotInvariant, PTL
  DEF Spec, WithdrawnStaysOut

==============================================================================

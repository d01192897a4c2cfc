--------------------------- MODULE ConfigPublication ---------------------------
(***************************************************************************)
(* Experiments on their way into, through and out of the runtime config.   *)
(*                                                                         *)
(* Operators PATCH an experiment's status (ExperimentService).  A build    *)
(* (ConfigVersionService), started by the scheduler or by an admin, takes  *)
(* the queued experiments of a service, completes the expired ones and     *)
(* publishes the next config version.  They meet only in PostgreSQL, at    *)
(* its default isolation level READ COMMITTED:                             *)
(*   - a PATCH is two autocommit statements, a SELECT of the status and an *)
(*     UPDATE by id, with nothing that ties them together;                 *)
(*   - a build is one transaction of several statements.  Each sees what   *)
(*     is committed when it starts plus the build's own writes; an UPDATE  *)
(*     takes the row lock of each row it finds, waits if another           *)
(*     transaction holds it, and then applies its WHERE once more.         *)
(* Time is counted in days; NOW() is the start of the transaction.         *)
(***************************************************************************)
EXTENDS Lifecycle, Integers, Sequences, FiniteSets

CONSTANTS
    Experiments,
    Services,         \* ids of ClientService rows
    ServiceOf,        \* the service an experiment is created in
    Operators,        \* requests PATCH /experiments can be in flight for
    Admins,           \* requests POST /config-versions can be in flight for
    Scheduler,        \* the periodic task of ConfigBuildScheduler
    Actions,          \* the lifecycle actions operators ask for
    Duration,         \* duration_days
    MaxClock,         \* bound: days that pass
    MaxPatches,       \* bound: PATCH requests
    MaxManualBuilds,  \* bound: builds started by admins
    MaxFaults         \* bound: failing statements and process restarts

Builders == Admins \cup {Scheduler}

ASSUME ServiceAssumption == Services \subseteq Nat /\ ServiceOf \in [Experiments -> Services]
ASSUME ExperimentAssumption == IsFiniteSet(Experiments)
ASSUME ActionAssumption == Actions \subseteq LifecycleAction
ASSUME BuilderAssumption == Scheduler \notin Admins
ASSUME BoundAssumption ==
    /\ Duration \in Nat
    /\ MaxClock \in Nat
    /\ MaxPatches \in Nat
    /\ MaxManualBuilds \in Nat
    /\ MaxFaults \in Nat

VARIABLES
    status, startAt, endAt,  \* abtest.Experiment, as committed
    configs,                 \* abtest.ConfigVersion: per service, in order of commit
    audit,                   \* abtest.AuditLog: the BUILD rows, per service
    patch,                   \* per operator, the PATCH between its SELECT and its UPDATE
    tx,                      \* per builder, its open build transaction
    agenda,                  \* services the scheduler's iteration has yet to build
    clock,
    budget                   \* what is left of the bounds

rows == <<status, startAt, endAt>>
published == <<configs, audit>>
vars == <<status, startAt, endAt, configs, audit, patch, tx, agenda, clock, budget>>

(* Operators named Bug... are deviations a change to the code could bring in;    *)
(* nothing uses them but the mutation runs listed in the project file.          *)

NULL == -1
BugLastWriteWins(x, y) == y

Coalesce(x, y) == IF x = NULL THEN y ELSE x

\* What a PATCH remembers from its SELECT (and when it ran it).
PatchRequest == [experiment : Experiments, to : Status, at : Nat]

\* The statements of a build, named by the last one that has finished.
Phase == {"begun", "expiring", "queueing", "selected", "inserted"}

\* What a build holds in its local variables and in its open transaction:
\* todo is what the running UPDATE has still to visit; expired and queued are
\* the rows it has updated, and locked until the transaction ends.
Build == [phase : Phase, service : Services, version : Nat, now : Nat,
          todo : SUBSET Experiments, expired : SUBSET Experiments,
          queued : SUBSET Experiments, experiments : SUBSET Experiments]

Init ==
    /\ status = [e \in Experiments |-> "NONE"]
    /\ startAt = [e \in Experiments |-> NULL]
    /\ endAt = [e \in Experiments |-> NULL]
    /\ configs = [s \in Services |-> <<>>]
    /\ audit = [s \in Services |-> <<>>]
    /\ patch = [p \in Operators |-> {}]
    /\ tx = [b \in Builders |-> {}]
    /\ agenda = {}
    /\ clock = 0
    /\ budget = [patches |-> MaxPatches, builds |-> MaxManualBuilds, faults |-> MaxFaults]

------------------------------------------------------------------------------
(* Rows and locks                                                          *)

Touched(r) == r.expired \cup r.queued

Locks(b, e) == \E r \in tx[b] : e \in Touched(r)

Locked(e) == \E b \in Builders : Locks(b, e)

LockedByOther(b, e) == \E c \in Builders \ {b} : Locks(c, e)

Waiting(b, c) == \E r \in tx[b] : \E e \in r.todo : c # b /\ Locks(c, e)

Expired(e, s, now) ==
    /\ ServiceOf[e] = s
    /\ status[e] = "RUNNING"
    /\ endAt[e] # NULL
    /\ endAt[e] <= now

Queued(e, s) == ServiceOf[e] = s /\ status[e] = "IN_QUEUE"

\* The status of e that the transaction r sees: its own write if it made one.
Seen(r, e) ==
    CASE e \in r.queued  -> "ADDED_IN_CONFIG"
      [] e \in r.expired -> "COMPLETED"
      [] OTHER           -> status[e]

Versions(s) == {configs[s][i].version : i \in DOMAIN configs[s]}

\* COALESCE(MAX(version), 0) + 1
NextVersion(s) ==
    1 + CHOOSE v \in Versions(s) \cup {0} : \A w \in Versions(s) \cup {0} : w <= v

------------------------------------------------------------------------------
(* ExperimentService                                                       *)

CreateExperiment(e) ==
    /\ status[e] = "NONE"
    /\ status' = [status EXCEPT ![e] = "DRAFT"]
    /\ UNCHANGED <<startAt, endAt, published, patch, tx, agenda, clock, budget>>

\* The SELECT of UpdateExperimentStatus, and the check of the transition on
\* the status it read.  An unsupported action is an error that changes nothing.
PatchRead(p, e, action) ==
    /\ patch[p] = {}
    /\ status[e] # "NONE"
    /\ budget.patches > 0
    /\ \E t \in FindTransition(status[e], action) :
          patch' = [patch EXCEPT ![p] = {[experiment |-> e, to |-> t.to, at |-> clock]}]
    /\ budget' = [budget EXCEPT !.patches = @ - 1]
    /\ UNCHANGED <<rows, published, tx, agenda, clock>>

\* The UPDATE, one of three by the status it writes.  It finds its row by id
\* alone and may wait for a build to release it; now is when it was sent.
UpdateStatus(r, now) ==
    /\ ~ Locked(r.experiment)
    /\ status' = [status EXCEPT ![r.experiment] = r.to]
    /\ startAt' = [startAt EXCEPT ![r.experiment] =
                    IF r.to = "RUNNING" THEN Coalesce(@, now) ELSE @]
    /\ endAt' = [endAt EXCEPT ![r.experiment] =
                    CASE r.to = "RUNNING"   -> Coalesce(@, now + Duration)
                      [] r.to = "COMPLETED" -> Coalesce(@, now)
                      [] OTHER              -> @]

PatchWrite(p) ==
    /\ \E r \in patch[p] : \E now \in r.at .. clock : UpdateStatus(r, now)
    /\ patch' = [patch EXCEPT ![p] = {}]
    /\ UNCHANGED <<published, tx, agenda, clock, budget>>

------------------------------------------------------------------------------
(* ConfigVersionService::BuildNextVersion                                  *)

Continue(b, r) ==
    /\ tx' = [tx EXCEPT ![b] = {r}]
    /\ UNCHANGED <<rows, published, patch, agenda, clock, budget>>

\* BEGIN and the SELECT of the next version number.
Begin(b, s) ==
    /\ tx[b] = {}
    /\ tx' = [tx EXCEPT ![b] =
                {[phase |-> "begun", service |-> s, version |-> NextVersion(s),
                  now |-> clock, todo |-> {}, expired |-> {}, queued |-> {},
                  experiments |-> {}]}]

\* The UPDATE of the expired experiments finds its rows ...
ScanExpired(b) ==
    \E r \in tx[b] :
        /\ r.phase = "begun"
        /\ Continue(b, [r EXCEPT !.phase = "expiring",
                                 !.todo = {e \in Experiments : Expired(e, r.service, r.now)}])

\* ... and takes them one at a time, skipping a row that stopped matching.
ExpireRow(b) ==
    \E r \in tx[b] : \E e \in r.todo :
        /\ r.phase = "expiring"
        /\ ~ LockedByOther(b, e)
        /\ Continue(b, [r EXCEPT !.todo = @ \ {e},
                                 !.expired = @ \cup {x \in {e} : Expired(x, r.service, r.now)}])

\* The UPDATE of the queued experiments, in the same two parts.
ScanQueued(b) ==
    \E r \in tx[b] :
        /\ r.phase = "expiring"
        /\ r.todo = {}
        /\ Continue(b, [r EXCEPT !.phase = "queueing",
                                 !.todo = {e \in Experiments : Queued(e, r.service)}])

BugQueueRowUnchecked(b) ==
    \E r \in tx[b] : \E e \in r.todo :
        /\ r.phase = "queueing"
        /\ ~ LockedByOther(b, e)
        /\ Continue(b, [r EXCEPT !.todo = @ \ {e}, !.queued = @ \cup {e}])

QueueRow(b) ==
    \E r \in tx[b] : \E e \in r.todo :
        /\ r.phase = "queueing"
        /\ ~ LockedByOther(b, e)
        /\ Continue(b, [r EXCEPT !.todo = @ \ {e},
                                 !.queued = @ \cup {x \in {e} : Queued(x, r.service)}])

BugSelectCommitted(b) ==
    \E r \in tx[b] :
        /\ r.phase = "queueing"
        /\ r.todo = {}
        /\ Continue(b, [r EXCEPT !.phase = "selected",
                                 !.experiments = {e \in Experiments :
                                     /\ ServiceOf[e] = r.service
                                     /\ status[e] \in ServedStatus}])

\* The SELECT of what goes into the config, and the snapshots of it: variants
\* and flags never change once their experiment is created.
SelectExperiments(b) ==
    \E r \in tx[b] :
        /\ r.phase = "queueing"
        /\ r.todo = {}
        /\ Continue(b, [r EXCEPT !.phase = "selected",
                                 !.experiments = {e \in Experiments :
                                     /\ ServiceOf[e] = r.service
                                     /\ Seen(r, e) \in ServedStatus}])

\* The unique constraint on (client_service_id, version): an insert waits for
\* an open transaction that inserted the same pair, and fails if it is there.
InsertedElsewhere(b, r) ==
    \E c \in Builders \ {b} : \E q \in tx[c] :
        q.phase = "inserted" /\ q.service = r.service /\ q.version = r.version

BugInsertUnconstrained(b) ==
    \E r \in tx[b] :
        /\ r.phase = "selected"
        /\ Continue(b, [r EXCEPT !.phase = "inserted"])

BugInsertRenumbered(b) ==
    \E r \in tx[b] :
        /\ r.phase = "selected"
        /\ ~ InsertedElsewhere(b, r)
        /\ Continue(b, [r EXCEPT !.phase = "inserted", !.version = NextVersion(r.service)])

InsertVersion(b) ==
    \E r \in tx[b] :
        /\ r.phase = "selected"
        /\ ~ InsertedElsewhere(b, r)
        /\ r.version \notin Versions(r.service)
        /\ Continue(b, [r EXCEPT !.phase = "inserted"])

BugVisibleWithoutExperiments(r) ==
    /\ status' = [e \in Experiments |-> Seen(r, e)]
    /\ configs' = [configs EXCEPT ![r.service] = Append(@, [version |-> r.version])]
    /\ UNCHANGED audit

BugVisibleByConfig(r) ==
    /\ status' = [e \in Experiments |->
                    IF e \in r.experiments THEN "ADDED_IN_CONFIG" ELSE Seen(r, e)]
    /\ configs' = [configs EXCEPT ![r.service] =
                    Append(@, [version |-> r.version, experiments |-> r.experiments])]
    /\ UNCHANGED audit

\* What the transaction r makes visible: its statuses, its config, its audit row.
MakeVisible(r) ==
    /\ status' = [e \in Experiments |-> Seen(r, e)]
    /\ configs' = [configs EXCEPT ![r.service] =
                    Append(@, [version |-> r.version, experiments |-> r.experiments])]
    /\ audit' = [audit EXCEPT ![r.service] =
                    Append(@, [config |-> r.version,
                               queued_added_count |-> Cardinality(r.queued),
                               completed_removed_count |-> Cardinality(r.expired)])]

\* The INSERT into the audit log and COMMIT.
Commit(b) ==
    /\ \E r \in tx[b] : r.phase = "inserted" /\ MakeVisible(r)
    /\ tx' = [tx EXCEPT ![b] = {}]
    /\ UNCHANGED <<startAt, endAt, patch, agenda, clock, budget>>

\* An exception leaves the transaction unfinished; in the scheduler it also
\* ends the iteration, whatever services were still to come.
Rollback(b) ==
    /\ tx' = [tx EXCEPT ![b] = {}]
    /\ agenda' = IF b = Scheduler THEN {} ELSE agenda
    /\ UNCHANGED <<rows, published, patch, clock>>

DuplicateVersion(b) ==
    /\ \E r \in tx[b] : r.phase = "selected" /\ r.version \in Versions(r.service)
    /\ Rollback(b)
    /\ UNCHANGED budget

\* PostgreSQL ends one of the transactions that wait for each other.
DeadlockVictim(b) ==
    /\ \E cycle \in SUBSET Builders :
          b \in cycle /\ \A c \in cycle : \E d \in cycle : Waiting(c, d)
    /\ Rollback(b)
    /\ UNCHANGED budget

------------------------------------------------------------------------------
(* Who starts a build                                                      *)

\* POST /config-versions
ManualBuild(b, s) ==
    /\ b \in Admins
    /\ budget.builds > 0
    /\ budget' = [budget EXCEPT !.builds = @ - 1]
    /\ Begin(b, s)
    /\ UNCHANGED <<rows, published, patch, agenda, clock>>

BugScanQueuedOnly ==
    /\ agenda = {}
    /\ tx[Scheduler] = {}
    /\ agenda' = {s \in Services : \E e \in Experiments : Queued(e, s)}
    /\ UNCHANGED <<rows, published, patch, tx, clock, budget>>

\* BuildPendingVersions: one SELECT of the services that have something to do
\* (each has a platform user, its first admin, from the moment it exists) ...
SchedulerScan ==
    /\ agenda = {}
    /\ tx[Scheduler] = {}
    /\ agenda' = {s \in Services : \E e \in Experiments : Queued(e, s) \/ Expired(e, s, clock)}
    /\ UNCHANGED <<rows, published, patch, tx, clock, budget>>

\* ... and a build for each, in order of id.
SchedulerBuild(s) ==
    /\ s \in agenda
    /\ \A t \in agenda : s <= t
    /\ agenda' = agenda \ {s}
    /\ Begin(Scheduler, s)
    /\ UNCHANGED <<rows, published, patch, clock, budget>>

------------------------------------------------------------------------------
(* The environment                                                         *)

Tick ==
    /\ clock < MaxClock
    /\ clock' = clock + 1
    /\ UNCHANGED <<rows, published, patch, tx, agenda, budget>>

\* A statement of a build fails (connection lost, statement timeout).
BuildFails(b) ==
    /\ tx[b] # {}
    /\ budget.faults > 0
    /\ budget' = [budget EXCEPT !.faults = @ - 1]
    /\ Rollback(b)

\* The backend stops and starts: requests die, open transactions roll back.
Restart ==
    /\ budget.faults > 0
    /\ budget' = [budget EXCEPT !.faults = @ - 1]
    /\ patch' = [p \in Operators |-> {}]
    /\ tx' = [b \in Builders |-> {}]
    /\ agenda' = {}
    /\ UNCHANGED <<rows, published, clock>>

------------------------------------------------------------------------------

\* What a build does by itself once it has begun.
BuildStep(b) ==
    \/ ScanExpired(b)
    \/ ExpireRow(b)
    \/ ScanQueued(b)
    \/ QueueRow(b)
    \/ SelectExperiments(b)
    \/ InsertVersion(b)
    \/ DuplicateVersion(b)
    \/ DeadlockVictim(b)
    \/ Commit(b)

Next ==
    \/ \E e \in Experiments : CreateExperiment(e)
    \/ \E p \in Operators, e \in Experiments, action \in Actions : PatchRead(p, e, action)
    \/ \E p \in Operators : PatchWrite(p)
    \/ \E b \in Builders, s \in Services : ManualBuild(b, s)
    \/ \E s \in Services : SchedulerBuild(s)
    \/ \E b \in Builders : BuildStep(b)
    \/ \E b \in Builders : BuildFails(b)
    \/ SchedulerScan
    \/ Restart
    \/ Tick

\* A request that was accepted runs to its end, and so does a build.  The
\* periodic task runs again and again.  Nobody has to send a request, and
\* nothing has to fail.
Fairness ==
    /\ \A p \in Operators : WF_vars(PatchWrite(p))
    /\ \A b \in Builders : WF_vars(BuildStep(b))
    /\ WF_vars(SchedulerScan)
    /\ WF_vars(\E s \in Services : SchedulerBuild(s))

Spec == Init /\ [][Next]_vars

FairSpec == Spec /\ Fairness

------------------------------------------------------------------------------
(* Safety                                                                  *)

ConfigRow == [version : Nat, experiments : SUBSET Experiments]
AuditRow == [config : Nat, queued_added_count : Nat, completed_removed_count : Nat]

\* Every variable stays in its type.
TypeOK ==
    /\ status \in [Experiments -> Status]
    /\ startAt \in [Experiments -> Nat \cup {NULL}]
    /\ endAt \in [Experiments -> Nat \cup {NULL}]
    /\ configs \in [Services -> Seq(ConfigRow)]
    /\ audit \in [Services -> Seq(AuditRow)]
    /\ patch \in [Operators -> SUBSET PatchRequest]
    /\ tx \in [Builders -> SUBSET Build]
    /\ agenda \in SUBSET Services
    /\ clock \in Nat
    /\ budget \in [patches : Nat, builds : Nat, faults : Nat]

\* A row that a build has updated stays as the build found it until the build
\* ends: no second build takes it, and no PATCH that was already on its way
\* changes it in between (BuildNextVersion relies on the locks of its UPDATEs
\* for the counts it audits and for the snapshot it publishes).
RowsHeldStill ==
    \A b \in Builders : \A r \in tx[b] : \A e \in Experiments :
        /\ e \in r.expired => Expired(e, r.service, r.now)
        /\ e \in r.queued => Queued(e, r.service)
        /\ e \in Touched(r) => ~ LockedByOther(b, e)

\* The versions of a service are 1, 2, 3, ... in order of commit, whatever
\* builds overlapped, failed or were cut off, and every version has its audit
\* row (MAX + 1 read at the start, the unique constraint at the end).
VersionsInOrder ==
    \A s \in Services :
        /\ Len(audit[s]) = Len(configs[s])
        /\ \A i \in DOMAIN configs[s] : configs[s][i].version = i /\ audit[s][i].config = i

\* An experiment that is running or was ever completed has both ends of its
\* window, set together and duration_days apart, even when operators write
\* statuses from stale reads: the COALESCE in the UPDATE to COMPLETED never
\* has anything to fill in, so completing early does not move end_at.
WindowComplete ==
    \A e \in Experiments :
        /\ status[e] \in StartedStatus => startAt[e] # NULL
        /\ startAt[e] # NULL => endAt[e] = startAt[e] + Duration
        /\ startAt[e] = NULL => endAt[e] = NULL

\* The window of an experiment is written once and a published config never
\* changes or goes away: no interleaving of PATCHes, builds and restarts
\* rewrites history.
HistoryStep ==
    /\ \A e \in Experiments :
         startAt[e] # NULL => startAt'[e] = startAt[e] /\ endAt'[e] = endAt[e]
    /\ \A s \in Services :
         /\ Len(configs'[s]) >= Len(configs[s])
         /\ \A i \in DOMAIN configs[s] : configs'[s][i] = configs[s][i]

HistoryKept == [][HistoryStep]_vars

\* The lifecycle of the transition table: an experiment's status only changes
\* along kTransitions, by operators and builds alike.
LifecycleStep(e) ==
    \/ status'[e] = status[e]
    \/ status[e] = "NONE" /\ status'[e] = "DRAFT"
    \/ \E t \in kTransitions : t.from = status[e] /\ t.to = status'[e]

\* With one PATCH in flight at a time the order holds, whatever builds run
\* between its SELECT and its UPDATE.  With two it does not: the UPDATE names
\* no expected status.
LifecycleOrder == [][\A e \in Experiments : LifecycleStep(e)]_vars

Served(e) ==
    LET log == configs[ServiceOf[e]] IN log # <<>> /\ e \in log[Len(log)].experiments

\* An experiment that is finished and out of the runtime config does not come
\* back: a build that selected it while it was running cannot publish after a
\* build that left it out, because their version numbers collide.  (One PATCH
\* at a time, and only builds put experiments into a config.)
WithdrawnStaysOut ==
    [][\A e \in Experiments :
          status[e] \in StartedStatus \ {"RUNNING"} /\ ~ Served(e) => ~ Served(e)']_vars

\* All that publication promises: see PublicationHistory.
History == INSTANCE PublicationHistory
ImplementsHistory == History!HistorySpec

------------------------------------------------------------------------------
(* Liveness                                                                *)

EverPublished(e) ==
    \E i \in DOMAIN configs[ServiceOf[e]] : e \in configs[ServiceOf[e]][i].experiments

\* An experiment that was sent to the queue gets into a config, as long as
\* nobody uses add_to_config: failed builds, restarts, version conflicts and
\* the services before it in the scheduler's order only delay it.
QueuedIsPublished == \A e \in Experiments : status[e] = "IN_QUEUE" ~> EverPublished(e)

\* An experiment whose time is up leaves the runtime config, as long as nobody
\* completes it by hand first.
ExpiredIsWithdrawn ==
    \A e \in Experiments : Expired(e, ServiceOf[e], clock) ~> ~ Served(e)

==============================================================================

# AB-experiments in TLA+

A verification project for the A/B experiment platform in this repository: a C++
backend (userver) over PostgreSQL, a React UI and a demo client. The backend keeps
no state of its own except session tokens; everything else is in the tables of
`create_db.sql`, and every request or periodic task is a short sequence of SQL
statements, some inside one transaction, some not. So what can go wrong is what
happens *between* statements, and that is what the modules model.

File names without a directory are under `backend/src/services/`.

## Inventory

| Part | State | Operations | Meets | Hard because |
|---|---|---|---|---|
| Experiment lifecycle (`experiment_service.cpp`) | `Experiment.status`, `start_at`, `end_at` | create, PATCH with one of six actions | builds, other PATCHes | the status is SELECTed, checked, and UPDATEd by id in two autocommit statements |
| Config publication (`config_version_service.cpp`) | `ConfigVersion`, `AuditLog`, `Experiment.status` | `BuildNextVersion` (one transaction), `BuildPendingVersions` | PATCHes, other builds, runtime assignment | read-committed statements each see another state; version number is MAX + 1 |
| Config build scheduler (`components/config_build_scheduler.cpp`) | none | every 5 s, builds of all services with work | manual builds | one exception ends the iteration for the services after it |
| Metric calculation state (`metric_calculation_state.cpp`) | dirty flag and `last_calculated_at` per experiment | mark dirty (assignment, event, attachment), mark clean | every runtime request, recalculation | marks are blind writes in several transactions |
| Metric recalculation (`metric_service.cpp`, `components/metric_calculation_scheduler.cpp`) | `MetricResult`, `ExperimentMetric` | attach, recalculate, periodic recalculation of dirty experiments | assignments and events while it aggregates, other recalculations | aggregates and the clean mark are at different moments |
| Runtime assignment (`assignment_service.cpp`) | `AssignmentLog`, `EndUser` | resolve flags: bucket per layer, variant per experiment, values of flags, log | the latest config | stickiness, weights at their limits, two layers that set one flag |
| Runtime events (`event_service.cpp`) | `EventsLog`, `EndUser`, `Feature` | ingest | assignments of the same request id | end users are looked up, then inserted |
| Access (`auth_service.cpp`, `session_store.cpp`) | sessions in memory, `ClientService`, `PlatformUser`, `ApiKey` | register, log in, create users, create and revoke keys, check a key | every request | a user and its role are two INSERTs; a key is checked once per request |
| Flags and experiment creation (`experiment_service.cpp`) | `Flag`, `ExperimentLayer`, `Experiment`, `ExperimentVariant` | create a flag, create an experiment (one transaction), list | other creations, listings, sessions | layers are looked up, then inserted; one of many INSERTs can fail; listings are SELECTs in a loop |
| Catalogues and other listings (handlers) | `Feature`, `Metric` | single INSERTs and SELECTs | - | - |
| Platform UI, demo client | - | call the API | - | - |

What makes each part correct:

* lifecycle: a status only moves along `kTransitions`; the window of an
  experiment is set once, when it starts;
* publication: a build is atomic (the config, the statuses and the audited counts
  describe the same experiments), versions are gapless and in order, a config never
  changes, what is queued gets in, what is over gets out and stays out;
* metrics: results that are marked clean are those of the logs, and each metric has
  one result per variant;
* assignment: one experiment per layer, traffic as the weights say, a subject keeps its
  variant when other experiments come and go, a test id overrides the hash, a flag that
  two layers set has one value;
* access: a service has an admin from the start, a login finds one account, a revoked
  key is refused, a request acts for the service of its key or its session and for no
  other;
* experiment creation: an experiment is there as it was asked for, with its layer, all
  its variants and flags of its own service, or not at all.

## Modules

| Module | Models |
|---|---|
| `Lifecycle` | the statuses, the transition table, `FindTransition` |
| `PublicationHistory` | abstract: what publication promises, builds and PATCHes as single steps |
| `ConfigPublication` | lifecycle, builds and scheduler, statement by statement |
| `MCConfigPublication` | instances for TLC |
| `ConfigPublicationProofs` | type correctness and version order |
| `PublicationHistoryProofs` | row stability, windows, history, refinement of `PublicationHistory` and through it of `ConfigFeed`, lifecycle order, no return of the withdrawn |
| `MetricRecalculation` | dirty marks, recalculation and its scheduler, statement by statement |
| `MCMetricRecalculation` | instances for TLC |
| `MetricReports` | abstract: what recalculation promises, reports that are published in one step |
| `MetricRecalculationProofs` | type correctness, what a clean mark means, results that stay, refinement of `MetricReports` |
| `EndUsers` | the look-up and the insert of end users by overlapping calls |
| `MCEndUsers` | instances for TLC |
| `UserRegistry` | abstract: what the look-up and the insert promise, one step per answered call |
| `EndUsersProofs` | type correctness, one end user per device, refinement of `UserRegistry` |
| `ConfigFeed` | abstract: the configs of a service as a request sees them |
| `ConfigFeedProofs` | `PublicationHistory` implements `ConfigFeed` |
| `Assignment` | the choice of experiments, variants and flag values, as operators without state |
| `Rollout` | composes `ConfigFeed` and `Assignment`: requests of flags while configs are published |
| `MCRollout` | instances for TLC |
| `RolloutProofs` | type correctness, how traffic is split, one variant of a layer, order of configs, stability of variants, test ids, flags |
| `Access` | services, platform users, sessions and API keys |
| `AccessProofs` | accounts, sessions and keys |
| `Catalogue` | abstract: the experiments of all services as whole designs |
| `ExperimentCreation` | extends `Access`: flags, the transaction that creates an experiment, listings |
| `MCExperimentCreation` | an instance for TLC |
| `ExperimentCreationProofs` | accounts and experiments together, refinement of `Catalogue` |

### How `ConfigPublication` corresponds to the code

`status`, `startAt`, `endAt` are the committed columns of `Experiment`. `configs` and
`audit` are the committed rows of `ConfigVersion` and the `BUILD` rows of `AuditLog`.
`patch[p]` is what an operator's PATCH knows between its SELECT and its UPDATE.
`tx[b]` is the open build transaction of builder `b` (an admin's request or the
scheduler): its local variables (`next_version`, the experiments it selected) and the
rows it has updated and not committed. `agenda` is the result set that
`BuildPendingVersions` walks.

`PatchRead` and `PatchWrite` are the two statements of `UpdateExperimentStatus`. The
UPDATE waits while a build holds the row, and then writes whatever is there, because
its WHERE names only the id. A build is `Begin` (BEGIN and MAX + 1), then for each of
its two UPDATEs a scan and one step per row, `SelectExperiments`, `InsertVersion` and
`Commit` (with the audit row). At READ COMMITTED a statement sees what is committed
when it starts and the transaction's own writes (`Seen`); an UPDATE that had to wait
for a row applies its WHERE again to the row it then finds (`ExpireRow`, `QueueRow`).
`InsertVersion` waits for another open transaction with the same number, and
`DuplicateVersion` is the unique violation. `DeadlockVictim`, `BuildFails` and
`Restart` end transactions from outside. The scheduler loses its `agenda` with any
exception (`Rollback`).

Left out: names, variants, flags and layers of experiments (fixed once created, and
no property here tells them apart; `ExperimentCreation` has them), authorisation, the JSON of a config apart from
which experiments are in it. BEGIN and the first SELECT of a build are one step.

### How `MetricRecalculation` corresponds to the code

`log` is what has been committed to `AssignmentLog`, `EventsLog` and
`ExperimentMetric`, `state` the dirty flag (no row is `"none"`), `results` the rows of
`MetricResult`. A *source* is a call that changes what results should be: a request of
flags, an event, an attachment. `source[s]` is its open transaction, with the
experiments it has still to mark and those it has marked, whose rows it holds.
`calc[c]` is the open transaction of `RecalculateExperimentMetrics` for an analyst or
the scheduler, `agenda` the result set that `RecalculatePendingMetrics` walks.

The point of the model is *when* each statement looks. The marks of an event come from
one query, at one moment (`DirtyByRequest`, in `BeginSource`), which sees only
assignments that are committed; each `QueryVariantAggregates` sees the logs at its own
moment; the clean mark is blind. A DELETE finds its rows when it starts (`ScanResults`)
and then waits for each that another transaction is deleting; rows that others insert
meanwhile are not among them. The rows of one recalculation are deleted together or not
at all, so they are locked as a unit. Two recalculations that delete what two earlier ones
left, in different orders, can wait for each other (`RecalculationVictim`). Marks and clean marks of one experiment exclude
each other until commit (`StateRowHeld`). A result is represented by the requests and
events it counts, not by its statistics.

`alone` and `raced` are history variables, which no guard reads. They record whether the
last recalculation of an experiment overlapped with no other recalculation of it and no
call its results depend on.

`MetricReports` is what is left of this for whoever reads results: no mark, lock or
transaction, and one step per report. `Report` says that all rows of a report are of
attached metrics, one each, and that each counts what was in the logs at *some* moment
(`Counted`, which has an event only with its assignment); the moments may differ from metric
to metric, but of two rows one knows all that the other knows. `PublishReport` says what a
report may remove: the last report of the same calculator, of which it keeps every metric,
and reports of others, if it knows all that they know. What it does *not* say is that a
report removes those of others (`metrics_twice`), or that the metrics of another's report
are kept: a metric that was attached after BEGIN is not in `attached`, and its rows, if
they were committed before the DELETE, are deleted and not written again.

Left out: `EnsureMetricCalculationStateSchema` (its ALTER TABLE can delay a call before
its transaction begins, which the model allows anyway), reasons and timestamps next to
the dirty flag (written, never read), the check for a missing feature (features are
never deleted). An assignment's experiments are given by the constant `Plan`; an
experiment is in one layer, so a request marks in the order of layers, taken as that of
ids. `draft` stands for DRAFT and IN_QUEUE.

### How `EndUsers` corresponds to the code

`users` are the committed rows of `EndUser`, `tx[c]` the open transaction of a call, with
the ids it carries, the row its SELECT found, and the row it has written and not
committed; `done[c]` is the `end_user_id` under which the log rows of an answered call
are. `EnsureEndUser` is the SELECT, `UpdateUser` and `InsertUser` are the second
statement. The UPDATE waits for another call's version of the row and then applies to
what it finds; the INSERT waits for another INSERT of the same device and fails if that
one commits (`DuplicateDevice`). An event is sent after its request was answered, with any ids. Left out: the service (calls
of different services never meet), `ip_address` (never read), the config and the logs,
which are in the other modules.

`UserRegistry` says what a caller can rely on. An answered call has added a user
(`AddUser`), with an id and a device that no other has, or it has come to a user it knows
(`KnowUser`) and has changed nothing of the row but the external id, if it has one. The row is
that of the moment of the commit: what other calls wrote to it since the look-up is
kept. For a device the user is the one that has it. For an external id it is one that
answered for it before (`AnsweredFor`), and not more than that: there may be several, and the
one that was found may have another by now (`users_external`).

`SequentialSpec`, in `MCEndUsers`, is `Spec` with calls that do not overlap: what it violates
is no race.

### How `Assignment` and `Rollout` correspond to the code

`Assignment` has the functions of `assignment_service.cpp` under their names. A loop that
returns the first match is a set of at most one element. The cursor of `SelectExperiment`
is written in closed form: the clamped sum of the traffic of the experiments before
(`Cursor`). Traffic is in parts of 1/`Unit`, a hash is one of the points 0 .. `Unit`;
`Unit`, the hash 1.0, does occur: `HashToUnitInterval` rounds a `long double` to a
`double`. `DesignAssumption` is what `ValidateExperimentInput` lets through (all variants
have one weight, there are two at least, their sum is at most 1); with it the guards
against zero traffic and missing variants are never taken. What floating-point sums add
to this (0.1 + 0.1 + 0.1) is not modelled. `NamedBy` is what a `test_id` matches, by id or
by key.

`Rollout` is for one service; every statement names it. `active[r]` is the open
transaction of a request, `answer[r]` what it was answered with (which is also what is in
`AssignmentLog`). `ReadConfig` is the SELECT of the latest config, the loop over the
layers and the INSERTs; nothing between them reads. A request that failed may be sent
again. Publication is taken from `ConfigFeed`, not from its statements: any set of
experiments may be the next config. This is sound, since `ConfigPublication` implements
`ConfigFeed` for each service (`EachServiceHasAFeed`), and it is enough, since the properties of assignment are
about any two configs. `earlier` is a history variable.

`FlagsOf` is what a variant sets, each flag to a value of its own, which is why a value is
represented by its variant. `FlagValues` is the map that the handler fills in the order
of the layers: a later layer overwrites. A layer stands where its first experiment does
in the config, and experiments are in the order of ids (`Oldest`, `LayerFollows`).

### How `Access` and `ExperimentCreation` correspond to the code

`services`, `users` and `keys` are the committed rows of `ClientService`, `PlatformUser`
(with `PlatformUserRole`) and `ApiKey`; `sessions` is `sessions_` of `SessionStore`, a
session standing for its token. `call[c]` is a request between two statements:
`Answering` after the commit of a registration or the SELECT of a login (both end in
`CreateAuthResponse`, which reads the user again), `Inserted` between the two INSERTs of
`CreatePlatformUser`, `Received` and `Serving` before and after `AuthenticateApiKey`.
The transaction of `RegisterService` is one step: its rows are of a service whose id
nobody has seen. `RequireSession` is the choice of a session in `Next`; it is not a step
of its own, since sessions end only with the process, and the requests with it. The role
each handler asks for is a guard (`HasRole`). `Received.revoked`, the keys that were
revoked when the request came, is a history variable.

`layers`, `experiments` and `variants` are committed rows, identified by service and
name; `creation[c]` is the open transaction of `CreateExperiment`: its next statement,
whether it has found its layer or has to insert it, and how many variants it has
inserted. `InsertLayer` and `InsertExperiment` wait for an open transaction with the
same key and fail if the key is there (`DuplicateKey`); a variant with its flags is one
step, which fails on the first flag that is not of the service (`MissingFlag`; flags are
never deleted, so the moments at which they are looked up do not matter).
`CommitExperiment` goes over into `GetExperimentById`, which is a listing of one
experiment. `listing[c]` is the loop of `ListExperiments`: the experiments of its first
SELECT that it has still to complete, and the views it has. The variants of an experiment
and the flags of each are one step, since no transaction adds either to a committed
experiment.

Left out: names and descriptions, the status of services and users (written, never
read), value types of flags, what a plain key or token consists of, the ADD COLUMN IF NOT
EXISTS of each start. A body is one of `Inputs`; it need not be valid.

`Catalogue` is what the two together promise to whoever reads: a set of designs, to which
whole ones are added, each fit to be assigned (`Assignable` is the part of
`DesignAssumption` of `Assignment` that depends on one experiment) and under a new name.
`ImplementsCatalogue` maps to it the experiments as a listing would show them.

## Runs

| Run | Asks |
|---|---|
| `publication_safety` | with two operators, the scheduler, an admin and a fault on one service: do the invariants hold, is history kept, is every step one of `PublicationHistory`? |
| `publication_progress` | with one PATCH at a time, two services, overlapping builds and a fault: does the lifecycle keep its order, can a finished experiment come back into the config, are queued experiments published and expired ones withdrawn? |
| `publication_two_operators` | violated: two PATCHes keep no order |
| `metrics_safety` | with an analyst, the scheduler, two experiments and a fault: is a clean experiment fresh if its recalculation raced with nothing, do results stay, is every commit of a recalculation one report of `MetricReports`? |
| `metrics_progress` | with the scheduler alone: is there one result per metric, and is everything dirty recalculated, through deadlocks and faults? |
| `metrics_lost_mark` | violated: what commits between aggregation and clean mark is never counted |
| `metrics_twice` | violated: two recalculations at once leave every result twice |
| `users_device` | do all calls of a device end up under one end user, does every call end, and is each answered call one step of `UserRegistry`, while four calls and a fault interleave? |
| `users_external` | violated: of three requests and an event, one after the other, the event has the ids of its request and is logged under another end user |
| `rollout_safety` | is traffic split as the weights say, is there one variant of a layer and one value of a flag in an answer, do assignments move only when an earlier experiment of the layer does, do requests see configs in order, does a test id do what it should and no more, and flags follow the layers? |
| `rollout_shift` | violated: a later request of a user is given another experiment of the layer, though the one of the first answer is still in the config |
| `platform_safety` | with two services, users, keys, flags and experiments created by requests that overlap, fail and are cut off by restarts: are accounts and experiments whole, of one service, created by its admins only, is a creation one step of `Catalogue`, and does every request end? |

### Bounds, and why they are enough

Every bound is a constant named `Max...`, and limits only what starts: what is under way
can always end.

* Publication: two experiments, so that one can be expired while the other is queued and
  two builds can lock rows in opposite order; two builders, the least that conflict on a
  version; two operators, the least that overwrite each other; two services only in
  `publication_progress`, where one iteration has to get from one to the next.
  `MaxPatches = 4` takes one experiment, with builds, through the whole lifecycle, or both
  through part of it, and is enough for two operators to overtake each other.
  `MaxManualBuilds` is 2 in `publication_progress`: with the scheduler's builds, one
  build can be overtaken by two others. The clock has two values and duration is 1: an
  experiment is over or it is not.
* Metrics: two experiments and a request that is in both, so that marks can be taken in
  opposite orders (two events in `metrics_progress` do deadlock); one analyst next to the
  scheduler, with two recalculations, so that both can overlap twice.
* End users: three requests and an event, the least with two calls that race, one that
  finds what they left and one that comes later; two devices and one external id, since
  what matters is whether two calls have the same one.
* Rollout: two experiments in one layer with more traffic than there is (the second is cut
  off) and one in a layer of its own; two configs, since the properties compare
  two, of all 8 x 8 pairs; keys whose hash is in the first experiment, in the second, and
  1.0, while `TrafficIsSplit` goes through all buckets of all configs. One test id is an
  id, one a key that two experiments share. One flag is set in both layers, one in one.
* Platform: `MaxServices = 2`, the least with an admin of another service; two emails, one
  password (a wrong one finds nothing), three role codes of which one is unknown; one key;
  two flags, so that a body can name one that is not there or is another service's; five
  bodies, of which two share a layer, two a name, one has a second flag, and one is too
  much. `MaxRows = 3` is users and experiments together (two admins and a user, two admins
  and an experiment, or an admin and two experiments, which is where the races are), and
  `MaxUnderWay = 2` is the least that races.
* `MaxFaults = 1`: a failing statement or a restart at every point. What a fault leaves
  behind is a state from which the invariants must hold again, so a second fault adds
  depth and no new situation. In `platform_safety` faults and restarts are not counted.
* Symmetry, in safety runs only, permutes experiments where nothing orders them.
* Deadlock checking is on, but says little, since the schedulers can always scan again.
  That transactions do not wait for each other for good is in the progress runs.

### Fairness

`BuildStep`, `SourceStep`, `RecalculationStep` and `PatchWrite` are weakly fair: a
handler's coroutine that can execute its next statement does. `DeadlockVictim` and
`RecalculationVictim` are among these steps, since PostgreSQL's detector always ends one of them.
`SchedulerScan` and `ScanPending` are weakly fair because `utils::PeriodicTask` runs the
iteration again after each end, with or without an exception, and the loops over their
result sets continue (`SchedulerBuild`, `ScheduledRecalculation`). `CallStep` of `EndUsers`
and `AccessStep` are weakly fair like the other handlers. Nobody is assumed to
send requests and faults are not assumed to happen.

`RequestStep` of `ExperimentCreation` alone is strongly fair. An INSERT that waits for the
unique key of another transaction is enabled when that ends and disabled when a third
inserts the same key. PostgreSQL wakes the waiter at the end of the first, and the third,
which has yet to send its statements, comes later; weak fairness would allow it to win
every time. Everywhere else weak fairness is enough: what a statement waits for
becomes free because the transaction that holds it ends.

### What the properties do not say

* `LifecycleOrder` and `ExpiredIsWithdrawn` are stated for one operator. With two,
  a stale `send_to_queue` can put an expired experiment back in the queue, its window
  still in place.
* `WithdrawnStaysOut` is checked, and proved, for one operator and without `add_to_config`: with it an experiment can run
  without ever having been in a config, be completed while the first build has it
  selected, and so get into the config after its end.
* `publication_progress` has no manual `complete` either (its constant `Actions`);
  `OneOperatorKeepsOrder` proves the lifecycle order for all actions.
* A manual `complete` does not trigger a build: the experiment stays in the latest config
  until something else does. `ExpiredIsWithdrawn` is about expiry only.
  In the same way `add_to_config` by hand takes an experiment out of the queue, and so
  takes away what would have triggered a build: ADDED_IN_CONFIG does not say that the
  experiment is in a config.
* `CleanIsFresh` excludes recalculations that raced. This is not a weakness of the
  invariant: `metrics_lost_mark` and `metrics_twice` show both ways in which it fails
  otherwise.
* `DeviceIsOneUser` says nothing of calls without a device: nothing is unique about external
  ids, and `users_external` shows it.
* `FlagsFollowLayers` compares configs in which each layer has the same oldest experiment.
  When a layer gains or loses its oldest, layers can change places, and the values of a
  user change though none of his variants does.
* `RevokedIsRefused` is about requests that come after the revocation. One that was let in
  before goes on, and is logged.
* `LoginMeetsOneAccount` is for a login that names its service. One that does not is asked
  to choose if several services match, and whoever registers the same service twice
  (after a lost answer, say) has two of one name.
* `AdminsCreateTheirOwn` is about what is created after the registration, and about the
  revocation of keys. It says nothing of the status of experiments: a session of any role may
  PATCH it (`CanChangeExperimentLifecycle` is always true), the scheduler changes it without
  one, and both are in `ConfigPublication`, which has no sessions. Nor does it say who sent
  a request: only that it could have been sent by an admin of the service, who is
  logged in at that moment, and for an experiment by the admin named as its creator.
* `DirtyIsRecalculated` speaks of the mark, `StaleIsRecalculated` of the results. The
  first holds, the second does not.

Each property has a mutant in `PROJECT.json`: a change of one definition, as a
plausible edit of the code would make it, with which the same run finds the property
violated. Their operators are named `Bug...` and nothing else uses them.

## Disagreements between code and documentation

* **Two PATCHes** (`experiment_service.cpp:490`). The UPDATE has only `WHERE id`; the
  status that was checked is that of an earlier statement. `publication_two_operators`
  moves an experiment along an edge that is not in `kTransitions`.
* **Lost mark** (`metric_service.cpp:552`). An event whose transaction waits for the row
  of the experiment's state marks it afterwards and is safe; one that commits after the
  aggregation and before the clean mark is overwritten, and one whose assignment
  is not committed marks nothing. The experiment then stays stale until the next source.
* **Results twice** (`metric_service.cpp:482`, `create_db.sql:241`). `slice_id` is NULL
  in every row, so the unique constraint compares equal to nothing.
* **A user without device** (`event_service.cpp:67`). A call by device writes its external
  id into the row of the device, so several rows can have it, and a look-up by external id
  takes the oldest. In `users_external` no calls overlap: a device gets row 1, a request by
  external id row 2, a request of the device with that id writes the id into row 1, and the
  event of the second request is logged under row 1 and not joined with its assignment.
  Two first requests of one external id at once, each of which finds nothing and
  inserts a row, have the same effect; that race is in `Spec` and not in this run.
* **Shifted ranges** (`assignment_service.cpp:248`). The ranges of a layer are laid out in
  the order of ids for every config anew. In `rollout_shift` experiment 3 is published, a key
  is given a variant of it, 1 of the same layer is published too, and a later request
  of the key is given a variant of 1, although 3 still runs. `StableBehindEarlier` is what
  does hold.
* **Login** (`assignment_service.cpp:159`, without a run). The identity is by device first,
  the hash by external id first: a user who logs in keeps the end user and changes buckets.

## Proofs

All proofs are for any sets of experiments, services, operators, requests and so on, any
bounds, and the named assumptions of the modules (ids and durations
are numbers, experiments are designed as the code lets them be and one of them is the
newest, functions have their types, bounds are numbers, the scheduler is no admin or
analyst).

**`ConfigPublicationProofs`.** `VersionInv` is `TypeOK`, `VersionsInOrder` and
`BuildVersions`: the number a build has taken is at most one above what is committed,
and a build that has inserted has the next number and is the only one to have it.
Without the last part the invariant is not inductive: the commit of an overtaken build
would leave a gap or a duplicate.

**`PublicationHistoryProofs`.** Row stability first, since everything about builds
rests on it. `WindowInv` adds to `WindowComplete` what an operator knows between SELECT
and UPDATE. `SnapshotInv` says that the experiments a build has selected contain those
it queued and none it expired, and that each is still one of the service and no draft at
the commit; with it `ImplementsPublicationHistory` maps the commit to one atomic `Publish` step, a
PATCH's UPDATE to `Move`, and everything else to a stutter. `CurrentInv` carries
`OneOperatorKeepsOrder`: with a single operator the status between SELECT and
UPDATE is the one that was read, or one a build has moved it to. `ServedInv` carries
`WithdrawnAlwaysStaysOut`: what is running or added is in the latest config, and a build
that can still publish (its number is the next one) has everything that is served except
what it completed itself, and of the finished experiments only those still served. A build
whose number was taken meanwhile publishes nothing, so the second part needs to hold only
until a commit; and with one operator who never adds by hand, only a commit can make an
experiment running or added.

**`MetricRecalculationProofs`.** `FreshInv` has four parts besides types and
`CleanIsFresh`. `Single`: one transaction per calculator. `AloneInv`: while a
recalculation is alone, no call that can change its results is open and no other
recalculation of its experiment. `WorkInv`: what it has read is then still what there is
to read, and it has found all old results, so its commit leaves exactly the current
ones. `MarkInv` is for what comes afterwards: an open call has all experiments it has to
mark, and those an event misses, because it does not see their assignment, are not clean
or have raced. The case that needs care is the commit of an assignment that an open event
has overtaken; it marks all of `Plan` itself. `ResultsAlwaysStay` follows from `WorkInv`
(a recalculation that commits has a row for each metric, and it has metrics).
`SchedulerKeepsOneResult` assumes `Analysts = {}` and adds that the rows of a
recalculation are of different metrics and that it has found the old ones.

`ImplementsMetricReports` is about any number of recalculations at once, raced or not.
`ReportInv` has three parts. `Reporting`, of an open recalculation: its rows are of the
metrics it found attached, one each, nested in each other, and each is what some part of
the logs calls for; what it has found to delete (or deleted already) is still there and
knows no more than each of its rows; and among that is its own last report, of metrics that
are attached. `Apart`: no two recalculations have deleted the same report. `Reported`: a row
in the results counts nothing that the logs would not give now. The last is what a DELETE
starts from: what it finds is contained in the samples that are taken after it, since logs
only grow. `Apart` is what keeps the first true when another commits: what that one
removes is taken off what the others wait for. So a commit is one `PublishReport`, the commit of a
source one `Record`, and every other step a stutter.

**`EndUsersProofs`.** `UserInv` has, besides types, the uniqueness of ids and devices
among committed rows. It is kept by what is known of uncommitted ones: each is a new
version of a committed row with the same device, or has an id and a device that no
committed row has (`WrittenInv`), and no two of them share either (`ApartInv`). For the
former, an UPDATE must not change a device: the row was found by device, or the call has
none (`FoundInv`). `DoneInv` ties what was answered to the rows.
`ImplementsUserRegistry` adds two parts. `VersionInv`: an uncommitted row is what its call
makes of the row it found *as that is now*, or a new one, so that its commit undoes nothing.
It holds since nobody else can write the same row meanwhile. `KnownInv`: the external id of
each row came with a call that was answered with it, and so did the one a call has found.

**`ConfigFeedProofs`** maps the configs of a service to the sequence of their experiments.
`EachServiceHasAFeed`, in `PublicationHistoryProofs`, puts this and
`ImplementsPublicationHistory` together: the statements of builds implement what `Rollout`
is composed with, so that what is proved of `Rollout` holds of requests next to them.

**`RolloutProofs`.** `RolloutInv` says that an answer has the assignments of the config
of its version (`ConfigInv`), and that requests answered before another began stay
answered, with versions no later than its own (`OrderInv`). `VariantsAreStable` rests on
`SelectByElders`: whether an experiment is selected depends on those before it in its
layer only, whatever they sum up to. `TestIdsShowVariants` and `FlagsAlwaysFollowLayers`
need that a set of ids has a least one (`LeastId`), so that a layer with an experiment has
an oldest, and a test id that names something names a first; and that among the layers of
the variants that set a flag there is a last. The flags of an answer are a function of its
assignments and of the heads of its config only.

`TrafficIsAlwaysSplit` needs induction: over the sum of traffic in `Cursor`, which is a fold,
and over the elders of an experiment. The library's induction theorems take an operator as a
parameter, so each claim is shown by its smallest counterexample instead
(`SmallestSubset`, `LeastId`). That the fold of a finite set is what its recursion says
(`FoldExists`, `FoldsAgree`, `SumUnfolds`) gives `SumAdds`: any one experiment can be added
last. From there `CursorMoves` (an experiment begins where the newest of its elders ends),
`BucketsAreInterval` and `EldersTakeAllBefore` (its elders have all buckets before its own, so
nothing overlaps and what it gets is its traffic or what is left). For variants,
`HashBound(e, k)` is the first hash at or above k/n, and the hashes of variant k are those
from `HashBound(e, k - 1)` to below `HashBound(e, k)`, which are as many for each up to one.
`AnswersHaveOneOfEach` uses that the intervals are apart: a bucket has one experiment, a hash
one variant, a test id picks the first of its layer; and that the layers that set a flag are
ordered by their oldest experiments, so the last of them is one.

**`AccessProofs`.** `AccessInv` adds to types, `SessionsOfUsers` and `AccountsComplete`
that a service has one user of an email (`UsersInv`), and what a request knows between two
statements (`CallsInv`): the user it is answering for is committed; what it has inserted no
committed user has and no other request has inserted; a key that was revoked when it came
still is, and the key it acts for is of its service. `AccessIsSafe` is about `Access` on its
own; its step lemmas are used again where `Access` is composed.

**`ExperimentCreationProofs`.** `CreationInv` is `AccessInv`, types, `NoEmptyLayer`,
`OneServiceThroughout` and what is known of committed designs and open requests.
`DesignsInv`: each experiment is, with its variants, what one valid body asked for, and no
variant is without an experiment; listings are complete because of it. `CreationOK`: the
session of an open transaction is still that of an admin, its layer is there or its own, and
once it has inserted its name no committed experiment and no other open transaction has
it, or a commit could bring a second experiment of a name, and the refinement would fail.
`InsertsInv` says of an inserted user what `CreationOK` says of a session. The two are what
`AdminsAlwaysCreateTheirOwn` rests on: what commits was begun in a session of an admin that
is still there, since a restart closes both sessions and requests.

| Only model-checked | Why |
|---|---|
| `QueuedIsPublished`, `ExpiredIsWithdrawn`, `DirtyIsRecalculated`, `CallsEnd`, `RequestsEnd` | liveness under fairness is out of the prover's reach |
| the violated properties | a counterexample is all there is to show |

## Plan

What would come next, each with runs, mutants and proofs as above:

1. `MetricRecalculation` takes its `Plan` from `Assign`, with requests that are sent again
   under one `req_id`.
2. An abstract specification of accounts, sessions and keys, as `Catalogue` is one of
   experiments, with a refinement of `Access`.
3. The UI and the demo client: answers that arrive after the session or the assignment they
   belong to is gone.

## Not modelled

The statistics of a result and the rounding of traffic (floating point); HTTP parsing and
JSON formatting; password hashing; the catalogues of metrics and features, which are single
statements, and the other read endpoints; the UI and the demo client, whose requests are
the actions of the models and whose own state is on the page. PostgreSQL is modelled
from what the statements in the code use of it: READ COMMITTED visibility, row locks until
the end of the transaction, unique constraints, deadlock detection, rollback.

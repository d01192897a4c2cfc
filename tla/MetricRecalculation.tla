-------------------------- MODULE MetricRecalculation --------------------------
(***************************************************************************)
(* Metric results and the dirty marks that ask for their recalculation.    *)
(*                                                                         *)
(* Three kinds of calls change what an experiment's results should be, each *)
(* in a transaction of its own: resolving flags logs assignments, ingesting *)
(* an event logs the event, attaching a metric binds it.  Each marks the   *)
(* experiments it knows to be concerned as dirty.  A recalculation, started *)
(* by the scheduler or by POST /metric-results, deletes the results of an  *)
(* experiment, aggregates the logs again and marks it clean.  Statements   *)
(* are READ COMMITTED: each sees what is committed when it starts; a row    *)
(* that an open transaction has written makes other writers wait.          *)
(***************************************************************************)
EXTENDS Naturals, FiniteSets

CONSTANTS
    Experiments,   \* ids
    Metrics,
    Requests,      \* an end user with a req_id, as flags are resolved for it
    Plan,          \* the experiments a request is assigned to, one per layer
    Events,        \* calls of POST /runtime/events
    RequestOf,     \* the request an event names: a member of Requests, or not
    Analysts,      \* requests POST /metric-results can be in flight for
    Scheduler,     \* the periodic task of MetricCalculationScheduler
    MaxPosts,      \* bound: recalculations started by analysts
    MaxFaults      \* bound: failing statements and process restarts

Attachments == Experiments \X Metrics

\* Calls that change what the results should be; each is made at most once.
Sources == Attachments \cup Requests \cup Events

Calculators == Analysts \cup {Scheduler}

ASSUME ExperimentAssumption == Experiments \subseteq Nat
ASSUME PlanAssumption == Plan \in [Requests -> SUBSET Experiments]
ASSUME SourceAssumption ==
    /\ Attachments \cap (Requests \cup Events) = {}
    /\ Requests \cap Events = {}
ASSUME CalculatorAssumption == Scheduler \notin Analysts
ASSUME BoundAssumption == MaxPosts \in Nat /\ MaxFaults \in Nat

VARIABLES
    draft,    \* experiments that are DRAFT or IN_QUEUE
    log,      \* committed rows: AssignmentLog, EventsLog, ExperimentMetric
    state,    \* ExperimentMetricCalculationState, as committed
    results,  \* MetricResult, as committed: per experiment, by who inserted the rows
    sent,     \* calls that were made
    source,   \* per call, its open transaction
    calc,     \* per calculator, its open transaction
    agenda,   \* experiments the scheduler's iteration has yet to recalculate
    alone,    \* history: calculators whose recalculation overlapped with no other
              \* transaction that its experiment's results depend on
    raced,    \* history: experiments whose last recalculation was not alone
    budget    \* what is left of the bounds

logs == <<draft, log, sent>>
tables == <<state, results, raced>>
vars == <<draft, log, state, results, sent, source, calc, agenda, alone, raced, budget>>

(* Operators named Bug... are deviations a change to the code could bring in;    *)
(* nothing uses them but the mutation runs listed in the project file.          *)

\* What a source has still to mark, and what it has marked (and locked).
Marks == [todo : SUBSET Experiments, marked : SUBSET Experiments]

\* A MetricResult row: what went into it is the requests and events it counts.
Row == [metric : Metrics, sample : SUBSET (Requests \cup Events)]

\* todo and deleted name old results by who inserted them.
Recalculation ==
    [experiment : Experiments, phase : {"begun", "replacing", "marked"},
     attached : SUBSET Metrics, todo : SUBSET Calculators, deleted : SUBSET Calculators,
     rows : SUBSET Row]

Init ==
    /\ draft = Experiments
    /\ log = {}
    /\ state = [e \in Experiments |-> "none"]
    /\ results = [e \in Experiments |-> [c \in Calculators |-> {}]]
    /\ sent = {}
    /\ source = [s \in Sources |-> {}]
    /\ calc = [c \in Calculators |-> {}]
    /\ agenda = {}
    /\ alone = {}
    /\ raced = {}
    /\ budget = [posts |-> MaxPosts, faults |-> MaxFaults]

BugAttachedRows(e) == {p \in log \cap Attachments : p[1] = e}

Attached(e) == {m \in Metrics : <<e, m>> \in log}

BugUnjoined(e) == {r \in Requests \cap log : e \in Plan[r]} \cup (Events \cap log)

\* The rows of the aggregation query: distinct assigned requests, and the
\* events joined to them.
Sample(e) ==
    LET assigned == {r \in Requests \cap log : e \in Plan[r]}
    IN  assigned \cup {v \in Events \cap log : RequestOf[v] \in assigned}

\* What the results of e would be if they were calculated now.
Current(e) == [metric : Attached(e), sample : {Sample(e)}]

\* The calls that can change Current(e).
Relevant(s, e) ==
    \/ s \in Attachments /\ s[1] = e
    \/ s \in Requests /\ e \in Plan[s]
    \/ s \in Events /\ RequestOf[s] \in Requests /\ e \in Plan[RequestOf[s]]

\* The row of e in ExperimentMetricCalculationState is written by an open
\* transaction other than that of s (a source or a calculator).
StateRowHeld(s, e) ==
    \/ \E t \in Sources \ {s} : \E x \in source[t] : e \in x.marked
    \/ \E c \in Calculators \ {s} : \E r \in calc[c] : r.phase = "marked" /\ r.experiment = e

ResultsHeld(c, e, d) ==
    \E b \in Calculators \ {c} : \E r \in calc[b] : r.experiment = e /\ d \in r.deleted

------------------------------------------------------------------------------
(* Sources                                                                 *)

\* The beginning of a source's transaction, up to the statement that finds
\* which experiments to mark.  A recalculation that is under way is not alone.
BeginSource(s, todo) ==
    /\ s \notin sent
    /\ sent' = sent \cup {s}
    /\ source' = [source EXCEPT ![s] = {[todo |-> todo, marked |-> {}]}]
    /\ alone' = {c \in alone : \A r \in calc[c] : ~ Relevant(s, r.experiment)}
    /\ UNCHANGED <<draft, log, tables, calc, agenda, budget>>

\* POST /runtime/flags: the latest config names the experiments.
ResolveFlags(r) ==
    /\ Plan[r] \cap draft = {}
    /\ BeginSource(r, Plan[r])

\* MarkExperimentsDirtyByRequest selects the experiments whose assignment of
\* the same request it can see.
DirtyByRequest(v) ==
    {e \in Experiments : RequestOf[v] \in Requests \cap log /\ e \in Plan[RequestOf[v]]}

\* POST /runtime/events
IngestEvent(v) == BeginSource(v, DirtyByRequest(v))

\* POST /experiment-metrics
AttachMetric(e, m) == BeginSource(<<e, m>>, {e})

\* One row of the upsert that marks dirty.  Flags are resolved layer by layer,
\* the others have one statement, in an order nothing fixes.
MarkDirty(s) ==
    \E x \in source[s] : \E e \in x.todo :
        /\ s \in Requests => \A f \in x.todo : e <= f
        /\ ~ StateRowHeld(s, e)
        /\ source' = [source EXCEPT ![s] = {[todo |-> x.todo \ {e}, marked |-> x.marked \cup {e}]}]
        /\ UNCHANGED <<logs, tables, calc, agenda, alone, budget>>

BugMarkNewOnly(s) ==
    /\ \E x \in source[s] :
         /\ x.todo = {}
         /\ state' = [e \in Experiments |->
                        IF e \in x.marked /\ state[e] = "none" THEN "dirty" ELSE state[e]]
    /\ log' = log \cup {s}
    /\ source' = [source EXCEPT ![s] = {}]
    /\ UNCHANGED <<draft, results, sent, calc, agenda, alone, raced, budget>>

CommitSource(s) ==
    /\ \E x \in source[s] :
         /\ x.todo = {}
         /\ state' = [e \in Experiments |-> IF e \in x.marked THEN "dirty" ELSE state[e]]
    /\ log' = log \cup {s}
    /\ source' = [source EXCEPT ![s] = {}]
    /\ UNCHANGED <<draft, results, sent, calc, agenda, alone, raced, budget>>

AbortSource(s) ==
    /\ source' = [source EXCEPT ![s] = {}]
    /\ UNCHANGED <<logs, tables, calc, agenda, alone>>

Blocks(s, t) == \E x \in source[s], y \in source[t] : s # t /\ x.todo \cap y.marked # {}

\* PostgreSQL ends one of the transactions that wait for each other.
DeadlockVictim(s) ==
    /\ \E cycle \in SUBSET Sources :
          s \in cycle /\ \A a \in cycle : \E b \in cycle : Blocks(a, b)
    /\ AbortSource(s)
    /\ UNCHANGED budget

------------------------------------------------------------------------------
(* MetricService::RecalculateExperimentMetrics                             *)

Continue(c, r) ==
    /\ calc' = [calc EXCEPT ![c] = {r}]
    /\ UNCHANGED <<logs, tables, source, agenda, alone, budget>>

\* BEGIN and the SELECT of the attached metrics; without any it is an error.
BeginRecalculation(c, e) ==
    LET others == {d \in Calculators \ {c} : \E r \in calc[d] : r.experiment = e}
        open == {s \in Sources : source[s] # {} /\ Relevant(s, e)}
    IN  /\ calc[c] = {}
        /\ Attached(e) # {}
        /\ calc' = [calc EXCEPT ![c] =
                      {[experiment |-> e, phase |-> "begun", attached |-> Attached(e),
                        todo |-> {}, deleted |-> {}, rows |-> {}]}]
        /\ alone' = IF others = {} /\ open = {} THEN alone \cup {c} ELSE alone \ ({c} \cup others)

\* The DELETE of the old results finds its rows ...
ScanResults(c) ==
    \E r \in calc[c] :
        /\ r.phase = "begun"
        /\ Continue(c, [r EXCEPT !.phase = "replacing",
                                 !.todo = {d \in Calculators : results[r.experiment][d] # {}}])

BugDeleteAtOnce(c) ==
    \E r \in calc[c] : \E d \in r.todo :
        /\ ~ ResultsHeld(c, r.experiment, d)
        /\ calc' = [calc EXCEPT ![c] = {[r EXCEPT !.todo = @ \ {d}]}]
        /\ results' = [results EXCEPT ![r.experiment][d] = {}]
        /\ UNCHANGED <<logs, state, raced, source, agenda, alone, budget>>

BugDeleteNothing(c) ==
    \E r \in calc[c] : \E d \in r.todo : Continue(c, [r EXCEPT !.todo = @ \ {d}])

\* ... and takes them, waiting for whoever deletes the same rows.
DeleteResults(c) ==
    \E r \in calc[c] : \E d \in r.todo :
        /\ ~ ResultsHeld(c, r.experiment, d)
        /\ Continue(c, [r EXCEPT !.todo = @ \ {d}, !.deleted = @ \cup {d}])

\* One metric: the aggregation query, and the INSERTs of its results.
QueryVariantAggregates(c) ==
    \E r \in calc[c] : \E m \in r.attached :
        /\ r.phase = "replacing"
        /\ r.todo = {}
        /\ \A x \in r.rows : x.metric # m
        /\ Continue(c, [r EXCEPT !.rows = @ \cup {[metric |-> m, sample |-> Sample(r.experiment)]}])

MarkClean(c) ==
    \E r \in calc[c] :
        /\ r.phase = "replacing"
        /\ r.todo = {}
        /\ \A m \in r.attached : \E x \in r.rows : x.metric = m
        /\ ~ StateRowHeld(c, r.experiment)
        /\ Continue(c, [r EXCEPT !.phase = "marked"])

BugForgetClean(r) == state

\* The state that a recalculation commits.
CleanState(r) == [state EXCEPT ![r.experiment] = "clean"]

\* COMMIT: the old rows that were deleted are gone, for those too who waited
\* for them.
CommitRecalculation(c) ==
    \E r \in calc[c] :
        LET e == r.experiment
            kept(d) == IF d \in r.deleted THEN {} ELSE results[e][d]
        IN  /\ r.phase = "marked"
            /\ state' = CleanState(r)
            /\ results' = [results EXCEPT ![e] =
                             [d \in Calculators |-> IF d = c THEN kept(d) \cup r.rows ELSE kept(d)]]
            /\ raced' = IF c \in alone THEN raced \ {e} ELSE raced \cup {e}
            /\ alone' = alone \ {c}
            /\ calc' = [d \in Calculators |->
                          {[q EXCEPT !.todo = IF q.experiment = e THEN @ \ r.deleted ELSE @] :
                             q \in calc[d] \ {x \in {r} : d = c}}]
            /\ UNCHANGED <<logs, source, agenda, budget>>

\* An exception; the scheduler's iteration ends with it.
AbortRecalculation(c) ==
    /\ calc' = [calc EXCEPT ![c] = {}]
    /\ alone' = alone \ {c}
    /\ agenda' = IF c = Scheduler THEN {} ELSE agenda
    /\ UNCHANGED <<logs, tables, source>>

WaitsFor(c, b) ==
    \E q \in calc[c], r \in calc[b] :
        c # b /\ q.experiment = r.experiment /\ q.todo \cap r.deleted # {}

\* Two that delete what earlier recalculations left, each in its own order.
RecalculationVictim(c) ==
    /\ \E cycle \in SUBSET Calculators :
          c \in cycle /\ \A a \in cycle : \E b \in cycle : WaitsFor(a, b)
    /\ AbortRecalculation(c)
    /\ UNCHANGED budget

------------------------------------------------------------------------------
(* Who recalculates                                                        *)

\* POST /metric-results
PostRecalculation(c, e) ==
    /\ c \in Analysts
    /\ budget.posts > 0
    /\ budget' = [budget EXCEPT !.posts = @ - 1]
    /\ BeginRecalculation(c, e)
    /\ UNCHANGED <<logs, tables, source, agenda>>

\* RecalculatePendingMetrics: the published experiments that have metrics and
\* are dirty or were never calculated ...
ScanPending ==
    /\ agenda = {}
    /\ calc[Scheduler] = {}
    /\ agenda' = {e \in Experiments \ draft : Attached(e) # {} /\ state[e] # "clean"}
    /\ UNCHANGED <<logs, tables, source, calc, alone, budget>>

\* ... one after the other, in order of id.
ScheduledRecalculation(e) ==
    /\ e \in agenda
    /\ \A f \in agenda : e <= f
    /\ agenda' = agenda \ {e}
    /\ BeginRecalculation(Scheduler, e)
    /\ UNCHANGED <<logs, tables, source, budget>>

------------------------------------------------------------------------------
(* The environment                                                         *)

\* A build puts the experiment into the config; it never becomes a draft again.
Publish(e) ==
    /\ draft' = draft \ {e}
    /\ UNCHANGED <<log, sent, tables, source, calc, agenda, alone, budget>>

Fault == budget.faults > 0 /\ budget' = [budget EXCEPT !.faults = @ - 1]

\* A statement fails (connection lost, statement timeout).
SourceFails(s) == source[s] # {} /\ Fault /\ AbortSource(s)

RecalculationFails(c) == calc[c] # {} /\ Fault /\ AbortRecalculation(c)

\* The backend stops and starts: all open transactions roll back.
Restart ==
    /\ Fault
    /\ source' = [s \in Sources |-> {}]
    /\ calc' = [c \in Calculators |-> {}]
    /\ agenda' = {}
    /\ alone' = {}
    /\ UNCHANGED <<logs, tables>>

------------------------------------------------------------------------------

SourceStep(s) == MarkDirty(s) \/ CommitSource(s) \/ DeadlockVictim(s)

RecalculationStep(c) ==
    \/ ScanResults(c)
    \/ DeleteResults(c)
    \/ QueryVariantAggregates(c)
    \/ MarkClean(c)
    \/ CommitRecalculation(c)
    \/ RecalculationVictim(c)

Next ==
    \/ \E e \in Experiments : Publish(e)
    \/ \E r \in Requests : ResolveFlags(r)
    \/ \E v \in Events : IngestEvent(v)
    \/ \E e \in Experiments, m \in Metrics : AttachMetric(e, m)
    \/ \E s \in Sources : SourceStep(s)
    \/ \E s \in Sources : SourceFails(s)
    \/ \E c \in Calculators, e \in Experiments : PostRecalculation(c, e)
    \/ \E e \in Experiments : ScheduledRecalculation(e)
    \/ \E c \in Calculators : RecalculationStep(c)
    \/ \E c \in Calculators : RecalculationFails(c)
    \/ ScanPending
    \/ Restart

\* Open transactions go on, and the periodic task runs again and again.
Fairness ==
    /\ \A s \in Sources : WF_vars(SourceStep(s))
    /\ \A c \in Calculators : WF_vars(RecalculationStep(c))
    /\ WF_vars(ScanPending)
    /\ WF_vars(\E e \in Experiments : ScheduledRecalculation(e))

Spec == Init /\ [][Next]_vars

FairSpec == Spec /\ Fairness

------------------------------------------------------------------------------
(* Properties                                                              *)

\* Every variable stays in its type.
TypeOK ==
    /\ draft \in SUBSET Experiments
    /\ log \in SUBSET Sources
    /\ state \in [Experiments -> {"none", "dirty", "clean"}]
    /\ results \in [Experiments -> [Calculators -> SUBSET Row]]
    /\ sent \in SUBSET Sources
    /\ source \in [Sources -> SUBSET Marks]
    /\ calc \in [Calculators -> SUBSET Recalculation]
    /\ agenda \in SUBSET Experiments
    /\ alone \in SUBSET Calculators
    /\ raced \in SUBSET Experiments
    /\ budget \in [posts : Nat, faults : Nat]

\* The results of e are those of the logs: one row for each attached metric.
Fresh(e) ==
    \E c \in Calculators :
        results[e] = [d \in Calculators |-> IF d = c THEN Current(e) ELSE {}]

\* An experiment that is marked clean has the results its logs call for, and
\* each once, if its last recalculation was alone: every assignment, event and
\* attachment that commits afterwards leaves a mark, although an event only
\* marks the assignments it can see.  (Not alone is not enough: see the runs
\* metrics_lost_mark and metrics_twice.)
CleanIsFresh == \A e \in Experiments : state[e] = "clean" /\ e \notin raced => Fresh(e)

\* Results are replaced, never taken away: whoever lists the results of an
\* experiment that has some finds some, whatever recalculation is under way,
\* failed or was cut off between its DELETE and its INSERTs.
HasResults(e) == \E c \in Calculators : results[e][c] # {}
ResultsStay == [][\A e \in Experiments : HasResults(e) => HasResults(e)']_vars

\* One result for each experiment, variant and metric (the constraint
\* uq_metricresult_unique_bucket).  It holds as long as only the scheduler
\* recalculates.
OneResultPerBucket ==
    \A e \in Experiments, c, d \in Calculators :
        \A x \in results[e][c], y \in results[e][d] : x.metric = y.metric => c = d /\ x = y

\* A published experiment with metrics that is not clean is recalculated,
\* through failures, restarts and deadlocks.
DirtyIsRecalculated ==
    \A e \in Experiments :
        e \notin draft /\ Attached(e) # {} /\ state[e] # "clean" ~> state[e] = "clean"

\* The dirty marks ask for every recalculation that is needed: results that
\* are not those of the logs are recalculated.
StaleIsRecalculated ==
    \A e \in Experiments : e \notin draft /\ HasResults(e) /\ ~ Fresh(e) ~> Fresh(e)

\* Whatever recalculates at the same time and whatever commits meanwhile, fails
\* or is cut off: a commit of RecalculateExperimentMetrics is one step of
\* MetricReports.  Each of its rows is what the aggregation query would have
\* found at some moment (an event is counted only with its assignment), and it
\* deletes nothing that knows more than what it inserts.
Reports == INSTANCE MetricReports
ImplementsReports == Reports!ReportsSpec

==============================================================================

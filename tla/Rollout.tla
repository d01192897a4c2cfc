-------------------------------- MODULE Rollout --------------------------------
(***************************************************************************)
(* Requests of flags while configs are published: ResolveFlags reads the      *)
(* latest config in one statement, computes the assignments, and logs them    *)
(* when its transaction commits; meanwhile builds go on.  One service, as     *)
(* every statement names it.  The end user of the request and the dirty marks *)
(* of its transaction are in EndUsers and MetricRecalculation.                *)
(***************************************************************************)
EXTENDS Assignment, Sequences

CONSTANTS
    Requests,
    MaxVersions    \* bound on published configs

ASSUME BoundAssumption == MaxVersions \in Nat

VARIABLES
    feed,       \* the configs, version by version
    active,     \* per request, what its open transaction knows
    answer,     \* per request that was answered, what it got
    earlier     \* per request, those that were answered before it began

Feed == INSTANCE ConfigFeed

vars == <<feed, active, answer, earlier>>

(* Operators named Bug... are deviations a change to the code could bring in;    *)
(* nothing uses them but the mutation runs listed in the project file.          *)

\* The version is 0 before the first config is published.
Answer ==
    [key : SubjectKeys, testId : TestIds, version : Nat,
     assignments : SUBSET VariantsOf(Experiments),
     flags : SUBSET (Flags \X VariantsOf(Experiments))]

Init ==
    /\ Feed!FeedInit
    /\ active = [r \in Requests |-> {}]
    /\ answer = [r \in Requests |-> {}]
    /\ earlier = [r \in Requests |-> {}]

Publish ==
    /\ Len(feed) < MaxVersions
    /\ Feed!PublishConfig
    /\ UNCHANGED <<active, answer, earlier>>

\* BEGIN and the look-up of the end user.
ResolveFlags(r, key, testId) ==
    /\ active[r] = {} /\ answer[r] = {}
    /\ active' = [active EXCEPT ![r] =
         {[key |-> key, testId |-> testId, version |-> 0, assignments |-> {}, flags |-> {}]}]
    /\ earlier' = [earlier EXCEPT ![r] = {q \in Requests : answer[q] # {}}]
    /\ UNCHANGED <<feed, answer>>

BugAnyConfig == 1 .. Len(feed)

\* ORDER BY version DESC LIMIT 1
LatestConfig == {Len(feed)} \ {0}

\* The config is read, and what follows from it computed and logged.
ReadConfig(r) ==
    \E a \in active[r] : \E n \in LatestConfig :
        /\ a.version = 0
        /\ LET given == Assign(feed[n], a.key, a.testId)
           IN active' = [active EXCEPT ![r] =
                {[a EXCEPT !.version = n, !.assignments = given, !.flags = FlagValues(feed[n], given)]}]
        /\ UNCHANGED <<feed, answer, earlier>>

\* Without a config the request is answered at once.
NoConfig(r) ==
    \E a \in active[r] :
        /\ a.version = 0
        /\ LatestConfig = {}
        /\ active' = [active EXCEPT ![r] = {}]
        /\ answer' = [answer EXCEPT ![r] = {a}]
        /\ UNCHANGED <<feed, earlier>>

Commit(r) ==
    \E a \in active[r] :
        /\ a.version # 0
        /\ active' = [active EXCEPT ![r] = {}]
        /\ answer' = [answer EXCEPT ![r] = {a}]
        /\ UNCHANGED <<feed, earlier>>

\* A failing statement; a restart does it to all.
RequestFails(r) ==
    /\ active[r] # {}
    /\ active' = [active EXCEPT ![r] = {}]
    /\ UNCHANGED <<feed, answer, earlier>>

Next ==
    \/ Publish
    \/ \E r \in Requests, key \in SubjectKeys, testId \in TestIds : ResolveFlags(r, key, testId)
    \/ \E r \in Requests : ReadConfig(r) \/ NoConfig(r) \/ Commit(r) \/ RequestFails(r)

Spec == Init /\ [][Next]_vars

------------------------------------------------------------------------------
(* Properties                                                              *)

\* Every variable stays in its type, which has only variants that there are.
TypeOK ==
    /\ feed \in Seq(SUBSET Experiments)
    /\ active \in [Requests -> SUBSET Answer]
    /\ answer \in [Requests -> SUBSET Answer]
    /\ earlier \in [Requests -> SUBSET Requests]

\* The experiments of e's layer that were created before e.
Elders(config, e) == {d \in config : LayerOf[d] = LayerOf[e] /\ d < e}

\* The oldest experiment of each layer.
Heads(config) == {e \in config : Elders(config, e) = {}}

\* The buckets of each experiment of each config, and the hashes, but for 1.0,
\* of each variant.
BucketsOf ==
    [config \in SUBSET Experiments |->
        [e \in config |-> {b \in 0 .. Unit : e \in SelectExperiment(config, LayerOf[e], b)}]]

HashesOf ==
    [e \in Experiments |-> [v \in Variants(e) |-> {h \in 0 .. Unit - 1 : v \in SelectVariant(e, h)}]]

\* The experiments of a config share a layer without overlap: each has as many
\* of the Unit buckets as its traffic, until there are none left, and the hash
\* of 1.0 is nobody's.  And the variants of an experiment share its hashes
\* evenly.
TrafficIsSplit ==
    \A n \in DOMAIN feed : \A e \in feed[n] :
        LET buckets == BucketsOf[feed[n]]
            taken == UNION {buckets[d] : d \in Elders(feed[n], e)}
            left == Unit - Cardinality(taken)
        IN /\ buckets[e] \cap taken = {}
           /\ Cardinality(buckets[e]) = IF TotalTraffic(e) <= left THEN TotalTraffic(e) ELSE left
           /\ Unit \notin buckets[e]
           /\ \A v, w \in Variants(e) :
                /\ Cardinality(HashesOf[e][v]) - Cardinality(HashesOf[e][w]) \in -1 .. 1
                /\ v # w => HashesOf[e][v] \cap HashesOf[e][w] = {}

\* Of each layer an answer has one variant at most, although the parts of its
\* experiments are computed one from the other and can be cut off, and of each
\* flag one value at most, although variants of several layers set it: what a
\* user is shown is what is logged for him.
OneOfEach ==
    \A r \in Requests : \A a \in answer[r] :
        /\ \A p, q \in a.assignments : LayerOf[p[1]] = LayerOf[q[1]] => p = q
        /\ \A x, y \in a.flags : x[1] = y[1] => x = y
        /\ \A x \in a.flags : x[2] \in a.assignments /\ x[1] \in FlagsOf[x[2]]

\* An experiment that joins or leaves a layer moves nobody out of the
\* experiments before it: a key that has a variant of an experiment keeps it
\* while the experiment is in the config, behind the same others of its layer.
StableBehindEarlier ==
    \A q, r \in Requests : \A a \in answer[q], b \in answer[r] :
        \A p \in a.assignments :
            /\ a.key = b.key /\ a.testId = NoTestId /\ b.testId = NoTestId
            /\ b.version # 0
            /\ p[1] \in feed[b.version]
            /\ Elders(feed[a.version], p[1]) = Elders(feed[b.version], p[1])
            => p \in b.assignments

\* A request that begins after another was answered is not given an older
\* config.
NeverBack ==
    \A r \in Requests : \A q \in earlier[r] :
        \A a \in answer[q], b \in answer[r] : a.version <= b.version

\* Of a layer, what the test id of an answer names in its config, and what the
\* answer gives.
NamedIn(a, layer) ==
    {p \in NamedBy[a.testId] : p \in VariantsOf(ParseLayer(feed[a.version], layer))}

GivenIn(a, layer) == {p \in a.assignments : LayerOf[p[1]] = layer}

\* A test id shows its variant in every layer that has one in its config, and
\* changes nothing in the others.
TestIdShowsVariant ==
    \A q, r \in Requests : \A a \in answer[q], b \in answer[r] :
        a.key = b.key /\ a.version = b.version /\ a.testId = NoTestId
        => \A layer \in Layers :
             IF b.version # 0 /\ NamedIn(b, layer) # {}
             THEN \E p \in NamedIn(b, layer) : GivenIn(b, layer) = {p}
             ELSE GivenIn(b, layer) = GivenIn(a, layer)

\* Whatever variants of several layers set one flag, a request gets a value for
\* each flag that its variants set; and two requests with the same variants get
\* the same values while no layer gains or loses its oldest experiment, though
\* experiments that they are not in join and leave.
FlagsFollowLayers ==
    \A q, r \in Requests : \A a \in answer[q], b \in answer[r] :
        /\ \A p \in a.assignments : \A flag \in FlagsOf[p] : \E w \in a.assignments : <<flag, w>> \in a.flags
        /\ /\ a.assignments = b.assignments
           /\ a.version # 0 /\ b.version # 0
           /\ Heads(feed[a.version]) = Heads(feed[b.version])
           => a.flags = b.flags

\* A key that is given a variant of an experiment is given it again by a later
\* request, while the experiment is in the config.
StaysInExperiment ==
    \A r \in Requests : \A q \in earlier[r] : \A a \in answer[q], b \in answer[r] :
        \A p \in a.assignments :
            /\ a.key = b.key /\ a.testId = NoTestId /\ b.testId = NoTestId
            /\ b.version # 0
            /\ p[1] \in feed[b.version]
            => p \in b.assignments

================================================================================

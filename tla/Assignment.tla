------------------------------- MODULE Assignment -------------------------------
(***************************************************************************)
(* The choice of experiments and variants for one request: what              *)
(* assignment_service.cpp computes from a config and the ids of the request,  *)
(* with no state.  Traffic is counted in parts of 1/Unit, and the hash of a   *)
(* key is one of 0 .. Unit: HashToUnitInterval rounds to 1.0 when the first   *)
(* 53 bits of the hash are set.                                              *)
(***************************************************************************)
EXTENDS Integers, FiniteSetsExt

CONSTANTS
    Experiments,      \* by id
    Layers,
    LayerOf,          \* the layer of an experiment
    VariantCount,     \* how many variants an experiment has, numbered by id from 1
    TrafficWeight,    \* the weight of each of them
    Unit,             \* all traffic
    SubjectKeys,      \* external ids and devices
    LayerHash,        \* of a key and a layer
    VariantHash,      \* of a key and the salt of an experiment
    TestIds,          \* what the field test_id can hold, or
    NoTestId,         \* nothing
    NamedBy,          \* the variants whose id or key a test id is
    Flags,
    FlagsOf           \* the flags that a variant sets, each to a value of its own

\* Experiments as ValidateExperimentInput lets them be created: two variants or
\* more of one positive weight, with no more traffic than there is.
ASSUME DesignAssumption ==
    /\ Experiments \subseteq Nat
    /\ Experiments # {} => \E newest \in Experiments : \A e \in Experiments : e <= newest
    /\ LayerOf \in [Experiments -> Layers]
    /\ Unit \in Nat \ {0}
    /\ VariantCount \in [Experiments -> Nat \ {0, 1}]
    /\ TrafficWeight \in [Experiments -> 1 .. Unit]
    /\ \A e \in Experiments : VariantCount[e] * TrafficWeight[e] <= Unit

ASSUME HashAssumption ==
    /\ LayerHash \in [SubjectKeys -> [Layers -> 0 .. Unit]]
    /\ VariantHash \in [SubjectKeys -> [Experiments -> 0 .. Unit]]

ASSUME TestAssumption ==
    /\ NamedBy \in [TestIds -> SUBSET (Experiments \X Nat)]
    /\ NoTestId \in TestIds
    /\ NamedBy[NoTestId] = {}

Variants(e) == 1 .. VariantCount[e]

VariantsOf(experiments) == UNION {{e} \X Variants(e) : e \in experiments}

ASSUME FlagAssumption == FlagsOf \in [VariantsOf(Experiments) -> SUBSET Flags]

ClampTraffic(n) == IF n < Unit THEN n ELSE Unit

TotalTraffic(e) == ClampTraffic(VariantCount[e] * TrafficWeight[e])

\* The experiments of a layer in a config, which keeps them in the order of ids.
ParseLayer(config, layer) == {e \in config : LayerOf[e] = layer}

BugOrderByIdDesc(config, e) == {d \in ParseLayer(config, LayerOf[e]) : d > e}

\* Those that take their part of a layer before e does.
Before(config, e) == {d \in ParseLayer(config, LayerOf[e]) : d < e}

\* Where the part of e begins.
Cursor(config, e) == ClampTraffic(MapThenSumSet(TotalTraffic, Before(config, e)))

BugSelectInclusive(config, layer, bucket) ==
    {e \in ParseLayer(config, layer) :
        /\ Cursor(config, e) <= bucket
        /\ bucket <= ClampTraffic(Cursor(config, e) + TotalTraffic(e))}

\* The experiment whose part has the bucket, if there is one.
SelectExperiment(config, layer, bucket) ==
    {e \in ParseLayer(config, layer) :
        /\ Cursor(config, e) <= bucket
        /\ bucket < ClampTraffic(Cursor(config, e) + TotalTraffic(e))}

\* The first variant of e that a test id names, if there is one.
FindVariantByTestId(e, testId) ==
    {v \in Variants(e) :
        /\ <<e, v>> \in NamedBy[testId]
        /\ \A w \in Variants(e) : <<e, w>> \in NamedBy[testId] => v <= w}

BugFirstOfLayerOnly(config, layer, testId) ==
    {e \in ParseLayer(config, layer) :
        FindVariantByTestId(e, testId) # {} /\ Before(config, e) = {}}

\* The first experiment of the layer that has such a variant.
SelectExperimentByTestId(config, layer, testId) ==
    {e \in ParseLayer(config, layer) :
        /\ FindVariantByTestId(e, testId) # {}
        /\ \A d \in Before(config, e) : FindVariantByTestId(d, testId) = {}}

\* The variants behind which the bucket of the hash is.
Passed(e, hash) ==
    {v \in Variants(e) : v * TrafficWeight[e] * Unit <= hash * TotalTraffic(e)}

BugUpToBucket(e, hash) ==
    Passed(e, hash) \cup {v \in Variants(e) : \A w \in Variants(e) : w < v => w \in Passed(e, hash)}

\* The first that is not one of them, and the last for a hash of 1.0.
SelectVariant(e, hash) ==
    {v \in Variants(e) :
        \/ v \notin Passed(e, hash) /\ \A w \in Variants(e) : w < v => w \in Passed(e, hash)
        \/ v = VariantCount[e] /\ Passed(e, hash) = Variants(e)}

\* What a request is given in a layer: nothing, or a variant of an experiment.
AssignLayer(config, layer, key, testId) ==
    LET forced == SelectExperimentByTestId(config, layer, testId) IN
    IF forced # {}
    THEN UNION {{<<e, v>> : v \in FindVariantByTestId(e, testId)} : e \in forced}
    ELSE UNION {{<<e, v>> : v \in SelectVariant(e, VariantHash[key][e])} :
                  e \in SelectExperiment(config, layer, LayerHash[key][layer])}

Assign(config, key, testId) ==
    UNION {AssignLayer(config, layer, key, testId) : layer \in Layers}

BugNewest(config, layer) ==
    {e \in ParseLayer(config, layer) : \A d \in ParseLayer(config, layer) : d <= e}

\* The experiment with which a layer first appears in a config.
Oldest(config, layer) == {e \in ParseLayer(config, layer) : Before(config, e) = {}}

\* The layers of a config are in the order in which they appear: that of the
\* variant q after that of p.
LayerFollows(config, p, q) ==
    \E d \in Oldest(config, LayerOf[p[1]]), e \in Oldest(config, LayerOf[q[1]]) : d < e

BugSwapIds(config, assignments) ==
    UNION {{<<flag, <<p[2], p[1]>> >> : flag \in FlagsOf[p]} : p \in assignments}

\* flag_values: of the variants that set a flag, the last is the one that counts.
FlagValues(config, assignments) ==
    LET LastSetBy(flag, p) ==
          \A q \in assignments : flag \in FlagsOf[q] => ~ LayerFollows(config, p, q)
    IN UNION {{<<flag, p>> : flag \in {f \in FlagsOf[p] : LastSetBy(f, p)}} : p \in assignments}

================================================================================

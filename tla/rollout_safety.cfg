\* Two requests and two configs of three experiments.
CONSTANTS
    r1 = r1
    r2 = r2
    checkout = checkout
    search = search
    none = none
    byId = byId
    byKey = byKey
    color = color
    size = size
    Experiments = {1, 2, 3}
    Layers = {checkout, search}
    LayerOf <- TwoLayers
    VariantCount <- Counts
    TrafficWeight <- Weights
    Unit = 4
    SubjectKeys <- Keys
    LayerHash <- ByKey
    VariantHash <- ByKeyReversed
    TestIds = {none, byId, byKey}
    NoTestId = none
    NamedBy <- Named
    Flags = {color, size}
    FlagsOf <- Sets
    Requests = {r1, r2}
    MaxVersions = 2
SPECIFICATION Spec
INVARIANTS
    TypeOK
    TrafficIsSplit
    OneOfEach
    StableBehindEarlier
    NeverBack
    TestIdShowsVariant
    FlagsFollowLayers
CHECK_DEADLOCK FALSE

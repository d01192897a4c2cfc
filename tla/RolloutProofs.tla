----------------------------- MODULE RolloutProofs -----------------------------
(***************************************************************************)
(* The type invariant, NeverBack, StableBehindEarlier, TestIdShowsVariant,  *)
(* FlagsFollowLayers, TrafficIsSplit and OneOfEach, for any experiments,    *)
(* weights, hashes, test ids, flags, requests and configs.                  *)
(***************************************************************************)
EXTENDS Rollout, FiniteSetTheorems, TLAPS

\* What a request knows or was answered: its assignments are those of the
\* config of its version, and its flags follow from them.
FromConfig(a) ==
    /\ a.version \in 0 .. Len(feed)
    /\ a.assignments = IF a.version = 0 THEN {} ELSE Assign(feed[a.version], a.key, a.testId)
    /\ a.flags = IF a.version = 0 THEN {} ELSE FlagValues(feed[a.version], a.assignments)

ConfigInv ==
    \A r \in Requests : \A a \in active[r] \cup answer[r] : FromConfig(a)

\* The order in which requests were answered and began: those before r are
\* answered for good, and with a config that is no newer than that of r.
OrderInv ==
    /\ \A r \in Requests : active[r] = {} \/ answer[r] = {}
    /\ \A r \in Requests : \A q \in earlier[r] :
         /\ active[r] \cup answer[r] # {} => answer[q] # {}
         /\ \A b \in answer[q], a \in active[r] : a.version # 0 => b.version <= a.version
         /\ \A b \in answer[q], a \in answer[r] : b.version <= a.version

RolloutInv == TypeOK /\ ConfigInv /\ OrderInv

------------------------------------------------------------------------------

\* A set of ids that is not empty has a least one.
LEMMA LeastId ==
    ASSUME NEW S \in SUBSET Nat, S # {}
    PROVE  \E x \in S : \A y \in S : x <= y
<1> DEFINE L == {xy \in Nat \X Nat : xy[1] < xy[2]}
<1>1. OpToRel(<, Nat) = L
  BY DEF OpToRel
<1>2. IsWellFoundedOn(L, Nat)
  BY NatLessThanWellFounded, <1>1
<1> HIDE DEF L
<1>3. PICK x \in S : \A y \in S : ~ (<<y, x>> \in L)
  BY <1>2, WFMin
<1>4. \A y \in S : y < x => <<y, x>> \in L
  BY DEF L
<1>5. \A y \in S : ~ (y < x)
  BY <1>3, <1>4
<1> QED
  BY <1>5

\* A set of experiments that is not empty has a newest one.
LEMMA NewestId ==
    ASSUME NEW S \in SUBSET Experiments, S # {}
    PROVE  \E x \in S : \A y \in S : y <= x
<1>1. PICK n \in Nat : \A e \in Experiments : e \in Nat /\ e <= n
  BY DesignAssumption
<1> DEFINE T == {n - e : e \in S}
<1>2. T \in SUBSET Nat /\ T # {}
  BY <1>1
<1>3. PICK m \in T : \A t \in T : m <= t
  BY <1>2, LeastId
<1>4. PICK x \in S : m = n - x
  BY <1>3
<1>5. \A y \in S : n - x <= n - y
  BY <1>3, <1>4
<1> QED
  BY <1>1, <1>5

\* Only variants of the experiments in the config are assigned.
LEMMA AssignOfConfig ==
    ASSUME NEW config \in SUBSET Experiments, NEW key, NEW testId,
           NEW p \in Assign(config, key, testId)
    PROVE  p[1] \in config /\ p \in VariantsOf(Experiments)
<1> SUFFICES ASSUME NEW layer \in Layers,
                    p \in AssignLayer(config, layer, key, testId)
             PROVE  p[1] \in config /\ p \in VariantsOf(Experiments)
  BY DEF Assign
<1> DEFINE forced == SelectExperimentByTestId(config, layer, testId)
<1>1. /\ forced \subseteq config
      /\ \A e : FindVariantByTestId(e, testId) \subseteq Variants(e)
  BY DEF SelectExperimentByTestId, ParseLayer, FindVariantByTestId
<1>2. /\ SelectExperiment(config, layer, LayerHash[key][layer]) \subseteq config
      /\ \A e : SelectVariant(e, VariantHash[key][e]) \subseteq Variants(e)
  BY DEF SelectExperiment, ParseLayer, SelectVariant
<1>3. PICK e \in config : \E v \in Variants(e) : p = <<e, v>>
  <2>1. CASE forced # {}
    BY <1>1, <2>1 DEF AssignLayer
  <2>2. CASE forced = {}
    BY <1>2, <2>2 DEF AssignLayer
  <2> QED
    BY <2>1, <2>2
<1> QED
  BY <1>3 DEF VariantsOf

LEMMA AssignType ==
    ASSUME NEW config \in SUBSET Experiments, NEW key, NEW testId
    PROVE  Assign(config, key, testId) \in SUBSET VariantsOf(Experiments)
  BY AssignOfConfig

\* Which variant a flag has its value from.
LEMMA FlagValue ==
    ASSUME NEW config, NEW given, NEW flag, NEW p
    PROVE  <<flag, p>> \in FlagValues(config, given) <=>
             /\ p \in given
             /\ flag \in FlagsOf[p]
             /\ \A q \in given : flag \in FlagsOf[q] => ~ LayerFollows(config, p, q)
  BY DEF FlagValues

LEMMA FlagsType ==
    ASSUME NEW config, NEW given \in SUBSET VariantsOf(Experiments)
    PROVE  FlagValues(config, given) \in SUBSET (Flags \X VariantsOf(Experiments))
<1> SUFFICES ASSUME NEW x \in FlagValues(config, given)
             PROVE  x \in Flags \X VariantsOf(Experiments)
  OBVIOUS
<1>1. PICK p \in given : \E flag \in FlagsOf[p] : x = <<flag, p>>
  BY DEF FlagValues
<1>2. FlagsOf[p] \subseteq Flags
  BY FlagAssumption
<1> QED
  BY <1>1, <1>2

\* Without a test id a request is given p in a config exactly if p is chosen by
\* the hashes of its key.
LEMMA AssignByHash ==
    ASSUME NEW config \in SUBSET Experiments, NEW key, NEW p
    PROVE  p \in Assign(config, key, NoTestId) <=>
             \E e \in config :
                /\ e \in SelectExperiment(config, LayerOf[e], LayerHash[key][LayerOf[e]])
                /\ \E v \in SelectVariant(e, VariantHash[key][e]) : p = <<e, v>>
<1>1. \A layer \in Layers : SelectExperimentByTestId(config, layer, NoTestId) = {}
  BY TestAssumption DEF SelectExperimentByTestId, FindVariantByTestId
<1>2. \A layer \in Layers :
        AssignLayer(config, layer, key, NoTestId) =
          UNION {{<<e, v>> : v \in SelectVariant(e, VariantHash[key][e])} :
                   e \in SelectExperiment(config, layer, LayerHash[key][layer])}
  BY <1>1 DEF AssignLayer
<1>3. \A layer : \A e \in SelectExperiment(config, layer, LayerHash[key][layer]) :
        e \in config /\ LayerOf[e] = layer
  BY DEF SelectExperiment, ParseLayer
<1>4. \A e \in config : LayerOf[e] \in Layers
  BY DesignAssumption
<1> QED
  BY <1>2, <1>3, <1>4 DEF Assign

\* Whether e is selected depends on the experiments before it only.
LEMMA SelectByElders ==
    ASSUME NEW C \in SUBSET Experiments, NEW D \in SUBSET Experiments,
           NEW e \in C, e \in D, NEW bucket,
           Elders(C, e) = Elders(D, e),
           e \in SelectExperiment(C, LayerOf[e], bucket)
    PROVE  e \in SelectExperiment(D, LayerOf[e], bucket)
<1>1. Before(C, e) = Before(D, e)
  BY DEF Before, Elders, ParseLayer
<1>2. Cursor(C, e) = Cursor(D, e)
  BY <1>1 DEF Cursor
<1> QED
  BY <1>2 DEF SelectExperiment, ParseLayer

LEMMA InitInv == Init => RolloutInv
  BY DEF Init, Feed!FeedInit, RolloutInv, TypeOK, ConfigInv, OrderInv

\* A new config changes nothing of the others.
LEMMA PublishInv ==
    ASSUME RolloutInv, Publish
    PROVE  RolloutInv'
<1>1. PICK config \in SUBSET Experiments : feed' = Append(feed, config)
  BY DEF Publish, Feed!PublishConfig
<1>2. /\ feed \in Seq(SUBSET Experiments)
      /\ UNCHANGED <<active, answer, earlier>>
  BY DEF Publish, RolloutInv, TypeOK
<1>3. feed' \in Seq(SUBSET Experiments) /\ Len(feed') = Len(feed) + 1 /\ Len(feed) \in Nat
  BY <1>1, <1>2
<1>4. \A n \in 1 .. Len(feed) : feed'[n] = feed[n]
  BY <1>1, <1>2
<1>5. TypeOK'
  BY <1>2, <1>3 DEF RolloutInv, TypeOK
<1>6. ConfigInv'
  <2> SUFFICES ASSUME NEW r \in Requests, NEW a \in active[r] \cup answer[r]
               PROVE  FromConfig(a)'
    BY <1>2 DEF ConfigInv
  <2>1. FromConfig(a)
    BY DEF RolloutInv, ConfigInv
  <2> QED
    BY <1>3, <1>4, <2>1 DEF FromConfig
<1>7. OrderInv'
  BY <1>2 DEF RolloutInv, OrderInv
<1> QED
  BY <1>5, <1>6, <1>7 DEF RolloutInv

LEMMA ResolveFlagsInv ==
    ASSUME RolloutInv, NEW r \in Requests, NEW key \in SubjectKeys, NEW testId \in TestIds,
           ResolveFlags(r, key, testId)
    PROVE  RolloutInv'
<1> DEFINE a == [key |-> key, testId |-> testId, version |-> 0, assignments |-> {}, flags |-> {}]
<1>1. a \in Answer /\ a.version = 0 /\ a.assignments = {} /\ a.flags = {}
  BY DEF Answer
<1>2. /\ active[r] = {} /\ answer[r] = {}
      /\ active' = [active EXCEPT ![r] = {a}]
      /\ earlier' = [earlier EXCEPT ![r] = {q \in Requests : answer[q] # {}}]
      /\ UNCHANGED <<feed, answer>>
  BY DEF ResolveFlags
<1> HIDE DEF a
<1>3. TypeOK'
  BY <1>1, <1>2 DEF RolloutInv, TypeOK
<1>4. ConfigInv'
  <2>1. Len(feed) \in Nat
    BY DEF RolloutInv, TypeOK
  <2>2. FromConfig(a)'
    BY <1>1, <1>2, <2>1 DEF FromConfig
  <2>3. ASSUME NEW q \in Requests, NEW b \in active[q] \cup answer[q]
        PROVE  FromConfig(b)'
    BY <1>2 DEF RolloutInv, ConfigInv, FromConfig
  <2>4. \A q \in Requests : active'[q] \subseteq active[q] \cup {a}
    BY <1>2 DEF RolloutInv, TypeOK
  <2> QED
    BY <1>2, <2>2, <2>3, <2>4 DEF ConfigInv
<1>5. OrderInv'
  BY <1>1, <1>2 DEF RolloutInv, TypeOK, OrderInv
<1> QED
  BY <1>3, <1>4, <1>5 DEF RolloutInv

\* The latest config is no older than any that was answered.
LEMMA ReadConfigInv ==
    ASSUME RolloutInv, NEW r \in Requests, ReadConfig(r)
    PROVE  RolloutInv'
<1>1. PICK a \in active[r] : \E n \in LatestConfig :
        /\ a.version = 0
        /\ active' = [active EXCEPT ![r] =
             {[a EXCEPT !.version = n, !.assignments = Assign(feed[n], a.key, a.testId),
                        !.flags = FlagValues(feed[n], Assign(feed[n], a.key, a.testId))]}]
        /\ UNCHANGED <<feed, answer, earlier>>
  BY DEF ReadConfig
<1> DEFINE n == Len(feed)
           given == Assign(feed[n], a.key, a.testId)
           b == [a EXCEPT !.version = n, !.assignments = given, !.flags = FlagValues(feed[n], given)]
<1>2. /\ n # 0
      /\ active' = [active EXCEPT ![r] = {b}]
      /\ UNCHANGED <<feed, answer, earlier>>
  BY <1>1 DEF LatestConfig
<1>3. n \in Nat /\ n \in 1 .. Len(feed) /\ feed[n] \in SUBSET Experiments
  BY <1>2 DEF RolloutInv, TypeOK
<1>4. a \in Answer
  BY DEF RolloutInv, TypeOK
<1>5. /\ b \in Answer /\ b.version = n
      /\ b.assignments = Assign(feed[n], b.key, b.testId)
      /\ b.flags = FlagValues(feed[n], b.assignments)
  <2>1. given \in SUBSET VariantsOf(Experiments)
    BY <1>3, AssignType
  <2>2. FlagValues(feed[n], given) \in SUBSET (Flags \X VariantsOf(Experiments))
    BY <2>1, FlagsType
  <2> QED
    BY <1>3, <1>4, <2>1, <2>2 DEF Answer
<1> HIDE DEF b
<1>6. TypeOK'
  BY <1>2, <1>5 DEF RolloutInv, TypeOK
<1>7. ConfigInv'
  BY <1>2, <1>3, <1>5 DEF RolloutInv, TypeOK, ConfigInv, FromConfig
<1>8. OrderInv'
  <2>1. \A q \in Requests : \A c \in answer[q] : c.version <= n
    BY <1>3 DEF RolloutInv, ConfigInv, FromConfig
  <2>2. earlier[r] \subseteq Requests
    BY DEF RolloutInv, TypeOK
  <2> QED
    BY <1>2, <1>5, <2>1, <2>2 DEF RolloutInv, TypeOK, OrderInv
<1> QED
  BY <1>6, <1>7, <1>8 DEF RolloutInv

\* A request is answered with what it has.
LEMMA AnswerInv ==
    ASSUME RolloutInv, NEW r \in Requests, NEW a \in active[r],
           a.version # 0 \/ Len(feed) = 0,
           active' = [active EXCEPT ![r] = {}],
           answer' = [answer EXCEPT ![r] = {a}],
           UNCHANGED <<feed, earlier>>
    PROVE  RolloutInv'
<1>1. TypeOK'
  BY DEF RolloutInv, TypeOK
<1>2. ConfigInv'
  BY DEF RolloutInv, TypeOK, ConfigInv, FromConfig
<1>3. answer[r] = {} /\ \A q \in Requests : r \in earlier[q] => active[q] \cup answer[q] = {}
  BY DEF RolloutInv, OrderInv
<1>4. \A q \in earlier[r] : \A b \in answer[q] : b.version <= a.version
  <2> SUFFICES ASSUME NEW q \in earlier[r], NEW b \in answer[q]
               PROVE  b.version <= a.version
    OBVIOUS
  <2>1. CASE a.version # 0
    BY <2>1 DEF RolloutInv, OrderInv
  <2>2. CASE Len(feed) = 0
    <3>1. FromConfig(a) /\ FromConfig(b)
      BY DEF RolloutInv, TypeOK, ConfigInv
    <3> QED
      BY <2>2, <3>1 DEF FromConfig
  <2> QED
    BY <2>1, <2>2
<1>5. OrderInv'
  BY <1>3, <1>4 DEF RolloutInv, TypeOK, OrderInv
<1> QED
  BY <1>1, <1>2, <1>5 DEF RolloutInv

LEMMA FailsInv ==
    ASSUME RolloutInv, NEW r \in Requests, RequestFails(r)
    PROVE  RolloutInv'
<1>1. active' = [active EXCEPT ![r] = {}] /\ UNCHANGED <<feed, answer, earlier>>
  BY DEF RequestFails
<1>2. TypeOK'
  BY <1>1 DEF RolloutInv, TypeOK
<1>3. ConfigInv'
  BY <1>1 DEF RolloutInv, TypeOK, ConfigInv, FromConfig
<1>4. OrderInv'
  BY <1>1 DEF RolloutInv, TypeOK, OrderInv
<1> QED
  BY <1>2, <1>3, <1>4 DEF RolloutInv

LEMMA NextInv == RolloutInv /\ [Next]_vars => RolloutInv'
<1> SUFFICES ASSUME RolloutInv, [Next]_vars PROVE RolloutInv'
  OBVIOUS
<1>1. CASE Publish
  BY <1>1, PublishInv
<1>2. ASSUME NEW r \in Requests, NEW key \in SubjectKeys, NEW testId \in TestIds,
             ResolveFlags(r, key, testId)
      PROVE  RolloutInv'
  BY <1>2, ResolveFlagsInv
<1>3. ASSUME NEW r \in Requests, ReadConfig(r) PROVE RolloutInv'
  BY <1>3, ReadConfigInv
<1>4. ASSUME NEW r \in Requests, NoConfig(r) PROVE RolloutInv'
  <2>1. Len(feed) = 0
    BY <1>4 DEF NoConfig, LatestConfig
  <2> QED
    BY <1>4, <2>1, AnswerInv DEF NoConfig
<1>5. ASSUME NEW r \in Requests, Commit(r) PROVE RolloutInv'
  BY <1>5, AnswerInv DEF Commit
<1>6. ASSUME NEW r \in Requests, RequestFails(r) PROVE RolloutInv'
  BY <1>6, FailsInv
<1>7. CASE UNCHANGED vars
  BY <1>7 DEF vars, RolloutInv, TypeOK, ConfigInv, FromConfig, OrderInv
<1> QED
  BY <1>1, <1>2, <1>3, <1>4, <1>5, <1>6, <1>7 DEF Next

\* Every answer is that of one config, and requests see configs in order.
THEOREM AnswersAreOfConfigs == Spec => []RolloutInv
  BY InitInv, NextInv, PTL DEF Spec

\* Every variable stays in its type: only variants that there are are given.
THEOREM TypeCorrect == Spec => []TypeOK
<1>1. RolloutInv => TypeOK
  BY DEF RolloutInv
<1> QED
  BY <1>1, AnswersAreOfConfigs, PTL

\* A request that begins after another was answered is not given an older
\* config, whatever builds and requests overlap.
THEOREM ConfigsNeverGoBack == Spec => []NeverBack
<1>1. RolloutInv => NeverBack
  BY DEF RolloutInv, OrderInv, NeverBack
<1> QED
  BY <1>1, AnswersAreOfConfigs, PTL

\* A key keeps its variant of an experiment as long as the experiment is in the
\* config behind the same experiments of its layer, for any weights and hashes.
THEOREM VariantsAreStable == Spec => []StableBehindEarlier
<1>1. RolloutInv => StableBehindEarlier
  <2> SUFFICES ASSUME RolloutInv,
                      NEW q \in Requests, NEW r \in Requests,
                      NEW a \in answer[q], NEW b \in answer[r], NEW p \in a.assignments,
                      a.key = b.key, a.testId = NoTestId, b.testId = NoTestId,
                      b.version # 0, p[1] \in feed[b.version],
                      Elders(feed[a.version], p[1]) = Elders(feed[b.version], p[1])
               PROVE  p \in b.assignments
    BY DEF StableBehindEarlier
  <2>1. FromConfig(a) /\ FromConfig(b)
    BY DEF RolloutInv, ConfigInv
  <2>2. a.version # 0
    BY <2>1 DEF FromConfig
  <2> DEFINE C == feed[a.version]
             D == feed[b.version]
  <2>3. C \in SUBSET Experiments /\ D \in SUBSET Experiments
    BY <2>1, <2>2 DEF FromConfig, RolloutInv, TypeOK
  <2>4. p \in Assign(C, a.key, NoTestId) /\ b.assignments = Assign(D, a.key, NoTestId)
    BY <2>1, <2>2 DEF FromConfig
  <2> HIDE DEF C, D
  <2>5. PICK e \in C :
          /\ e \in SelectExperiment(C, LayerOf[e], LayerHash[a.key][LayerOf[e]])
          /\ \E v \in SelectVariant(e, VariantHash[a.key][e]) : p = <<e, v>>
    BY <2>3, <2>4, AssignByHash
  <2>6. e = p[1]
    BY <2>5
  <2>7. e \in D /\ Elders(C, e) = Elders(D, e)
    BY <2>6 DEF C, D
  <2>8. e \in SelectExperiment(D, LayerOf[e], LayerHash[a.key][LayerOf[e]])
    BY <2>3, <2>5, <2>7, SelectByElders
  <2> QED
    BY <2>3, <2>4, <2>5, <2>7, <2>8, AssignByHash
<1> QED
  BY <1>1, AnswersAreOfConfigs, PTL

------------------------------------------------------------------------------
(* Test ids                                                                *)

\* The variant that a test id names in an experiment.
LEMMA FindFirst ==
    ASSUME NEW e \in Experiments, NEW testId, NEW w \in Variants(e), <<e, w>> \in NamedBy[testId]
    PROVE  \E v \in Variants(e) : FindVariantByTestId(e, testId) = {v} /\ <<e, v>> \in NamedBy[testId]
<1> DEFINE S == {v \in Variants(e) : <<e, v>> \in NamedBy[testId]}
<1>1. S \in SUBSET Nat /\ S # {}
  BY DesignAssumption DEF Variants
<1>2. PICK v \in S : \A u \in S : v <= u
  BY <1>1, LeastId
<1>3. \A u \in FindVariantByTestId(e, testId) : u \in S /\ u <= v
  BY <1>2 DEF FindVariantByTestId
<1>4. v \in FindVariantByTestId(e, testId)
  BY <1>2 DEF FindVariantByTestId
<1>5. <<e, v>> \in NamedBy[testId] /\ v \in Variants(e)
  OBVIOUS
<1>6. ASSUME NEW u \in FindVariantByTestId(e, testId)
      PROVE  u = v
  <2>1. u \in Nat /\ v \in Nat
    BY <1>1, <1>3
  <2>2. u <= v /\ v <= u
    BY <1>2, <1>3
  <2> QED
    BY <2>1, <2>2
<1> QED
  BY <1>4, <1>5, <1>6

\* The experiment of a layer that a test id forces.
LEMMA ForcedFirst ==
    ASSUME NEW config \in SUBSET Experiments, NEW layer, NEW testId,
           NEW d \in ParseLayer(config, layer), FindVariantByTestId(d, testId) # {}
    PROVE  \E e \in ParseLayer(config, layer) :
              /\ SelectExperimentByTestId(config, layer, testId) = {e}
              /\ FindVariantByTestId(e, testId) # {}
<1> DEFINE S == {e \in ParseLayer(config, layer) : FindVariantByTestId(e, testId) # {}}
<1>1. S \in SUBSET Nat /\ S # {}
  BY DesignAssumption DEF ParseLayer
<1>2. PICK e \in S : \A c \in S : e <= c
  BY <1>1, LeastId
<1>3. \A c \in ParseLayer(config, layer) :
        Before(config, c) = {b \in ParseLayer(config, layer) : b < c}
  BY DEF Before, ParseLayer
<1>4. e \in SelectExperimentByTestId(config, layer, testId)
  BY <1>1, <1>2, <1>3 DEF SelectExperimentByTestId
<1>5. \A c \in SelectExperimentByTestId(config, layer, testId) : c = e
  <2> SUFFICES ASSUME NEW c \in SelectExperimentByTestId(config, layer, testId)
               PROVE  c = e
    OBVIOUS
  <2>1. c \in S /\ ~ (e < c)
    BY <1>2, <1>3 DEF SelectExperimentByTestId
  <2> QED
    BY <1>1, <1>2, <2>1
<1> QED
  BY <1>2, <1>4, <1>5

\* What a request is given in a layer is what AssignLayer says of it.
LEMMA AssignInLayer ==
    ASSUME NEW config \in SUBSET Experiments, NEW layer \in Layers, NEW key, NEW testId
    PROVE  {p \in Assign(config, key, testId) : LayerOf[p[1]] = layer}
              = AssignLayer(config, layer, key, testId)
<1>1. ASSUME NEW l, NEW p \in AssignLayer(config, l, key, testId)
      PROVE  LayerOf[p[1]] = l
  <2>1. \A e \in SelectExperimentByTestId(config, l, testId) : LayerOf[e] = l
    BY DEF SelectExperimentByTestId, ParseLayer
  <2>2. \A e \in SelectExperiment(config, l, LayerHash[key][l]) : LayerOf[e] = l
    BY DEF SelectExperiment, ParseLayer
  <2>3. CASE SelectExperimentByTestId(config, l, testId) # {}
    BY <2>1, <2>3 DEF AssignLayer
  <2>4. CASE SelectExperimentByTestId(config, l, testId) = {}
    BY <2>2, <2>4 DEF AssignLayer
  <2> QED
    BY <2>3, <2>4
<1> QED
  BY <1>1 DEF Assign

\* A test id shows its variant in every layer that has one in its config, and
\* changes nothing in the others, whatever ids and keys it stands for.
THEOREM TestIdsShowVariants == Spec => []TestIdShowsVariant
<1>1. RolloutInv => TestIdShowsVariant
  <2> SUFFICES ASSUME RolloutInv,
                      NEW q \in Requests, NEW r \in Requests,
                      NEW a \in answer[q], NEW b \in answer[r],
                      a.key = b.key, a.version = b.version, a.testId = NoTestId,
                      NEW layer \in Layers
               PROVE  IF b.version # 0 /\ NamedIn(b, layer) # {}
                      THEN \E p \in NamedIn(b, layer) : GivenIn(b, layer) = {p}
                      ELSE GivenIn(b, layer) = GivenIn(a, layer)
    BY DEF TestIdShowsVariant
  <2> DEFINE C == feed[b.version]
             t == b.testId
             named == {p \in NamedBy[t] : p \in VariantsOf(ParseLayer(C, layer))}
             shown == {p \in b.assignments : LayerOf[p[1]] = layer}
  <2>1. FromConfig(a) /\ FromConfig(b)
    BY DEF RolloutInv, ConfigInv
  <2>2. CASE b.version = 0
    BY <2>1, <2>2 DEF FromConfig, GivenIn
  <2>3. CASE b.version # 0
    <3>1. C \in SUBSET Experiments
      BY <2>1, <2>3 DEF FromConfig, RolloutInv, TypeOK
    <3>2. /\ a.assignments = Assign(C, b.key, NoTestId)
          /\ b.assignments = Assign(C, b.key, t)
      BY <2>1, <2>3 DEF FromConfig
    <3> HIDE DEF C, t
    <3>3. shown = AssignLayer(C, layer, b.key, t)
      BY <3>1, <3>2, AssignInLayer
    <3>4. ASSUME named # {}
          PROVE  \E p \in named : shown = {p}
      <4>1. PICK d \in ParseLayer(C, layer) : \E w \in Variants(d) : <<d, w>> \in NamedBy[t]
        BY <3>4 DEF VariantsOf
      <4>2. ParseLayer(C, layer) \subseteq Experiments
        BY <3>1 DEF ParseLayer
      <4>3. FindVariantByTestId(d, t) # {}
        BY <4>1, <4>2, FindFirst
      <4>4. PICK e \in ParseLayer(C, layer) :
              /\ SelectExperimentByTestId(C, layer, t) = {e}
              /\ FindVariantByTestId(e, t) # {}
        BY <3>1, <4>3, ForcedFirst
      <4>5. PICK u \in Variants(e) : <<e, u>> \in NamedBy[t]
        BY <4>4 DEF FindVariantByTestId
      <4>6. PICK v \in Variants(e) : FindVariantByTestId(e, t) = {v} /\ <<e, v>> \in NamedBy[t]
        BY <4>2, <4>5, FindFirst
      <4>7. AssignLayer(C, layer, b.key, t) = {<<e, v>>}
        BY <4>4, <4>6 DEF AssignLayer
      <4>8. <<e, v>> \in named
        BY <4>6 DEF VariantsOf
      <4> QED
        BY <3>3, <4>7, <4>8
    <3>5. ASSUME named = {}
          PROVE  shown = {p \in a.assignments : LayerOf[p[1]] = layer}
      <4>1. {p \in a.assignments : LayerOf[p[1]] = layer} = AssignLayer(C, layer, b.key, NoTestId)
        BY <3>1, <3>2, AssignInLayer
      <4>2. \A e \in ParseLayer(C, layer) : FindVariantByTestId(e, t) = {}
        <5> SUFFICES ASSUME NEW e \in ParseLayer(C, layer), NEW v \in FindVariantByTestId(e, t)
                     PROVE  FALSE
          OBVIOUS
        <5>1. v \in Variants(e) /\ <<e, v>> \in NamedBy[t]
          BY DEF FindVariantByTestId
        <5> QED
          BY <3>5, <5>1 DEF VariantsOf
      <4>3. SelectExperimentByTestId(C, layer, t) = {}
        BY <4>2 DEF SelectExperimentByTestId
      <4>4. SelectExperimentByTestId(C, layer, NoTestId) = {}
        BY TestAssumption DEF SelectExperimentByTestId, FindVariantByTestId
      <4> QED
        BY <3>3, <4>1, <4>3, <4>4 DEF AssignLayer
    <3> QED
      BY <2>3, <3>4, <3>5 DEF C, t, NamedIn, GivenIn
  <2> QED
    BY <2>2, <2>3
<1> QED
  BY <1>1, AnswersAreOfConfigs, PTL

------------------------------------------------------------------------------
(* Flags                                                                   *)

\* Of variants that set a flag, there is one whose layer none of the others
\* follows.
LEMMA LastSets ==
    ASSUME NEW config \in SUBSET Experiments, NEW S, S # {}, \A p \in S : p[1] \in config
    PROVE  \E w \in S : \A q \in S : ~ LayerFollows(config, w, q)
<1> DEFINE H == {d \in config : \E q \in S : d \in Oldest(config, LayerOf[q[1]])}
<1>1. \A q \in S : \E d \in config : d \in Oldest(config, LayerOf[q[1]])
  <2> SUFFICES ASSUME NEW q \in S
               PROVE  \E d \in config : d \in Oldest(config, LayerOf[q[1]])
    OBVIOUS
  <2> DEFINE P == ParseLayer(config, LayerOf[q[1]])
  <2>1. P \in SUBSET Nat /\ P # {} /\ P \subseteq config
    BY DesignAssumption DEF ParseLayer
  <2>2. PICK d \in P : \A c \in P : d <= c
    BY <2>1, LeastId
  <2>3. Before(config, d) = {}
    BY <2>1, <2>2 DEF Before, ParseLayer
  <2> QED
    BY <2>1, <2>2, <2>3 DEF Oldest
<1>2. H \in SUBSET Experiments /\ H # {}
  BY <1>1
<1>3. PICK m \in H : \A d \in H : d <= m
  BY <1>2, NewestId
<1>4. PICK w \in S : m \in Oldest(config, LayerOf[w[1]])
  BY <1>3
<1>5. \A d \in Oldest(config, LayerOf[w[1]]) : d = m
  BY <1>4, DesignAssumption DEF Oldest, Before, ParseLayer
<1>6. ASSUME NEW q \in S, LayerFollows(config, w, q)
      PROVE  FALSE
  <2>1. PICK e \in Oldest(config, LayerOf[q[1]]) : m < e
    BY <1>5, <1>6 DEF LayerFollows
  <2>2. e \in H
    BY <2>1 DEF Oldest, ParseLayer
  <2> QED
    BY <1>2, <1>3, <2>1, <2>2, DesignAssumption
<1> QED
  BY <1>4, <1>6

\* Whether a layer follows another depends on the oldest experiments only.
LEMMA FollowsByHeads ==
    ASSUME NEW C \in SUBSET Experiments, NEW D \in SUBSET Experiments,
           Heads(C) = Heads(D), NEW p, NEW q
    PROVE  LayerFollows(C, p, q) = LayerFollows(D, p, q)
<1>1. \A config \in {C, D} : \A layer :
        Oldest(config, layer) = {e \in Heads(config) : LayerOf[e] = layer}
  BY DEF Oldest, Heads, Elders, Before, ParseLayer
<1>2. \A layer : Oldest(C, layer) = Oldest(D, layer)
  BY <1>1
<1> QED
  BY <1>2 DEF LayerFollows

\* A request has a value for each flag that its variants set, and the values
\* change only with its variants or with the oldest experiment of a layer.
THEOREM FlagsAlwaysFollowLayers == Spec => []FlagsFollowLayers
<1>1. RolloutInv => FlagsFollowLayers
  <2> SUFFICES ASSUME RolloutInv,
                      NEW q \in Requests, NEW r \in Requests,
                      NEW a \in answer[q], NEW b \in answer[r]
               PROVE  /\ \A p \in a.assignments : \A flag \in FlagsOf[p] :
                           \E w \in a.assignments : <<flag, w>> \in a.flags
                      /\ /\ a.assignments = b.assignments
                         /\ a.version # 0 /\ b.version # 0
                         /\ Heads(feed[a.version]) = Heads(feed[b.version])
                         => a.flags = b.flags
    BY DEF FlagsFollowLayers
  <2>1. FromConfig(a) /\ FromConfig(b)
    BY DEF RolloutInv, ConfigInv
  <2>2. \A c \in {a, b} : c.version # 0 => feed[c.version] \in SUBSET Experiments
    BY <2>1 DEF FromConfig, RolloutInv, TypeOK
  <2>3. ASSUME NEW p \in a.assignments, NEW flag \in FlagsOf[p]
        PROVE  \E w \in a.assignments : <<flag, w>> \in a.flags
    <3> DEFINE C == feed[a.version]
               S == {w \in a.assignments : flag \in FlagsOf[w]}
    <3>1. a.version # 0 /\ C \in SUBSET Experiments
      BY <2>1, <2>2 DEF FromConfig
    <3>2. /\ a.assignments = Assign(C, a.key, a.testId)
          /\ a.flags = FlagValues(C, a.assignments)
      BY <2>1, <3>1 DEF FromConfig
    <3> HIDE DEF C
    <3>3. \A w \in S : w[1] \in C
      BY <3>1, <3>2, AssignOfConfig
    <3>4. PICK w \in S : \A v \in S : ~ LayerFollows(C, w, v)
      BY <3>1, <3>3, LastSets
    <3> QED
      BY <3>2, <3>4, FlagValue
  <2>4. ASSUME a.assignments = b.assignments, a.version # 0, b.version # 0,
               Heads(feed[a.version]) = Heads(feed[b.version])
        PROVE  a.flags = b.flags
    <3> DEFINE C == feed[a.version]
               D == feed[b.version]
    <3>1. C \in SUBSET Experiments /\ D \in SUBSET Experiments
      BY <2>2, <2>4
    <3>2. a.flags = FlagValues(C, a.assignments) /\ b.flags = FlagValues(D, a.assignments)
      BY <2>1, <2>4 DEF FromConfig
    <3>3. Heads(C) = Heads(D)
      BY <2>4
    <3> HIDE DEF C, D
    <3>4. \A p, v : LayerFollows(C, p, v) = LayerFollows(D, p, v)
      BY <3>1, <3>3, FollowsByHeads
    <3> QED
      BY <3>2, <3>4 DEF FlagValues
  <2> QED
    BY <2>3, <2>4
<1> QED
  BY <1>1, AnswersAreOfConfigs, PTL

------------------------------------------------------------------------------
(* Induction.  A claim about all finite sets, or all numbers, is shown by     *)
(* taking a smallest set, or number, for which it fails.                     *)

\* Of a collection of finite sets there is one of which no other is a part.
LEMMA SmallestSubset ==
    ASSUME NEW S, IsFiniteSet(S), NEW C \in SUBSET SUBSET S, C # {}
    PROVE  \E s \in C : \A t \in C : t \subseteq s => t = s
<1> DEFINE sizes == {Cardinality(s) : s \in C}
<1>1. \A s \in C : IsFiniteSet(s) /\ Cardinality(s) \in Nat
  BY FS_Subset, FS_CardinalityType
<1>2. sizes \in SUBSET Nat /\ sizes # {}
  BY <1>1
<1>3. PICK n \in sizes : \A k \in sizes : n <= k
  BY <1>2, LeastId
<1>4. PICK s \in C : n = Cardinality(s)
  BY <1>3
<1>5. ASSUME NEW t \in C, t \subseteq s PROVE t = s
  <2>1. Cardinality(t) <= Cardinality(s) /\ (Cardinality(t) = Cardinality(s) => s = t)
    BY <1>1, <1>5, FS_Subset
  <2>2. Cardinality(s) <= Cardinality(t)
    BY <1>3, <1>4
  <2> QED
    BY <1>1, <2>1, <2>2
<1> QED
  BY <1>5

\* MapThenSumSet, as Cursor uses it, unfolded: the element it takes first, what it
\* does with one set, and the function that it recurs through.
First(s) == CHOOSE x \in s : TRUE

SumBy(f, s) == IF s = {} THEN 0 ELSE TotalTraffic(First(s)) + f[s \ {First(s)}]

IsFold(f, S) == f = [s \in SUBSET S |-> SumBy(f, s)]

TrafficOf(S) == MapThenSumSet(TotalTraffic, S)

\* The sum is what such a function has for the whole set.
LEMMA SumIsFold ==
    ASSUME NEW S
    PROVE  TrafficOf(S) = (CHOOSE f : IsFold(f, S))[S]
  BY DEF IsFold, TrafficOf, MapThenSumSet, MapThenFoldSet, First, SumBy

\* The function that the fold of a finite set recurs through exists ...
LEMMA FoldExists ==
    ASSUME NEW S, IsFiniteSet(S)
    PROVE  \E f : IsFold(f, S)
<1> DEFINE Up(n, f) == \A s \in SUBSET S : Cardinality(s) <= n => f[s] = SumBy(f, s)
           Without == {n \in Nat : ~ \E f : Up(n, f)}
<1>0. \A s \in SUBSET S : /\ Cardinality(s) \in Nat /\ Cardinality(s) <= Cardinality(S)
                          /\ Cardinality(s) = 0 => s = {}
  BY FS_Subset, FS_CardinalityType, FS_EmptySet
<1>1. \A s \in SUBSET S : s # {} => /\ s \ {First(s)} \in SUBSET S
                                    /\ Cardinality(s \ {First(s)}) = Cardinality(s) - 1
  BY FS_Subset, FS_RemoveElement DEF First
<1>2. ASSUME NEW n \in Without, \A k \in Without : n <= k
      PROVE  FALSE
  <2>1. CASE n = 0
    <3> DEFINE f == [s \in SUBSET S |-> 0]
    <3>1. \A s \in SUBSET S : Cardinality(s) <= n => s = {}
      BY <1>0, <2>1
    <3>2. Up(n, f)
      BY <3>1 DEF SumBy
    <3> QED
      BY <1>2, <3>2
  <2>2. CASE n # 0
    <3>1. n - 1 \in Nat /\ n - 1 \notin Without
      BY <1>2, <2>2
    <3>2. PICK g : Up(n - 1, g)
      BY <3>1
    <3> DEFINE f == [s \in SUBSET S |-> SumBy(g, s)]
    <3>3. ASSUME NEW s \in SUBSET S, Cardinality(s) <= n
          PROVE  SumBy(f, s) = SumBy(g, s)
      <4>1. CASE s = {}
        BY <4>1 DEF SumBy
      <4>2. CASE s # {}
        <5> DEFINE t == s \ {First(s)}
        <5>1. t \in SUBSET S /\ Cardinality(t) <= n - 1
          BY <1>0, <1>1, <1>2, <3>3, <4>2
        <5>2. f[t] = g[t]
          BY <3>2, <5>1
        <5> QED
          BY <4>2, <5>2 DEF SumBy
      <4> QED
        BY <4>1, <4>2
    <3>4. Up(n, f)
      BY <3>3
    <3> QED
      BY <1>2, <3>4
  <2> QED
    BY <2>1, <2>2
<1>3. Without = {}
  BY <1>2, LeastId
<1>4. Cardinality(S) \in Nat
  BY <1>0
<1>5. PICK g : Up(Cardinality(S), g)
  BY <1>3, <1>4
<1> DEFINE f == [s \in SUBSET S |-> g[s]]
<1>6. \A s \in SUBSET S : g[s] = SumBy(f, s)
  BY <1>0, <1>5 DEF SumBy
<1>7. IsFold(f, S)
  BY <1>6 DEF IsFold
<1> QED
  BY <1>7

\* ... and is the same for a set and for a part of it.
LEMMA FoldsAgree ==
    ASSUME NEW S, IsFiniteSet(S), NEW R \in SUBSET S,
           NEW f, IsFold(f, S), NEW g, IsFold(g, R)
    PROVE  \A s \in SUBSET R : f[s] = g[s]
<1> DEFINE C == {s \in SUBSET R : f[s] # g[s]}
<1>1. ASSUME NEW s \in C, \A t \in C : t \subseteq s => t = s
      PROVE  FALSE
  <2>1. f[s] = SumBy(f, s) /\ g[s] = SumBy(g, s)
    BY DEF IsFold
  <2>2. s # {}
    BY <2>1 DEF SumBy
  <2>3. First(s) \in s
    BY <2>2 DEF First
  <2>4. s \ {First(s)} \notin C
    BY <1>1, <2>3
  <2> QED
    BY <2>1, <2>2, <2>4 DEF SumBy
<1>2. IsFiniteSet(R) /\ C \in SUBSET SUBSET R
  BY FS_Subset
<1>3. C = {}
  <2> HIDE DEF C
  <2> QED
    BY <1>1, <1>2, SmallestSubset
<1> QED
  BY <1>3

\* What a sum is: that of the other elements, and the first.
LEMMA SumUnfolds ==
    ASSUME NEW S, IsFiniteSet(S)
    PROVE  TrafficOf(S) = IF S = {} THEN 0 ELSE TotalTraffic(First(S)) + TrafficOf(S \ {First(S)})
<1> DEFINE Fold(R) == CHOOSE f : IsFold(f, R)
           R == S \ {First(S)}
<1>1. IsFiniteSet(R) /\ R \in SUBSET S
  BY FS_Subset
<1>2. IsFold(Fold(S), S) /\ IsFold(Fold(R), R)
  BY <1>1, FoldExists
<1>3. TrafficOf(S) = Fold(S)[S] /\ TrafficOf(R) = Fold(R)[R]
  BY SumIsFold
<1> HIDE DEF Fold
<1>4. Fold(S)[S] = SumBy(Fold(S), S)
  BY <1>2 DEF IsFold
<1>5. Fold(S)[R] = Fold(R)[R]
  BY <1>1, <1>2, FoldsAgree
<1> QED
  BY <1>3, <1>4, <1>5 DEF SumBy

\* The traffic of any one experiment can be added last.
LEMMA SumAdds ==
    ASSUME NEW S \in SUBSET Experiments, IsFiniteSet(S)
    PROVE  /\ TrafficOf(S) \in Nat
           /\ \A x \in S : TrafficOf(S) = TotalTraffic(x) + TrafficOf(S \ {x})
<1>0. \A x \in S : TotalTraffic(x) \in Nat
  BY DesignAssumption DEF TotalTraffic, ClampTraffic
<1> DEFINE Adds(s) == TrafficOf(s) \in Nat /\ \A x \in s : TrafficOf(s) = TotalTraffic(x) + TrafficOf(s \ {x})
           C == {s \in SUBSET S : ~ Adds(s)}
<1>1. ASSUME NEW s \in C, \A t \in C : t \subseteq s => t = s
      PROVE  FALSE
  <2>1. IsFiniteSet(s) /\ \A t \in SUBSET s : IsFiniteSet(t)
    BY FS_Subset
  <2>2. \A t \in SUBSET s : t # s => Adds(t)
    BY <1>1
  <2>3. s # {}
    <3>1. TrafficOf({}) = 0
      BY FS_EmptySet, SumUnfolds
    <3>2. Adds({})
      BY <3>1
    <3> QED
      BY <3>2
  <2> DEFINE c == First(s)
             r == s \ {c}
  <2>4. c \in s /\ TotalTraffic(c) \in Nat
    BY <1>0, <2>3 DEF First
  <2>5. TrafficOf(s) = TotalTraffic(c) + TrafficOf(r)
    BY <2>1, <2>3, SumUnfolds
  <2> HIDE DEF c
  <2>6. TrafficOf(r) \in Nat
    BY <2>2, <2>4
  <2>7. ASSUME NEW x \in s, x # c
        PROVE  TrafficOf(s) = TotalTraffic(x) + TrafficOf(s \ {x})
    <3> DEFINE q == r \ {x}
    <3>1. Adds(r) /\ Adds(s \ {x})
      BY <2>2, <2>4
    <3>2. q = (s \ {x}) \ {c}
      OBVIOUS
    <3>3. x \in r /\ c \in s \ {x}
      BY <2>4, <2>7
    <3>4. TrafficOf(r) = TotalTraffic(x) + TrafficOf(q) /\ TrafficOf(s \ {x}) = TotalTraffic(c) + TrafficOf(q)
      BY <3>1, <3>2, <3>3
    <3>5. TrafficOf(q) \in Nat
      BY <2>2, <2>4
    <3> HIDE DEF q, r
    <3> QED
      BY <1>0, <2>4, <2>5, <3>4, <3>5
  <2>8. Adds(s)
    <3> HIDE DEF r
    <3>1. TrafficOf(s) \in Nat
      BY <2>4, <2>5, <2>6
    <3> QED
      BY <2>5, <2>7, <3>1 DEF r
  <2> QED
    BY <2>8
<1>2. C \in SUBSET SUBSET S
  OBVIOUS
<1>3. C = {}
  <2> HIDE DEF C
  <2> QED
    BY <1>1, <1>2, SmallestSubset
<1>4. Adds(S)
  BY <1>3
<1> QED
  BY <1>4

------------------------------------------------------------------------------
(* The buckets of a layer                                                  *)

\* An experiment has finitely many elders: ids are numbers.
LEMMA EldersFinite ==
    ASSUME NEW config \in SUBSET Experiments, NEW e \in config
    PROVE  /\ Elders(config, e) = Before(config, e)
           /\ Elders(config, e) \in SUBSET Experiments
           /\ IsFiniteSet(Elders(config, e))
<1>1. Elders(config, e) = Before(config, e)
  BY DEF Elders, Before, ParseLayer
<1>2. config \subseteq Nat
  BY DesignAssumption
<1>3. e \in Nat /\ Elders(config, e) \in SUBSET Nat
  BY <1>2 DEF Elders
<1>4. \A d \in Elders(config, e) : d < e
  BY DEF Elders
<1>5. \A d \in Elders(config, e) : d <= e
  BY <1>3, <1>4
<1>6. IsFiniteSet(Elders(config, e))
  BY <1>3, <1>5, FS_BoundedSetOfNaturals
<1> QED
  BY <1>1, <1>6 DEF Elders

\* Parts of traffic are numbers, and there are no more than all.
LEMMA TrafficType ==
    /\ Unit \in Nat
    /\ \A e \in Experiments : TotalTraffic(e) \in Nat
    /\ \A n \in Nat : ClampTraffic(n) \in Nat /\ ClampTraffic(n) <= Unit
  BY DesignAssumption DEF TotalTraffic, ClampTraffic

\* Where the part of an experiment begins: at 0, or where that of the newest of
\* its elders ends.
LEMMA CursorMoves ==
    ASSUME NEW config \in SUBSET Experiments, NEW e \in config
    PROVE  /\ Cursor(config, e) \in 0 .. Unit
           /\ Elders(config, e) = {} => Cursor(config, e) = 0
           /\ \A d \in Elders(config, e) :
                (\A c \in Elders(config, e) : c <= d)
                => /\ Elders(config, e) = Elders(config, d) \cup {d}
                   /\ Cursor(config, e) = ClampTraffic(Cursor(config, d) + TotalTraffic(d))
<1> DEFINE total(c) == TrafficOf(Elders(config, c))
<1>1. \A c \in config : total(c) \in Nat /\ Cursor(config, c) = ClampTraffic(total(c))
  BY EldersFinite, SumAdds DEF Cursor, TrafficOf
<1>2. Cursor(config, e) \in 0 .. Unit
  BY <1>1, TrafficType
<1>3. ASSUME Elders(config, e) = {} PROVE Cursor(config, e) = 0
  <2>1. total(e) = 0
    BY <1>3, FS_EmptySet, SumUnfolds
  <2> QED
    BY <1>1, <2>1, DesignAssumption DEF ClampTraffic
<1>4. ASSUME NEW d \in Elders(config, e), \A c \in Elders(config, e) : c <= d
      PROVE  /\ Elders(config, e) = Elders(config, d) \cup {d}
             /\ Cursor(config, e) = ClampTraffic(Cursor(config, d) + TotalTraffic(d))
  <2>1. d \in config /\ d \in Experiments /\ config \subseteq Nat
    BY DesignAssumption DEF Elders
  <2>2. Elders(config, e) = Elders(config, d) \cup {d} /\ d \notin Elders(config, d)
    <3>1. \A c \in config : /\ c \in Elders(config, e) <=> LayerOf[c] = LayerOf[e] /\ c < e
                            /\ c \in Elders(config, d) <=> LayerOf[c] = LayerOf[d] /\ c < d
      BY DEF Elders
    <3>2. LayerOf[d] = LayerOf[e] /\ d < e
      BY <2>1, <3>1
    <3>3. ASSUME NEW c \in config
          PROVE  c \in Elders(config, e) <=> c \in Elders(config, d) \/ c = d
      <4>1. c \in Nat /\ d \in Nat /\ e \in Nat
        BY <2>1
      <4>2. c \in Elders(config, e) => c <= d
        BY <1>4
      <4> QED
        BY <3>1, <3>2, <4>1, <4>2
    <3>4. Elders(config, e) \subseteq config /\ Elders(config, d) \subseteq config
      BY DEF Elders
    <3>5. d \notin Elders(config, d)
      BY <2>1, <3>1
    <3> QED
      BY <2>1, <3>3, <3>4, <3>5
  <2>3. total(e) = TotalTraffic(d) + total(d)
    <3>1. Elders(config, e) \ {d} = Elders(config, d)
      BY <2>2
    <3>2. TrafficOf(Elders(config, e)) = TotalTraffic(d) + TrafficOf(Elders(config, e) \ {d})
      BY <1>4, EldersFinite, SumAdds
    <3> QED
      BY <3>1, <3>2
  <2>4. total(d) \in Nat /\ TotalTraffic(d) \in Nat /\ Unit \in Nat
    BY <1>1, <2>1, TrafficType
  <2>5. Cursor(config, e) = ClampTraffic(total(e)) /\ Cursor(config, d) = ClampTraffic(total(d))
    BY <1>1, <2>1
  <2> HIDE DEF total
  <2> QED
    BY <2>2, <2>3, <2>4, <2>5 DEF ClampTraffic
<1> QED
  BY <1>2, <1>3, <1>4

\* Where it ends.
Limit(config, e) == ClampTraffic(Cursor(config, e) + TotalTraffic(e))

\* The buckets of an experiment are an interval, with its traffic or what is
\* left of all traffic.
LEMMA BucketsAreInterval ==
    ASSUME NEW config \in SUBSET Experiments, NEW e \in config
    PROVE  /\ BucketsOf[config][e] = Cursor(config, e) .. Limit(config, e) - 1
           /\ Cursor(config, e) \in 0 .. Unit
           /\ Limit(config, e) \in Cursor(config, e) .. Unit
<1>1. Cursor(config, e) \in 0 .. Unit /\ TotalTraffic(e) \in Nat /\ Unit \in Nat
  BY CursorMoves, TrafficType
<1>2. Limit(config, e) \in Cursor(config, e) .. Unit
  BY <1>1 DEF Limit, ClampTraffic
<1>3. BucketsOf[config][e] = {b \in 0 .. Unit : Cursor(config, e) <= b /\ b < Limit(config, e)}
  BY DEF BucketsOf, SelectExperiment, ParseLayer, Limit
<1>4. \A b : b \in 0 .. Unit /\ Cursor(config, e) <= b /\ b < Limit(config, e)
             <=> b \in Cursor(config, e) .. Limit(config, e) - 1
  BY <1>1, <1>2
<1> QED
  BY <1>1, <1>2, <1>3, <1>4

\* The buckets of the elders of an experiment are all those before its own.
LEMMA EldersTakeAllBefore ==
    ASSUME NEW config \in SUBSET Experiments, NEW e \in config
    PROVE  UNION {BucketsOf[config][d] : d \in Elders(config, e)} = 0 .. Cursor(config, e) - 1
<1> DEFINE taken(c) == UNION {BucketsOf[config][d] : d \in Elders(config, c)}
           Wrong == {c \in config : taken(c) # 0 .. Cursor(config, c) - 1}
<1>1. ASSUME NEW c \in Wrong, \A d \in Wrong : c <= d
      PROVE  FALSE
  <2>0. config \subseteq Nat
    BY DesignAssumption
  <2>1. CASE Elders(config, c) = {}
    <3>1. taken(c) = {} /\ Cursor(config, c) = 0
      BY <2>1, CursorMoves
    <3> QED
      BY <3>1
  <2>2. CASE Elders(config, c) # {}
    <3>1. PICK d \in Elders(config, c) : \A b \in Elders(config, c) : b <= d
      BY <2>2, EldersFinite, NewestId
    <3>2. d \in config /\ d < c
      BY DEF Elders
    <3>3. taken(d) = 0 .. Cursor(config, d) - 1
      BY <1>1, <2>0, <3>2
    <3>4. /\ Elders(config, c) = Elders(config, d) \cup {d}
          /\ Cursor(config, c) = Limit(config, d)
      BY <3>1, CursorMoves DEF Limit
    <3>5. taken(c) = taken(d) \cup BucketsOf[config][d]
      BY <3>4
    <3>6. /\ BucketsOf[config][d] = Cursor(config, d) .. Limit(config, d) - 1
          /\ Cursor(config, d) \in 0 .. Unit /\ Limit(config, d) \in Cursor(config, d) .. Unit
      BY <3>2, BucketsAreInterval
    <3> HIDE DEF taken
    <3>7. taken(c) = 0 .. Limit(config, d) - 1
      BY <3>3, <3>5, <3>6, DesignAssumption
    <3> QED
      BY <3>4, <3>7
  <2> QED
    BY <2>1, <2>2
<1>2. Wrong \in SUBSET Nat
  BY DesignAssumption
<1>3. Wrong = {}
  <2> HIDE DEF Wrong
  <2> QED
    BY <1>1, <1>2, LeastId
<1> QED
  BY <1>3

\* The first three claims of TrafficIsSplit, for one experiment of one config.
LEMMA LayerIsSplit ==
    ASSUME NEW config \in SUBSET Experiments, NEW e \in config
    PROVE  LET buckets == BucketsOf[config]
               taken == UNION {buckets[d] : d \in Elders(config, e)}
               left == Unit - Cardinality(taken)
           IN /\ buckets[e] \cap taken = {}
              /\ Cardinality(buckets[e]) = IF TotalTraffic(e) <= left THEN TotalTraffic(e) ELSE left
              /\ Unit \notin buckets[e]
<1> DEFINE from == Cursor(config, e)
           to == Limit(config, e)
           mine == BucketsOf[config][e]
           taken == UNION {BucketsOf[config][d] : d \in Elders(config, e)}
<1>1. /\ mine = from .. to - 1 /\ taken = 0 .. from - 1
      /\ from \in 0 .. Unit /\ to \in from .. Unit
  BY BucketsAreInterval, EldersTakeAllBefore
<1>2. to = ClampTraffic(from + TotalTraffic(e)) /\ TotalTraffic(e) \in Nat /\ Unit \in Nat
  BY TrafficType DEF Limit
<1> HIDE DEF from, to, mine, taken
<1>3. Cardinality(taken) = from /\ Cardinality(mine) = to - from
  <2>1. from \in Nat /\ to \in Nat /\ from <= to
    BY <1>1, <1>2
  <2>2. /\ Cardinality(0 .. from - 1) = IF 0 > from - 1 THEN 0 ELSE from - 1 - 0 + 1
        /\ Cardinality(from .. to - 1) = IF from > to - 1 THEN 0 ELSE to - 1 - from + 1
    BY <2>1, FS_Interval
  <2>3. Cardinality(0 .. from - 1) = from /\ Cardinality(from .. to - 1) = to - from
    BY <2>1, <2>2
  <2> QED
    BY <1>1, <2>2, <2>3
<1>4. mine \cap taken = {} /\ Unit \notin mine
  BY <1>1, <1>2
<1>5. Cardinality(mine) =
        IF TotalTraffic(e) <= Unit - Cardinality(taken) THEN TotalTraffic(e) ELSE Unit - Cardinality(taken)
  BY <1>1, <1>2, <1>3 DEF ClampTraffic
<1> QED
  BY <1>4, <1>5 DEF mine, taken

------------------------------------------------------------------------------
(* The hashes of an experiment                                             *)

\* The first hash behind all those of the variants up to v.
LEMMA HashesBegin ==
    ASSUME NEW n \in Nat \ {0}, NEW k \in Nat
    PROVE  \E c \in Nat : /\ k * Unit <= c * n /\ c * n < k * Unit + n
                          /\ \A h \in Nat : k * Unit <= h * n <=> c <= h
<1> DEFINE S == {h \in Nat : k * Unit <= h * n}
<1>0. Unit \in Nat /\ k * Unit \in Nat
  BY DesignAssumption
<1>1. k * Unit \in S
  <2> DEFINE u == k * Unit
  <2>1. u \in Nat
    BY <1>0
  <2> HIDE DEF u
  <2>2. u <= u * n
    BY <2>1
  <2> QED
    BY <2>1, <2>2 DEF u
<1>2. PICK c \in S : \A h \in S : c <= h
  BY <1>1, LeastId
<1> DEFINE u == k * Unit
<1>3. u \in Nat /\ u <= c * n
  BY <1>0, <1>2
<1> HIDE DEF u
<1>4. c * n < u + n
  <2>1. CASE c = 0
    BY <1>3, <2>1
  <2>2. CASE c # 0
    <3>1. c - 1 \in Nat /\ c - 1 \notin S
      BY <1>2, <2>2
    <3>2. (c - 1) * n < u
      BY <1>3, <3>1 DEF u
    <3>3. (c - 1) * n = c * n - n
      OBVIOUS
    <3> QED
      BY <1>3, <3>2, <3>3
  <2> QED
    BY <2>1, <2>2
<1>5. ASSUME NEW h \in Nat, c <= h PROVE u <= h * n
  <2>1. c * n <= h * n
    BY <1>5
  <2> QED
    BY <1>3, <2>1
<1>6. \A h \in Nat : u <= h * n => c <= h
  BY <1>2 DEF u
<1> QED
  BY <1>3, <1>4, <1>5, <1>6 DEF u

\* A variant is passed by the hashes from a bound on that rises with its number.
LEMMA PassedBy ==
    ASSUME NEW e \in Experiments, NEW v \in Variants(e), NEW h \in Nat
    PROVE  v \in Passed(e, h) <=> v * Unit <= h * VariantCount[e]
<1> DEFINE n == VariantCount[e]
           w == TrafficWeight[e]
<1>1. /\ n \in Nat /\ w \in Nat /\ w # 0 /\ Unit \in Nat
      /\ TotalTraffic(e) = n * w
      /\ v \in Nat
  BY DesignAssumption DEF TotalTraffic, ClampTraffic, Variants
<1>2. v \in Passed(e, h) <=> v * w * Unit <= h * (n * w)
  BY <1>1 DEF Passed
<1> HIDE DEF n, w
<1> DEFINE a == v * Unit
           b == h * n
<1>3. a \in Nat /\ b \in Nat
  BY <1>1
<1>4. v * w * Unit = a * w /\ h * (n * w) = b * w
  BY <1>1
<1> HIDE DEF a, b
<1>5. a * w <= b * w <=> a <= b
  <2>1. CASE a <= b
    BY <1>1, <1>3, <2>1
  <2>2. CASE b + 1 <= a
    <3>1. (b + 1) * w <= a * w
      BY <1>1, <1>3, <2>2
    <3>2. (b + 1) * w = b * w + w
      BY <1>1, <1>3
    <3>3. b * w \in Nat /\ a * w \in Nat
      BY <1>1, <1>3
    <3> QED
      BY <1>1, <1>3, <2>2, <3>1, <3>2, <3>3
  <2> QED
    BY <1>3, <2>1, <2>2
<1> QED
  BY <1>2, <1>4, <1>5 DEF a, b, n

\* Where the hashes of a variant begin, counting from 0.
HashBound(e, k) == CHOOSE c \in Nat : \A h \in Nat : k * Unit <= h * VariantCount[e] <=> c <= h

LEMMA HashBounds ==
    ASSUME NEW e \in Experiments, NEW k \in Nat
    PROVE  /\ HashBound(e, k) \in Nat
           /\ k * Unit <= HashBound(e, k) * VariantCount[e]
           /\ HashBound(e, k) * VariantCount[e] < k * Unit + VariantCount[e]
           /\ \A h \in Nat : k * Unit <= h * VariantCount[e] <=> HashBound(e, k) <= h
<1>1. VariantCount[e] \in Nat \ {0}
  BY DesignAssumption
<1>2. PICK c \in Nat : /\ k * Unit <= c * VariantCount[e]
                       /\ c * VariantCount[e] < k * Unit + VariantCount[e]
                       /\ \A h \in Nat : k * Unit <= h * VariantCount[e] <=> c <= h
  BY <1>1, HashesBegin
<1>3. /\ HashBound(e, k) \in Nat
      /\ \A h \in Nat : k * Unit <= h * VariantCount[e] <=> HashBound(e, k) <= h
  BY <1>2 DEF HashBound
<1>4. HashBound(e, k) = c
  <2>1. HashBound(e, k) <= c /\ c <= HashBound(e, k)
    BY <1>2, <1>3
  <2> QED
    BY <1>3, <2>1
<1> QED
  BY <1>2, <1>4

\* The hashes of a variant are those between its bounds.
LEMMA HashesAreInterval ==
    ASSUME NEW e \in Experiments, NEW v \in Variants(e)
    PROVE  /\ v \in Nat /\ v - 1 \in Nat
           /\ HashBound(e, v - 1) <= HashBound(e, v)
           /\ HashesOf[e][v] = HashBound(e, v - 1) .. HashBound(e, v) - 1
<1> DEFINE n == VariantCount[e]
           from == HashBound(e, v - 1)
           to == HashBound(e, v)
<1>1. n \in Nat /\ v \in Nat /\ v - 1 \in Nat /\ v \in 1 .. n /\ Unit \in Nat
  BY DesignAssumption DEF Variants
<1>2. /\ from \in Nat /\ \A h \in Nat : (v - 1) * Unit <= h * n <=> from <= h
      /\ to \in Nat /\ \A h \in Nat : v * Unit <= h * n <=> to <= h
  BY <1>1, HashBounds
<1>3. from <= to
  <2>1. v * Unit <= to * n
    BY <1>2
  <2>2. (v - 1) * Unit <= v * Unit /\ v * Unit \in Nat /\ (v - 1) * Unit \in Nat /\ to * n \in Nat
    BY <1>1, <1>2
  <2>3. (v - 1) * Unit <= to * n
    BY <2>1, <2>2
  <2> QED
    BY <1>2, <2>3
<1>4. to <= Unit
  <2>1. v * Unit <= n * Unit /\ n * Unit = Unit * n
    BY <1>1
  <2> QED
    BY <1>1, <1>2, <2>1
<1>5. ASSUME NEW h \in 0 .. Unit - 1
      PROVE  v \in SelectVariant(e, h) <=> from <= h /\ h < to
  <2>1. h \in Nat /\ h < Unit
    BY <1>1
  <2>2. \A w \in Variants(e) : w \in Passed(e, h) <=> w * Unit <= h * n
    BY <2>1, PassedBy
  <2>3. n \in Variants(e) /\ n \notin Passed(e, h)
    <3>1. n \in Variants(e)
      BY <1>1 DEF Variants
    <3>2. h * n < n * Unit
      BY <1>1, <2>1
    <3> QED
      BY <1>1, <2>1, <2>2, <3>1, <3>2
  <2>4. v \in SelectVariant(e, h) <=>
          v \notin Passed(e, h) /\ \A w \in Variants(e) : w < v => w \in Passed(e, h)
    BY <2>3 DEF SelectVariant
  <2>5. v \notin Passed(e, h) <=> h < to
    BY <1>1, <1>2, <2>1, <2>2
  <2>6. (\A w \in Variants(e) : w < v => w \in Passed(e, h)) <=> from <= h
    <3>1. ASSUME from <= h, NEW w \in Variants(e), w < v
          PROVE  w \in Passed(e, h)
      <4>1. w \in Nat /\ w <= v - 1
        BY <1>1, <3>1 DEF Variants
      <4>2. w * Unit <= (v - 1) * Unit
        BY <1>1, <4>1
      <4>3. (v - 1) * Unit <= h * n
        BY <1>2, <2>1, <3>1
      <4>4. w * Unit \in Nat /\ (v - 1) * Unit \in Nat /\ h * n \in Nat
        BY <1>1, <2>1, <4>1
      <4> QED
        BY <2>2, <4>2, <4>3, <4>4
    <3>2. ASSUME \A w \in Variants(e) : w < v => w \in Passed(e, h)
          PROVE  from <= h
      <4>1. CASE v = 1
        <5>1. (v - 1) * Unit = 0 /\ h * n \in Nat
          BY <1>1, <2>1, <4>1
        <5> QED
          BY <1>2, <2>1, <5>1
      <4>2. CASE v # 1
        <5>1. v - 1 \in Variants(e) /\ v - 1 < v
          BY <1>1, <4>2 DEF Variants
        <5> QED
          BY <1>2, <2>1, <2>2, <3>2, <5>1
      <4> QED
        BY <4>1, <4>2
    <3> QED
      BY <3>1, <3>2
  <2> QED
    BY <2>4, <2>5, <2>6
<1>6. HashesOf[e][v] = {h \in 0 .. Unit - 1 : v \in SelectVariant(e, h)}
  BY DEF HashesOf
<1> HIDE DEF from, to
<1>7. \A h : h \in HashesOf[e][v] <=> h \in from .. to - 1
  BY <1>1, <1>2, <1>4, <1>5, <1>6
<1> QED
  BY <1>1, <1>3, <1>7 DEF from, to

\* The last claim: each variant has the whole part of Unit / n hashes, or one more
\* or less, and no hash is of two.
LEMMA HashesAreShared ==
    ASSUME NEW e \in Experiments, NEW v \in Variants(e), NEW w \in Variants(e)
    PROVE  /\ Cardinality(HashesOf[e][v]) - Cardinality(HashesOf[e][w]) \in -1 .. 1
           /\ v # w => HashesOf[e][v] \cap HashesOf[e][w] = {}
<1> DEFINE n == VariantCount[e]
           size(x) == HashBound(e, x) - HashBound(e, x - 1)
<1>1. n \in Nat /\ n # 0 /\ Unit \in Nat
  BY DesignAssumption
<1>2. ASSUME NEW x \in Variants(e)
      PROVE  /\ size(x) \in Nat /\ Cardinality(HashesOf[e][x]) = size(x)
             /\ Unit - n < size(x) * n /\ size(x) * n < Unit + n
  <2> DEFINE a == HashBound(e, x - 1)
             b == HashBound(e, x)
  <2>1. /\ x \in Nat /\ x - 1 \in Nat /\ a <= b
        /\ HashesOf[e][x] = a .. b - 1
    BY HashesAreInterval
  <2>2. /\ a \in Nat /\ (x - 1) * Unit <= a * n /\ a * n < (x - 1) * Unit + n
        /\ b \in Nat /\ x * Unit <= b * n /\ b * n < x * Unit + n
    BY <2>1, HashBounds
  <2> HIDE DEF a, b
  <2>3. Cardinality(a .. b - 1) = IF a > b - 1 THEN 0 ELSE b - 1 - a + 1
    BY <2>2, FS_Interval
  <2>4. Cardinality(a .. b - 1) = b - a /\ b - a \in Nat
    BY <2>1, <2>2, <2>3
  <2>5. (b - a) * n = b * n - a * n /\ (x - 1) * Unit = x * Unit - Unit
    BY <1>1, <2>1, <2>2
  <2>6. a * n \in Nat /\ b * n \in Nat /\ x * Unit \in Nat
    BY <1>1, <2>1, <2>2
  <2>7. Unit - n < (b - a) * n /\ (b - a) * n < Unit + n
    BY <1>1, <2>2, <2>5, <2>6
  <2> QED
    BY <2>1, <2>4, <2>7 DEF a, b
<1>3. size(v) - size(w) \in -1 .. 1
  <2> DEFINE x == size(v)
             y == size(w)
  <2>1. /\ x \in Nat /\ Unit - n < x * n /\ x * n < Unit + n
        /\ y \in Nat /\ Unit - n < y * n /\ y * n < Unit + n
    BY <1>2
  <2> HIDE DEF x, y, n
  <2>2. x * n \in Nat /\ y * n \in Nat
    BY <1>1, <2>1
  <2>3. x <= y + 1
    <3>1. SUFFICES ASSUME y + 2 <= x PROVE FALSE
      BY <2>1
    <3>2. (y + 2) * n <= x * n /\ (y + 2) * n = y * n + 2 * n
      BY <1>1, <2>1, <3>1
    <3> QED
      BY <1>1, <2>1, <2>2, <3>2
  <2>4. y <= x + 1
    <3>1. SUFFICES ASSUME x + 2 <= y PROVE FALSE
      BY <2>1
    <3>2. (x + 2) * n <= y * n /\ (x + 2) * n = x * n + 2 * n
      BY <1>1, <2>1, <3>1
    <3> QED
      BY <1>1, <2>1, <2>2, <3>2
  <2> QED
    BY <2>1, <2>3, <2>4 DEF x, y
<1>4. ASSUME NEW x \in Variants(e), NEW y \in Variants(e), x < y
      PROVE  HashesOf[e][x] \cap HashesOf[e][y] = {}
  <2>1. x \in Nat /\ y \in Nat /\ y - 1 \in Nat /\ x - 1 \in Nat
    BY HashesAreInterval
  <2>2. HashBound(e, x) <= HashBound(e, y - 1)
    <3> DEFINE c == HashBound(e, y - 1)
    <3>1. c \in Nat /\ (y - 1) * Unit <= c * n
      BY <2>1, HashBounds
    <3>2. x * Unit <= (y - 1) * Unit
      BY <1>1, <1>4, <2>1
    <3>3. x * Unit \in Nat /\ (y - 1) * Unit \in Nat /\ c * n \in Nat
      BY <1>1, <2>1, <3>1
    <3>4. x * Unit <= c * n
      BY <3>1, <3>2, <3>3
    <3> QED
      BY <2>1, <3>1, <3>4, HashBounds
  <2>3. /\ HashBound(e, x) \in Nat /\ HashBound(e, x - 1) \in Nat
        /\ HashBound(e, y) \in Nat /\ HashBound(e, y - 1) \in Nat
    BY <2>1, HashBounds
  <2>4. /\ HashesOf[e][x] = HashBound(e, x - 1) .. HashBound(e, x) - 1
        /\ HashesOf[e][y] = HashBound(e, y - 1) .. HashBound(e, y) - 1
    BY HashesAreInterval
  <2> QED
    BY <2>2, <2>3, <2>4
<1>5. v \in Nat /\ w \in Nat
  BY HashesAreInterval
<1> QED
  BY <1>2, <1>3, <1>4, <1>5

\* The experiments of a layer share its buckets without overlap, each with its
\* traffic or what is left, and the variants of an experiment share its hashes
\* evenly: in every config, for any number of experiments, variants, weights and
\* parts of traffic.
THEOREM TrafficIsAlwaysSplit == Spec => []TrafficIsSplit
<1>1. RolloutInv => TrafficIsSplit
  <2> SUFFICES ASSUME RolloutInv, NEW n \in DOMAIN feed, NEW e \in feed[n]
               PROVE  LET buckets == BucketsOf[feed[n]]
                          taken == UNION {buckets[d] : d \in Elders(feed[n], e)}
                          left == Unit - Cardinality(taken)
                      IN /\ buckets[e] \cap taken = {}
                         /\ Cardinality(buckets[e]) = IF TotalTraffic(e) <= left THEN TotalTraffic(e) ELSE left
                         /\ Unit \notin buckets[e]
                         /\ \A v, w \in Variants(e) :
                              /\ Cardinality(HashesOf[e][v]) - Cardinality(HashesOf[e][w]) \in -1 .. 1
                              /\ v # w => HashesOf[e][v] \cap HashesOf[e][w] = {}
    BY DEF TrafficIsSplit
  <2>1. feed[n] \in SUBSET Experiments /\ e \in Experiments
    BY DEF RolloutInv, TypeOK
  <2> QED
    BY <2>1, LayerIsSplit, HashesAreShared
<1> QED
  BY <1>1, AnswersAreOfConfigs, PTL

------------------------------------------------------------------------------
(* One of each                                                             *)

\* The parts of a layer do not overlap.
LEMMA SelectsOne ==
    ASSUME NEW config \in SUBSET Experiments, NEW layer, NEW bucket \in 0 .. Unit,
           NEW d \in SelectExperiment(config, layer, bucket),
           NEW e \in SelectExperiment(config, layer, bucket)
    PROVE  d = e
<1>1. ASSUME NEW b \in SelectExperiment(config, layer, bucket),
             NEW c \in SelectExperiment(config, layer, bucket), b < c
      PROVE  FALSE
  <2>1. /\ b \in config /\ c \in config
        /\ LayerOf[b] = layer /\ LayerOf[c] = layer
        /\ Cursor(config, b) <= bucket /\ bucket < Limit(config, b)
        /\ Cursor(config, c) <= bucket
    BY DEF SelectExperiment, ParseLayer, Limit
  <2>2. b \in Elders(config, c)
    BY <1>1, <2>1 DEF Elders
  <2>3. BucketsOf[config][b] \subseteq 0 .. Cursor(config, c) - 1
    BY <2>1, <2>2, EldersTakeAllBefore
  <2>4. BucketsOf[config][b] = Cursor(config, b) .. Limit(config, b) - 1
    BY <2>1, BucketsAreInterval
  <2>5. /\ Cursor(config, b) \in 0 .. Unit /\ Cursor(config, c) \in 0 .. Unit
        /\ Limit(config, b) \in Cursor(config, b) .. Unit
        /\ Unit \in Nat
    BY <2>1, BucketsAreInterval, TrafficType
  <2>6. Limit(config, b) - 1 \in BucketsOf[config][b]
    BY <2>1, <2>4, <2>5
  <2> QED
    BY <2>1, <2>3, <2>5, <2>6
<1>2. d \in Nat /\ e \in Nat
  BY DesignAssumption DEF SelectExperiment, ParseLayer
<1> QED
  BY <1>1, <1>2

\* A hash is in one variant.
LEMMA SelectsOneVariant ==
    ASSUME NEW e \in Experiments, NEW hash, NEW v \in SelectVariant(e, hash),
           NEW w \in SelectVariant(e, hash)
    PROVE  v = w
<1>1. v \in Variants(e) /\ w \in Variants(e) /\ v \in Nat /\ w \in Nat
  BY DesignAssumption DEF SelectVariant, Variants
<1>2. Passed(e, hash) \subseteq Variants(e)
  BY DEF Passed
<1>3. ASSUME NEW x \in Variants(e), NEW y \in Variants(e), x \in SelectVariant(e, hash),
             y \in SelectVariant(e, hash), x < y
      PROVE  FALSE
  <2>1. VariantCount[e] \in Nat
    BY DesignAssumption
  <2>2. y <= VariantCount[e] /\ x \in Nat /\ y \in Nat
    BY <2>1 DEF Variants
  <2>3. CASE y \notin Passed(e, hash)
    <3>1. x \in Passed(e, hash)
      BY <1>3, <2>3 DEF SelectVariant
    <3> QED
      BY <1>3, <2>3, <3>1 DEF SelectVariant
  <2>4. CASE y \in Passed(e, hash)
    <3>1. Passed(e, hash) = Variants(e)
      BY <1>3, <2>4 DEF SelectVariant
    <3>2. x = VariantCount[e]
      BY <1>3, <3>1 DEF SelectVariant
    <3> QED
      BY <1>3, <2>1, <2>2, <3>2
  <2> QED
    BY <2>3, <2>4
<1> QED
  BY <1>1, <1>3

\* A layer gives one variant at most.
LEMMA LayerGivesOne ==
    ASSUME NEW config \in SUBSET Experiments, NEW layer \in Layers, NEW key \in SubjectKeys, NEW testId,
           NEW p \in AssignLayer(config, layer, key, testId),
           NEW q \in AssignLayer(config, layer, key, testId)
    PROVE  p = q
<1> DEFINE forced == SelectExperimentByTestId(config, layer, testId)
           hashed == SelectExperiment(config, layer, LayerHash[key][layer])
<1>1. CASE forced # {}
  <2>1. PICK d \in forced : \E v \in FindVariantByTestId(d, testId) : p = <<d, v>>
    BY <1>1 DEF AssignLayer
  <2>2. PICK e \in forced : \E v \in FindVariantByTestId(e, testId) : q = <<e, v>>
    BY <1>1 DEF AssignLayer
  <2>3. d = e /\ d \in Experiments
    <3>1. d \in ParseLayer(config, layer) /\ FindVariantByTestId(d, testId) # {}
      BY DEF SelectExperimentByTestId
    <3>2. PICK c : forced = {c}
      BY <3>1, ForcedFirst
    <3> QED
      BY <3>1, <3>2 DEF ParseLayer
  <2>4. PICK v \in FindVariantByTestId(d, testId) : p = <<d, v>>
    BY <2>1
  <2>5. PICK w \in FindVariantByTestId(d, testId) : q = <<d, w>>
    BY <2>2, <2>3
  <2>6. v \in Variants(d) /\ <<d, v>> \in NamedBy[testId]
    BY DEF FindVariantByTestId
  <2>7. PICK u : FindVariantByTestId(d, testId) = {u}
    BY <2>3, <2>6, FindFirst
  <2> QED
    BY <2>4, <2>5, <2>7
<1>2. CASE forced = {}
  <2>1. PICK d \in hashed : \E v \in SelectVariant(d, VariantHash[key][d]) : p = <<d, v>>
    BY <1>2 DEF AssignLayer
  <2>2. PICK e \in hashed : \E v \in SelectVariant(e, VariantHash[key][e]) : q = <<e, v>>
    BY <1>2 DEF AssignLayer
  <2>0. LayerHash[key][layer] \in 0 .. Unit
    BY HashAssumption
  <2>3. d = e
    BY <2>0, SelectsOne
  <2>4. d \in Experiments
    BY DEF SelectExperiment, ParseLayer
  <2> QED
    BY <2>1, <2>2, <2>3, <2>4, SelectsOneVariant
<1> QED
  BY <1>1, <1>2

LEMMA GivesOne ==
    ASSUME NEW config \in SUBSET Experiments, NEW key \in SubjectKeys, NEW testId,
           NEW p \in Assign(config, key, testId), NEW q \in Assign(config, key, testId),
           LayerOf[p[1]] = LayerOf[q[1]]
    PROVE  p = q
<1>1. p[1] \in Experiments
  BY AssignOfConfig
<1>2. LayerOf[p[1]] \in Layers
  BY <1>1, DesignAssumption
<1> DEFINE layer == LayerOf[p[1]]
<1>3. {x \in Assign(config, key, testId) : LayerOf[x[1]] = layer} = AssignLayer(config, layer, key, testId)
  BY <1>2, AssignInLayer
<1>4. p \in AssignLayer(config, layer, key, testId) /\ q \in AssignLayer(config, layer, key, testId)
  BY <1>3
<1> QED
  BY <1>2, <1>4, LayerGivesOne

\* The layers of a config are in some order.
LEMMA LayersInOrder ==
    ASSUME NEW config \in SUBSET Experiments, NEW p, NEW q,
           p[1] \in config, q[1] \in config, LayerOf[p[1]] # LayerOf[q[1]]
    PROVE  LayerFollows(config, p, q) \/ LayerFollows(config, q, p)
<1>1. ASSUME NEW e \in config
      PROVE  \E d \in Oldest(config, LayerOf[e]) : d \in Nat /\ LayerOf[d] = LayerOf[e]
  <2> DEFINE P == ParseLayer(config, LayerOf[e])
  <2>1. P \in SUBSET Nat /\ P # {} /\ P \subseteq config
    BY DesignAssumption DEF ParseLayer
  <2>2. PICK d \in P : \A c \in P : d <= c
    BY <2>1, LeastId
  <2>3. Before(config, d) = {}
    BY <2>1, <2>2 DEF Before, ParseLayer
  <2> QED
    BY <2>1, <2>2, <2>3 DEF Oldest, ParseLayer
<1>2. PICK d \in Oldest(config, LayerOf[p[1]]) : d \in Nat /\ LayerOf[d] = LayerOf[p[1]]
  BY <1>1
<1>3. PICK e \in Oldest(config, LayerOf[q[1]]) : e \in Nat /\ LayerOf[e] = LayerOf[q[1]]
  BY <1>1
<1>4. d < e \/ e < d
  BY <1>2, <1>3
<1> QED
  BY <1>2, <1>3, <1>4 DEF LayerFollows

\* An answer has one variant at most of each layer, and one value at most of
\* each flag, which is that of a variant it has.
THEOREM AnswersHaveOneOfEach == Spec => []OneOfEach
<1>1. RolloutInv => OneOfEach
  <2> SUFFICES ASSUME RolloutInv, NEW r \in Requests, NEW a \in answer[r]
               PROVE  /\ \A p, q \in a.assignments : LayerOf[p[1]] = LayerOf[q[1]] => p = q
                      /\ \A x, y \in a.flags : x[1] = y[1] => x = y
                      /\ \A x \in a.flags : x[2] \in a.assignments /\ x[1] \in FlagsOf[x[2]]
    BY DEF OneOfEach
  <2>1. FromConfig(a) /\ a.version \in 0 .. Len(feed)
    BY DEF RolloutInv, ConfigInv, FromConfig
  <2>2. CASE a.version = 0
    BY <2>1, <2>2 DEF FromConfig
  <2>3. CASE a.version # 0
    <3> DEFINE config == feed[a.version]
    <3>1. config \in SUBSET Experiments
      BY <2>1, <2>3 DEF RolloutInv, TypeOK
    <3>2. /\ a.assignments = Assign(config, a.key, a.testId)
          /\ a.flags = FlagValues(config, a.assignments)
      BY <2>1, <2>3 DEF FromConfig
    <3> HIDE DEF config
    <3>3. \A p, q \in a.assignments : LayerOf[p[1]] = LayerOf[q[1]] => p = q
      <4>1. a.key \in SubjectKeys
        BY DEF RolloutInv, TypeOK, Answer
      <4> QED
        BY <3>1, <3>2, <4>1, GivesOne
    <3>4. \A p \in a.assignments : p[1] \in config
      BY <3>1, <3>2, AssignOfConfig
    <3>5. ASSUME NEW x \in a.flags
          PROVE  \E flag, p : x = <<flag, p>> /\ p \in a.assignments /\ flag \in FlagsOf[p]
      BY <3>2 DEF FlagValues
    <3>6. ASSUME NEW x \in a.flags, NEW y \in a.flags, x[1] = y[1]
          PROVE  x = y
      <4>1. PICK f, p : x = <<f, p>> /\ p \in a.assignments /\ f \in FlagsOf[p]
        BY <3>5
      <4>2. PICK g, q : y = <<g, q>> /\ q \in a.assignments /\ g \in FlagsOf[q]
        BY <3>5
      <4>3. f = g
        BY <3>6, <4>1, <4>2
      <4>4. ~ LayerFollows(config, p, q) /\ ~ LayerFollows(config, q, p)
        BY <3>2, <4>1, <4>2, <4>3, FlagValue
      <4>5. LayerOf[p[1]] = LayerOf[q[1]]
        BY <3>1, <3>4, <4>1, <4>2, <4>4, LayersInOrder
      <4> QED
        BY <3>3, <4>1, <4>2, <4>3, <4>5
    <3> QED
      BY <3>3, <3>5, <3>6
  <2> QED
    BY <2>2, <2>3
<1> QED
  BY <1>1, AnswersAreOfConfigs, PTL

==============================================================================

---------------------------- MODULE ConfigFeedProofs ----------------------------
(* What a request sees of publication is a ConfigFeed: the configs of each service. *)
EXTENDS PublicationHistory, TLAPS

ServiceFeed(s) == [n \in DOMAIN configs[s] |-> configs[s][n].experiments]

\* The promises of publication, for one service, are a feed.
Feed(s) == INSTANCE ConfigFeed
             WITH Experiments <- {e \in Experiments : ServiceOf[e] = s},
                  feed <- ServiceFeed(s)

Config == [version : Nat, experiments : SUBSET Experiments]

\* The configs of every service are a sequence.
Lists == configs \in [Services -> Seq(Config)]

\* A build appends one config to those of its service.
LEMMA PublishAppends ==
    ASSUME Lists, NEW s \in Services, Publish(s)
    PROVE  \E config \in Config :
             /\ config.experiments \subseteq {e \in Experiments : ServiceOf[e] = s}
             /\ configs' = [configs EXCEPT ![s] = Append(@, config)]
<1>1. PICK queued, others \in SUBSET {e \in Experiments : ServiceOf[e] = s} :
        configs' = [configs EXCEPT ![s] =
                      Append(@, [version |-> Len(@) + 1, experiments |-> queued \cup others])]
  BY Zenon DEF Publish
<1> DEFINE config == [version |-> Len(configs[s]) + 1, experiments |-> queued \cup others]
<1>2. Len(configs[s]) \in Nat
  BY DEF Lists
<1>3. config \in Config /\ config.experiments = queued \cup others
  BY <1>2 DEF Config
<1>4. configs' = [configs EXCEPT ![s] = Append(@, config)]
  BY <1>1
<1> QED
  BY <1>3, <1>4

LEMMA ListsStay == HistorySpec => []Lists
<1>1. HistoryInit => Lists
  BY DEF HistoryInit, Lists
<1>2. Lists /\ [HistoryNext]_historyVars => Lists'
  <2> SUFFICES ASSUME Lists, [HistoryNext]_historyVars PROVE Lists'
    OBVIOUS
  <2>1. ASSUME NEW s \in Services, Publish(s) PROVE Lists'
    <3>1. PICK config \in Config : configs' = [configs EXCEPT ![s] = Append(@, config)]
      BY <2>1, PublishAppends
    <3> QED
      BY <3>1 DEF Lists
  <2>2. CASE UNCHANGED configs
    BY <2>2 DEF Lists
  <2> QED
    BY <2>1, <2>2 DEF HistoryNext, CreateDraft, Move, historyVars
<1> QED
  BY <1>1, <1>2, PTL DEF HistorySpec

\* What a build of s appends to its configs, it appends to its feed.
LEMMA FeedAppends ==
    ASSUME Lists, NEW s \in Services, NEW config \in Config,
           configs' = [configs EXCEPT ![s] = Append(@, config)]
    PROVE  ServiceFeed(s)' = Append(ServiceFeed(s), config.experiments)
<1> DEFINE q == configs[s]
           f == ServiceFeed(s)
           g == Append(f, config.experiments)
<1>1. q \in Seq(Config) /\ configs'[s] = Append(q, config)
  BY DEF Lists
<1>2. \A n \in 1 .. Len(q) : q[n].experiments \in SUBSET Experiments
  <2> TAKE n \in 1 .. Len(q)
  <2>1. q[n] \in Config
    BY <1>1
  <2> QED
    BY <2>1 DEF Config
<1>3. f = [n \in 1 .. Len(q) |-> q[n].experiments] /\ Len(q) \in Nat
  BY <1>1 DEF ServiceFeed
<1>4. f \in Seq(SUBSET Experiments) /\ Len(f) = Len(q)
  BY <1>2, <1>3
<1>5. config.experiments \in SUBSET Experiments
  BY DEF Config
<1>6. g \in Seq(SUBSET Experiments) /\ Len(g) = Len(q) + 1
  BY <1>4, <1>5
<1>7. ServiceFeed(s)' = [n \in 1 .. Len(q) + 1 |-> Append(q, config)[n].experiments]
  BY <1>1, <1>3 DEF ServiceFeed
<1>8. \A n \in 1 .. Len(q) + 1 : Append(q, config)[n].experiments = g[n]
  BY <1>1, <1>3, <1>4
<1>9. g = [n \in 1 .. Len(q) + 1 |-> g[n]]
  BY <1>6
<1> QED
  BY <1>7, <1>8, <1>9

\* A build of a service appends to its feed, and nothing else changes it:
\* whatever is shown of a ConfigFeed holds of publication.
THEOREM ImplementsConfigFeed ==
    ASSUME NEW s \in Services
    PROVE  HistorySpec => Feed(s)!FeedSpec
<1>1. HistoryInit => Feed(s)!FeedInit
  BY DEF HistoryInit, Feed!FeedInit, ServiceFeed
<1>2. Lists /\ [HistoryNext]_historyVars => [Feed(s)!PublishConfig]_(ServiceFeed(s))
  <2> SUFFICES ASSUME Lists, [HistoryNext]_historyVars
               PROVE  Feed(s)!PublishConfig \/ ServiceFeed(s)' = ServiceFeed(s)
    OBVIOUS
  <2>1. ASSUME NEW u \in Services, Publish(u)
        PROVE  Feed(s)!PublishConfig \/ ServiceFeed(s)' = ServiceFeed(s)
    <3>1. PICK config \in Config :
            /\ config.experiments \subseteq {e \in Experiments : ServiceOf[e] = u}
            /\ configs' = [configs EXCEPT ![u] = Append(@, config)]
      BY <2>1, PublishAppends
    <3>2. CASE u = s
      <4>1. ServiceFeed(s)' = Append(ServiceFeed(s), config.experiments)
        BY <3>1, <3>2, FeedAppends
      <4> QED
        BY <3>1, <3>2, <4>1 DEF Feed!PublishConfig
    <3>3. CASE u # s
      BY <3>1, <3>3 DEF Lists, ServiceFeed
    <3> QED
      BY <3>2, <3>3
  <2>2. CASE UNCHANGED configs
    BY <2>2 DEF ServiceFeed
  <2> QED
    BY <2>1, <2>2 DEF HistoryNext, CreateDraft, Move, historyVars
<1> QED
  BY <1>1, <1>2, ListsStay, PTL DEF HistorySpec, Feed!FeedSpec

================================================================================

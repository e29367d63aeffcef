------------------------ MODULE GpuContainers_proofs -------------------------
(***************************************************************************)
(* Theorems about GpuContainers, for every configuration file, every set   *)
(* of GPUs and any number of containers.                                   *)
(***************************************************************************)
EXTENDS GpuContainers, FiniteFolds

-----------------------------------------------------------------------------
(***************************************************************************)
(* Configurations and limits, as operators.                                *)
(***************************************************************************)

\* The fields of a configuration file.
LEMMA RawConfigFields ==
  ASSUME NEW raw \in RawConfig
  PROVE  /\ raw.partitioned \in BOOLEAN
         /\ raw.maxTimeShared \in Int
         /\ raw.strategy \in {"", "time-sharing", "mps", "other"}
         /\ raw.maxShared \in Int
BY DEF RawConfig

\* An accepted configuration with MPS has clients.
LEMMA MPSHasClients ==
  ASSUME NEW c \in Config, Consistent(c), c.strategy = "mps"
  PROVE  c.maxShared \in Nat /\ c.maxShared > 0
<1>1. c.maxShared \in Int
  BY DEF Config
<1>2. c.maxShared > 0
  BY DEF Consistent
<1> QED BY <1>1, <1>2

\* Strategy and number of clients are both there, or neither is.
LEMMA ConfigFromFields ==
  ASSUME NEW p \in BOOLEAN, NEW s \in {"", "time-sharing", "mps"}, NEW n \in Int,
         n > 0 <=> s \in {"time-sharing", "mps"}
  PROVE  LET c == [partitioned |-> p, strategy |-> s, maxShared |-> n]
         IN  c \in Config /\ Consistent(c)
BY DEF Config, Consistent

\* A comparison the proof below splits on.
LEMMA NotPositive == \A n \in Int : n <= 0 => ~(n > 0)
OBVIOUS

\* Whatever the configuration file says, and whether or not it can be read: main
\* goes on with a configuration that has a known strategy, and a number of clients
\* above 0 if and only if it shares GPUs (AddDefaultsAndValidate, and the empty
\* configuration that main falls back to).
THEOREM AcceptedConfigs ==
  ASSUME NEW raw \in RawConfig, NEW readable \in BOOLEAN
  PROVE  Configure(raw, readable) \in Config /\ Consistent(Configure(raw, readable))
<1>1. CASE readable /\ ValidSharing(raw)
  <2>1. Configure(raw, readable) =
          [partitioned |-> raw.partitioned, strategy |-> Sharing(raw)[1],
           maxShared |-> Sharing(raw)[2]]
    BY <1>1 DEF Configure
  <2>2. CASE raw.maxTimeShared > 0
    <3>1. Sharing(raw)[1] = "time-sharing" /\ Sharing(raw)[2] = raw.maxTimeShared
      BY <2>2 DEF Sharing
    <3> QED BY <2>1, <2>2, <3>1, RawConfigFields, ConfigFromFields
  <2>3. CASE ~(raw.maxTimeShared > 0)
    <3>1. Sharing(raw)[1] = raw.strategy /\ Sharing(raw)[2] = raw.maxShared
      BY <2>3 DEF Sharing
    <3>2. \/ raw.strategy \in {"time-sharing", "mps"} /\ raw.maxShared > 0
          \/ raw.strategy = "" /\ raw.maxShared <= 0
      BY <1>1, <2>3 DEF ValidSharing
    <3>3. /\ raw.strategy \in {"", "time-sharing", "mps"}
          /\ raw.maxShared > 0 <=> raw.strategy \in {"time-sharing", "mps"}
      <4>1. CASE raw.strategy \in {"time-sharing", "mps"} /\ raw.maxShared > 0
        BY <4>1
      <4>2. CASE raw.strategy = "" /\ raw.maxShared <= 0
        <5>1. raw.maxShared \in Int
          BY RawConfigFields
        <5>2. ~(raw.maxShared > 0)
          BY <4>2, <5>1, NotPositive
        <5> QED BY <4>2, <5>2
      <4> QED BY <3>2, <4>1, <4>2
    <3> QED BY <2>1, <3>1, <3>3, RawConfigFields, ConfigFromFields
  <2> QED BY <2>2, <2>3
<1>2. CASE ~(readable /\ ValidSharing(raw))
  <2>1. Sharing(NoConfig)[1] = "" /\ Sharing(NoConfig)[2] = 0 /\ NoConfig.partitioned = FALSE
    BY DEF Sharing, NoConfig
  <2>2. (IF readable /\ ValidSharing(raw) THEN raw ELSE NoConfig) = NoConfig
    BY <1>2
  <2>3. Configure(raw, readable) = [partitioned |-> FALSE, strategy |-> "", maxShared |-> 0]
    BY <2>1, <2>2 DEF Configure
  <2>4. 0 \in Int /\ ~(0 > 0) /\ FALSE \in BOOLEAN
    OBVIOUS
  <2>5. "" \in {"", "time-sharing", "mps"} /\ "" \notin {"time-sharing", "mps"}
    OBVIOUS
  <2>6. 0 > 0 <=> "" \in {"time-sharing", "mps"}
    BY <2>4, <2>5
  <2>7. LET c == [partitioned |-> FALSE, strategy |-> "", maxShared |-> 0]
        IN  c \in Config /\ Consistent(c)
    BY <2>4, <2>5, <2>6, ConfigFromFields
  <2> QED BY <2>3, <2>7
<1> QED BY <1>1, <1>2

\* Arithmetic.
LEMMA NatProduct == \A a, b \in Nat : a * b \in Nat
OBVIOUS

\* The divisions of Envs round down.
LEMMA DivisionRoundsDown ==
  ASSUME NEW a \in Nat, NEW b \in Nat, b > 0
  PROVE  a \div b \in Nat /\ (a \div b) * b <= a
OBVIOUS

\* The limits of a container are numbers.
LEMMA LimitsType ==
  ASSUME NEW n \in Nat, NEW m \in Nat, config \in Config, Consistent(config), Unit \in Nat \ {0}
  PROVE  Envs(config, n, m, Unit).threads \in Nat /\ Envs(config, n, m, Unit).memory \in Nat
<1>1. CASE config.strategy = "mps"
  <2>1. config.maxShared \in Nat /\ config.maxShared > 0
    BY <1>1, MPSHasClients
  <2>2. n * 100 \in Nat /\ n * m \in Nat
    BY NatProduct
  <2>3. (n * 100) \div config.maxShared \in Nat /\ (n * m) \div config.maxShared \in Nat
    BY <2>1, <2>2, DivisionRoundsDown
  <2>4. ((n * m) \div config.maxShared) \div Unit \in Nat
    BY <2>3, DivisionRoundsDown
  <2> QED BY <1>1, <2>3, <2>4 DEF Envs
<1>2. CASE config.strategy # "mps"
  BY <1>2 DEF Envs
<1> QED BY <1>1, <1>2

\* What Envs gives a container with n of the clients of a GPU is, rounding
\* included, no more than n shares of its threads and of its memory.
THEOREM MPSLimitsAreShares ==
  ASSUME NEW n \in Nat, config \in Config, Consistent(config), config.strategy = "mps",
         TotalMem \in Nat, Unit \in Nat \ {0}
  PROVE  LET limits == Envs(config, n, TotalMem, Unit)
         IN  /\ limits.threads * config.maxShared <= n * 100
             /\ (limits.memory * Unit) * config.maxShared <= n * TotalMem
<1>1. config.maxShared \in Nat /\ config.maxShared > 0
  BY MPSHasClients
<1>0. n * 100 \in Nat /\ n * TotalMem \in Nat
  BY NatProduct
<1> DEFINE t == (n * 100) \div config.maxShared
           share == (n * TotalMem) \div config.maxShared
<1>2. t * config.maxShared <= n * 100
  BY <1>0, <1>1, DivisionRoundsDown
<1>3. share \in Nat /\ share * config.maxShared <= n * TotalMem
  BY <1>0, <1>1, DivisionRoundsDown
<1>4. (share \div Unit) * Unit \in Nat /\ (share \div Unit) * Unit <= share
  BY <1>3, DivisionRoundsDown
<1>5. ((share \div Unit) * Unit) * config.maxShared <= share * config.maxShared
  <2> DEFINE u == (share \div Unit) * Unit
  <2>1. u \in Nat /\ u <= share
    BY <1>4
  <2> HIDE DEF u
  <2>2. u * config.maxShared <= share * config.maxShared
    BY <2>1, <1>1, <1>3
  <2> QED BY <2>2 DEF u
<1>6. ((share \div Unit) * Unit) * config.maxShared <= n * TotalMem
  BY <1>1, <1>3, <1>4, <1>5
<1> QED BY <1>2, <1>6 DEF Envs

-----------------------------------------------------------------------------
(***************************************************************************)
(* Typing, by groups of variables that actions leave alone together.       *)
(***************************************************************************)

NodeType == config \in Config /\ Consistent(config) /\ gpus \in SUBSET GPU

PodsType ==
  pods \in [Container -> [ids : SUBSET Tables!DeviceID, threads : Nat, memory : Nat]]

PluginType == main \in {"start", "serve", "metrics"} /\ memory \in Nat

TickerType == ticked \in BOOLEAN /\ sinceReset \in 0 .. ResetInterval + 1

CollectorType ==
  /\ collector \in {"wait", "list", "reset", "update"}
  /\ listed \in [containers : SUBSET Container, pairs : SUBSET Pair]

GaugesType ==
  /\ request \in SUBSET Container /\ duty \in SUBSET Pair
  /\ node \in SUBSET GPU /\ stale \in [Pair -> Nat]

LeftType == left \in [creations : Nat, failures : Nat]

\* TypeOK by groups,
LEMMA TypeGroups ==
  TypeOK <=> /\ NodeType /\ PodsType /\ PluginType /\ TickerType
             /\ CollectorType /\ GaugesType /\ LeftType
BY DEF TypeOK, NodeType, PodsType, PluginType, TickerType, CollectorType, GaugesType, LeftType

\* before a step and after it.
LEMMA TypeGroupsPrime ==
  TypeOK' <=> /\ NodeType' /\ PodsType' /\ PluginType' /\ TickerType'
              /\ CollectorType' /\ GaugesType' /\ LeftType'
BY DEF TypeOK, NodeType, PodsType, PluginType, TickerType, CollectorType, GaugesType, LeftType

\* A group is typed after a step that leaves its variables alone.
LEMMA NodeKept == ASSUME NodeType, UNCHANGED <<config, gpus>> PROVE NodeType'
BY DEF NodeType

LEMMA PodsKept == ASSUME PodsType, UNCHANGED <<config, pods>> PROVE PodsType'
BY DEF PodsType, Tables!DeviceID, Tables!Shared, Tables!VirtualID, Tables!Physical

LEMMA PluginKept == ASSUME PluginType, UNCHANGED <<main, memory>> PROVE PluginType'
BY DEF PluginType

LEMMA TickerKept == ASSUME TickerType, UNCHANGED <<ticked, sinceReset>> PROVE TickerType'
BY DEF TickerType

LEMMA CollectorKept == ASSUME CollectorType, UNCHANGED <<collector, listed>> PROVE CollectorType'
BY DEF CollectorType

LEMMA GaugesKept == ASSUME GaugesType, UNCHANGED gauges PROVE GaugesType'
BY DEF GaugesType, gauges

LEMMA LeftKept == ASSUME LeftType, UNCHANGED left PROVE LeftType'
BY DEF LeftType

\* A failure uses up one.
LEMMA FailType == ASSUME LeftType, Fail PROVE LeftType'
<1>1. left.failures \in Nat /\ left.failures > 0
  BY DEF LeftType, Fail
<1>2. left.failures - 1 \in Nat
  BY <1>1
<1> QED BY <1>2 DEF LeftType, Fail

\* Without gauges.
LEMMA ResetGaugesType == ASSUME ResetGauges PROVE GaugesType'
BY DEF GaugesType, ResetGauges

\* A container that is admitted has IDs and limits.
LEMMA AllocateType ==
  ASSUME TypeOK, NEW c \in Container, NEW ids \in SUBSET Tables!DeviceID,
         Cardinality(ids) \in Nat, Allocate(c, ids)
  PROVE  TypeOK'
<1> USE TypeGroups, ContainersAssumption
<1>1. NodeType' /\ PluginType' /\ TickerType' /\ CollectorType' /\ GaugesType'
  BY NodeKept, PluginKept, TickerKept, CollectorKept, GaugesKept DEF Allocate, metrics
<1>2. LeftType'
  <2>1. left.creations \in Nat /\ left.creations > 0
    BY DEF LeftType, Allocate
  <2>2. left.creations - 1 \in Nat
    BY <2>1
  <2> QED BY <2>2 DEF LeftType, Allocate
<1>3. PodsType'
  <2> DEFINE limits == Envs(config, Cardinality(ids), memory, Unit)
  <2>2. limits.threads \in Nat /\ limits.memory \in Nat
    BY LimitsType DEF NodeType, PluginType
  <2>3. pods' = [pods EXCEPT ![c] = [ids |-> ids, threads |-> limits.threads,
                                     memory |-> limits.memory]]
    BY DEF Allocate
  <2> HIDE DEF limits
  <2>4. pods' \in [Container -> [ids : SUBSET Tables!DeviceID, threads : Nat, memory : Nat]]
    BY <2>2, <2>3 DEF PodsType
  <2>5. UNCHANGED config
    BY DEF Allocate
  <2> QED BY <2>4, <2>5 DEF PodsType, Tables!DeviceID, Tables!Shared, Tables!VirtualID, Tables!Physical
<1> QED BY <1>1, <1>2, <1>3, TypeGroupsPrime

\* Every action keeps all of it.
LEMMA TypingOfActions ==
  ASSUME TypeOK, Next
  PROVE  TypeOK'
<1> USE TypeGroups, ContainersAssumption
<1>1. CASE ManagerStart
  <2>1. PluginType'
    BY <1>1 DEF ManagerStart, AfterStart, PluginType
  <2> QED BY <1>1, <2>1, NodeKept, PodsKept, TickerKept, CollectorKept, GaugesKept, LeftKept,
             TypeGroupsPrime DEF ManagerStart, metrics
<1>2. CASE PluginRestarts
  <2>1. PluginType' /\ TickerType'
    <3>1. 0 \in Nat /\ 0 \in 0 .. ResetInterval + 1
      OBVIOUS
    <3> QED BY <1>2, <3>1 DEF PluginRestarts, PluginType, TickerType
  <2>2. CollectorType'
    BY <1>2 DEF PluginRestarts, CollectorType, NoList
  <2> QED BY <1>2, <2>1, <2>2, NodeKept, PodsKept, FailType, ResetGaugesType, TypeGroupsPrime
          DEF PluginRestarts
<1>3. ASSUME NEW c \in Container, NEW n \in 1 .. MaxRequest,
             NEW ids \in kSubset(n, Tables!DeviceID), Allocate(c, ids)
      PROVE  TypeOK'
  <2>1. ids \in SUBSET Tables!DeviceID /\ Cardinality(ids) = n
    BY <1>3 DEF kSubset
  <2>2. n \in Nat
    BY <1>3
  <2> QED BY <1>3, <2>1, <2>2, AllocateType
<1>4. ASSUME NEW c \in Container, RemovePod(c)
      PROVE  TypeOK'
  <2>1. PodsType'
    BY <1>4 DEF RemovePod, PodsType, NoPod, Tables!DeviceID, Tables!Shared, Tables!VirtualID,
                Tables!Physical
  <2> QED BY <1>4, <2>1, NodeKept, PluginKept, TickerKept, CollectorKept, GaugesKept, LeftKept,
             TypeGroupsPrime DEF RemovePod, metrics
<1>5. ASSUME NEW c \in Container, CreateContainer(c)
      PROVE  TypeOK'
  BY <1>5, NodeKept, PodsKept, PluginKept, TickerKept, CollectorKept, GaugesKept, LeftKept,
     TypeGroupsPrime DEF CreateContainer, metrics
<1>6. CASE Tick
  <2>1. TickerType'
    BY <1>6 DEF Tick, TickerType
  <2> QED BY <1>6, <2>1, NodeKept, PodsKept, PluginKept, CollectorKept, GaugesKept, LeftKept,
             TypeGroupsPrime DEF Tick
<1>7. CASE TakeTick
  <2>1. TickerType' /\ CollectorType'
    BY <1>7 DEF TakeTick, TickerType, CollectorType
  <2> QED BY <1>7, <2>1, NodeKept, PodsKept, PluginKept, GaugesKept, LeftKept, TypeGroupsPrime
          DEF TakeTick
<1>8. CASE GetDevicesForAllContainers
  <2>1. CollectorType'
    BY <1>8 DEF GetDevicesForAllContainers, CollectorType, Admitted, Held, Pair
  <2>2. TickerType'
    BY <1>8, TickerKept DEF GetDevicesForAllContainers
  <2> QED BY <1>8, <2>1, <2>2, NodeKept, PodsKept, PluginKept, GaugesKept, LeftKept,
             TypeGroupsPrime DEF GetDevicesForAllContainers
<1>9. CASE ListFails
  <2>1. CollectorType'
    BY <1>9 DEF ListFails, CollectorType
  <2> QED BY <1>9, <2>1, NodeKept, PodsKept, PluginKept, TickerKept, GaugesKept, FailType,
             TypeGroupsPrime DEF ListFails
<1>10. CASE ResetMetricsIfNeeded
  <2>1. CollectorType' /\ TickerType'
    BY <1>10 DEF ResetMetricsIfNeeded, CollectorType, TickerType
  <2>2. GaugesType'
    BY <1>10, ResetGaugesType, GaugesKept DEF ResetMetricsIfNeeded
  <2> QED BY <1>10, <2>1, <2>2, NodeKept, PodsKept, PluginKept, LeftKept, TypeGroupsPrime
          DEF ResetMetricsIfNeeded
<1>11. CASE UpdateMetrics
  <2>1. CollectorType'
    BY <1>11 DEF UpdateMetrics, CollectorType, NoList
  <2>2. LeftType'
    BY <1>11, FailType, LeftKept DEF UpdateMetrics, Answering
  <2>3. request' \in SUBSET Container /\ duty' \in SUBSET Pair /\ node' \in SUBSET GPU
    BY <1>11 DEF UpdateMetrics, CollectorType, GaugesType, NodeType
  <2>4. stale' \in [Pair -> Nat]
    BY <1>11 DEF UpdateMetrics, GaugesType
  <2> QED BY <1>11, <2>1, <2>2, <2>3, <2>4, NodeKept, PodsKept, PluginKept, TickerKept,
             TypeGroupsPrime DEF UpdateMetrics, GaugesType
<1> QED BY <1>1, <1>2, <1>3, <1>4, <1>5, <1>6, <1>7, <1>8, <1>9, <1>10, <1>11
        DEF Next, Kubelet, Collector

-----------------------------------------------------------------------------
(***************************************************************************)
(* Stale gauges.                                                           *)
(***************************************************************************)

\* One pair's part of StaleInv that counts rounds.
FewRounds(p) ==
  /\ stale[p] <= ResetInterval + IF collector = "update" THEN 1 ELSE 2
  /\ \/ sinceReset > ResetInterval
     \/ stale[p] + Rounds <= sinceReset + IF collector = "update" THEN 1 ELSE 2

\* StaleInv pair by pair, before a step
LEMMA StaleParts ==
  StaleInv <=> \A p \in Pair : (p \in duty => p[1] \in request) /\ FewRounds(p)
BY DEF StaleInv, FewRounds

\* and after it.
LEMMA StalePartsPrime ==
  StaleInv' <=> \A p \in Pair : (p \in duty' => p[1] \in request') /\ FewRounds(p)'
BY DEF StaleInv, FewRounds, Rounds

\* The counters of rounds and ticks are numbers.
LEMMA CountsType ==
  ASSUME TypeOK, NEW p \in Pair
  PROVE  stale[p] \in Nat /\ sinceReset \in Nat /\ ResetInterval \in Nat
BY ContainersAssumption DEF TypeOK

\* Steps that leave the metrics server alone.
LEMMA MetricsKept ==
  ASSUME IInv, UNCHANGED <<main, metrics>>
  PROVE  StaleInv' /\ ListInv'
BY DEF IInv, StaleInv, ListInv, Rounds, metrics, gauges

\* A round that resets the gauges leaves none that is stale.
LEMMA NoGauges ==
  ASSUME TypeOK', ResetGauges
  PROVE  StaleInv'
<1>1. ResetInterval \in Nat
  BY ContainersAssumption
<1>2. PICK n \in Nat : sinceReset' = n
  <2>1. sinceReset' \in Nat
    BY <1>1 DEF TypeOK
  <2> QED BY <2>1
<1>3. ASSUME NEW p \in Pair
      PROVE  (p \in duty' => p[1] \in request') /\ FewRounds(p)'
  <2>1. stale'[p] = 0 /\ p \notin duty'
    BY DEF ResetGauges
  <2>2. FewRounds(p)'
    <3>1. CASE collector' = "update"
      BY <1>1, <1>2, <2>1, <3>1 DEF FewRounds, Rounds
    <3>2. CASE collector' # "update"
      BY <1>1, <1>2, <2>1, <3>2 DEF FewRounds, Rounds
    <3> QED BY <3>1, <3>2
  <2> QED BY <2>1, <2>2
<1> QED BY <1>3, StalePartsPrime

\* Every action keeps the count of rounds.
LEMMA StaleInvOfActions ==
  ASSUME IInv, TypeOK', Next
  PROVE  StaleInv' /\ ListInv'
<1> USE DEF IInv
<1>1. CASE ManagerStart
  BY <1>1 DEF ManagerStart, AfterStart, metrics, gauges, StaleInv, ListInv, Rounds
<1>2. CASE PluginRestarts
  <2>1. StaleInv'
    BY <1>2, NoGauges DEF PluginRestarts
  <2> QED BY <1>2, <2>1 DEF PluginRestarts, ResetGauges, ListInv, NoList
<1>3. ASSUME NEW c \in Container, NEW n \in 1 .. MaxRequest,
             NEW ids \in kSubset(n, Tables!DeviceID), Allocate(c, ids)
      PROVE  StaleInv' /\ ListInv'
  BY <1>3, MetricsKept DEF Allocate
<1>4. ASSUME NEW c \in Container, RemovePod(c)
      PROVE  StaleInv' /\ ListInv'
  BY <1>4, MetricsKept DEF RemovePod
<1>5. ASSUME NEW c \in Container, CreateContainer(c)
      PROVE  StaleInv' /\ ListInv'
  BY <1>5, MetricsKept DEF CreateContainer
<1>6. CASE Tick
  <2>1. ASSUME NEW p \in Pair
        PROVE  (p \in duty' => p[1] \in request') /\ FewRounds(p)'
    <3>1. stale'[p] = stale[p] /\ FewRounds(p) /\ (p \in duty' => p[1] \in request')
      BY <1>6, <2>1, StaleParts DEF Tick, gauges
    <3>2. FewRounds(p)'
      BY <1>6, <3>1, CountsType DEF Tick, FewRounds, Rounds
    <3> QED BY <3>1, <3>2
  <2> QED BY <1>6, <2>1, StalePartsPrime DEF Tick, ListInv, gauges
<1>7. CASE TakeTick
  <2>1. StaleInv'
    BY <1>7 DEF TakeTick, StaleInv, Rounds, gauges
  <2> QED BY <1>7, <2>1 DEF TakeTick, ListInv, gauges
<1>8. CASE GetDevicesForAllContainers
  <2>1. StaleInv'
    BY <1>8 DEF GetDevicesForAllContainers, StaleInv, Rounds, gauges
  <2>2. \A p \in Held : p[1] \in Admitted
    BY DEF Held, Admitted, GPUsOf, Pair
  <2> QED BY <1>8, <2>1, <2>2 DEF GetDevicesForAllContainers, ListInv, gauges
<1>9. CASE ListFails
  <2>1. ASSUME NEW p \in Pair
        PROVE  (p \in duty' => p[1] \in request') /\ FewRounds(p)'
    <3>1. stale'[p] = stale[p] /\ FewRounds(p) /\ (p \in duty' => p[1] \in request')
      BY <1>9, <2>1, StaleParts DEF ListFails, gauges
    <3>2. FewRounds(p)'
      BY <1>9, <3>1, CountsType DEF ListFails, FewRounds, Rounds
    <3> QED BY <3>1, <3>2
  <2> QED BY <1>9, <2>1, StalePartsPrime DEF ListFails, ListInv, gauges
<1>10. CASE ResetMetricsIfNeeded
  <2>1. ListInv'
    BY <1>10 DEF ResetMetricsIfNeeded, ResetGauges, ListInv, gauges
  <2>2. CASE ResetGauges
    BY <1>10, <2>1, <2>2, NoGauges DEF ResetMetricsIfNeeded
  <2>3. CASE sinceReset <= ResetInterval /\ UNCHANGED <<sinceReset, gauges>>
    <3>1. ASSUME NEW p \in Pair
          PROVE  (p \in duty' => p[1] \in request') /\ FewRounds(p)'
      <4>1. stale'[p] = stale[p] /\ FewRounds(p) /\ (p \in duty' => p[1] \in request')
        BY <2>3, <3>1, StaleParts DEF gauges
      <4>2. FewRounds(p)'
        BY <1>10, <2>3, <4>1, CountsType DEF ResetMetricsIfNeeded, FewRounds, Rounds
      <4> QED BY <4>1, <4>2
    <3> QED BY <2>1, <3>1, StalePartsPrime
  <2> QED BY <1>10, <2>2, <2>3 DEF ResetMetricsIfNeeded
<1>11. CASE UpdateMetrics
  <2>1. ASSUME NEW p \in Pair
        PROVE  (p \in duty' => p[1] \in request') /\ FewRounds(p)'
    <3>1. stale'[p] <= stale[p] + 1 /\ stale'[p] \in Nat
      BY <1>11, CountsType DEF UpdateMetrics
    <3>2. FewRounds(p)
      BY StaleParts
    <3>3. FewRounds(p)'
      BY <1>11, <3>1, <3>2, CountsType DEF UpdateMetrics, FewRounds, Rounds
    <3>4. p \in duty' => p \in duty \/ p \in listed.pairs
      BY <1>11 DEF UpdateMetrics
    <3>5. p \in duty' => p[1] \in request'
      BY <1>11, <3>4, StaleParts DEF UpdateMetrics, ListInv
    <3> QED BY <3>3, <3>5
  <2>2. ListInv'
    BY <1>11 DEF UpdateMetrics, ListInv, NoList
  <2> QED BY <2>1, <2>2, StalePartsPrime
<1> QED BY <1>1, <1>2, <1>3, <1>4, <1>5, <1>6, <1>7, <1>8, <1>9, <1>10, <1>11
        DEF Next, Kubelet, Collector

-----------------------------------------------------------------------------
(***************************************************************************)
(* Limits of MPS clients.                                                  *)
(***************************************************************************)

\* With MPS, IDs are numbered per GPU, as many as there are clients.
LEMMA SharedWithMPS ==
  ASSUME NodeType, config.strategy = "mps"
  PROVE  /\ config.maxShared \in Nat /\ config.maxShared > 0
         /\ Tables!Shared
         /\ Tables!DeviceID = GPU \X (0 .. config.maxShared - 1)
         /\ \A id \in Tables!DeviceID : Tables!PhysicalOf(id) = id[1]
<1>1. config.maxShared \in Nat /\ config.maxShared > 0
  BY MPSHasClients DEF NodeType
<1> QED
  BY <1>1 DEF Tables!Shared, Tables!DeviceID, Tables!VirtualID, Tables!Physical,
              Tables!PhysicalOf, Tables!VirtualToPhysicalDeviceID

\* There are finitely many IDs.
LEMMA FiniteIDs ==
  ASSUME NodeType
  PROVE  IsFiniteSet(Tables!DeviceID)
<1>1. IsFiniteSet(GPU) /\ config.maxShared \in Int
  BY ContainersAssumption DEF NodeType, Config
<1>2. IsFiniteSet(0 .. config.maxShared - 1)
  BY <1>1, FS_Interval
<1>3. IsFiniteSet(GPU \X (0 .. config.maxShared - 1))
  BY <1>1, <1>2, FS_Product
<1> QED
  BY <1>1, <1>3 DEF Tables!Shared, Tables!DeviceID, Tables!VirtualID, Tables!Physical

\* "time-sharing" takes one ID, and so does "mps" where there are several GPUs.
LEMMA OneGPUForEach ==
  ASSUME NodeType, config.strategy = "mps", NEW c \in Container,
         NEW ids \in SUBSET Tables!DeviceID, Allocate(c, ids)
  PROVE  \A x, y \in ids : Tables!PhysicalOf(x) = Tables!PhysicalOf(y)
<1> SUFFICES ASSUME NEW x \in ids, NEW y \in ids,
                    Tables!PhysicalOf(x) # Tables!PhysicalOf(y)
             PROVE  FALSE
  OBVIOUS
<1>1. IsFiniteSet(ids) /\ IsFiniteSet(gpus)
  BY FiniteIDs, FS_Subset, ContainersAssumption DEF NodeType
<1>2. Cardinality(ids) > 1
  <2>1. x # y
    OBVIOUS
  <2>2. {x, y} \in SUBSET ids
    OBVIOUS
  <2>3. Cardinality({x, y}) = 2
    BY <2>1, TwoElements
  <2>4. Cardinality({x, y}) <= Cardinality(ids) /\ Cardinality(ids) \in Nat
    BY <1>1, <2>2, FS_Subset, FS_CardinalityType
  <2> QED  BY <2>3, <2>4
<1>3. Cardinality(gpus) > 1
  <2> DEFINE g == Tables!PhysicalOf(x)
             h == Tables!PhysicalOf(y)
  <2>1. g \in gpus /\ h \in gpus
    BY DEF Allocate
  <2> HIDE DEF g, h
  <2>2. {g, h} \in SUBSET gpus
    BY <2>1
  <2>3. g # h
    BY DEF g, h
  <2>4. Cardinality({g, h}) = 2
    BY <2>3, TwoElements
  <2>5. Cardinality({g, h}) <= Cardinality(gpus) /\ Cardinality(gpus) \in Nat
    BY <1>1, <2>2, FS_Subset, FS_CardinalityType
  <2> QED  BY <2>4, <2>5
<1>4. Tables!IsVirtualDeviceID(x)
  BY SharedWithMPS DEF Tables!IsVirtualDeviceID, Tables!DeviceID
<1>5. Tables!ValidateRequest(ids, Cardinality(gpus))
  BY DEF Allocate
<1>6. Cardinality(gpus) <= 1
  <2>1. \E id \in ids : Tables!IsVirtualDeviceID(id)
    BY <1>4
  <2>2. Tables!Cardinality(ids) = Cardinality(ids)
    BY Zenon DEF Tables!Cardinality, Cardinality
  <2>3. Cardinality(gpus) <= 1
    BY <1>2, <1>5, <2>1, <2>2 DEF Tables!ValidateRequest
  <2> QED  BY <2>3
<1>7. Cardinality(gpus) \in Nat
  BY <1>1, FS_CardinalityType
<1> QED  BY <1>3, <1>6, <1>7

\* Arithmetic.
LEMMA Commuted ==
  /\ \A a, b \in Nat : a * b = b * a
  /\ \A a, b, c \in Nat : (a * b) * c = (c * b) * a
OBVIOUS

\* A container that is admitted has shares in proportion to its IDs.
LEMMA AllocateLimits ==
  ASSUME IInv, NEW c \in Container, NEW ids \in SUBSET Tables!DeviceID,
         Allocate(c, ids)
  PROVE  LimitsInv'
<1> USE ContainersAssumption
<1>1. NodeType /\ PodsType /\ PluginType
  BY TypeGroups DEF IInv
<1>2. Cardinality(ids) \in Nat
  BY <1>1, FiniteIDs, FS_Subset, FS_CardinalityType
<1> DEFINE limits == Envs(config, Cardinality(ids), memory, Unit)
<1>3. limits.threads \in Nat /\ limits.memory \in Nat
  BY <1>1, <1>2, LimitsType DEF NodeType, PluginType
<1>4. /\ pods' = [pods EXCEPT ![c] = [ids |-> ids, threads |-> limits.threads,
                                     memory |-> limits.memory]]
      /\ main # "start" /\ UNCHANGED <<config, main, memory>>
      /\ \A d \in Container : ids \cap pods[d].ids = {}
  BY DEF Allocate
<1>5. ASSUME config.strategy = "mps"
      PROVE  /\ config.maxShared * limits.threads <= 100 * Cardinality(ids)
             /\ (config.maxShared * Unit) * limits.memory <= TotalMem * Cardinality(ids)
  <2>1. memory = TotalMem
    BY <1>4, <1>5 DEF IInv, LimitsInv
  <2>2. /\ limits.threads * config.maxShared <= Cardinality(ids) * 100
        /\ (limits.memory * Unit) * config.maxShared <= Cardinality(ids) * TotalMem
    BY <1>1, <1>2, <1>5, <2>1, MPSLimitsAreShares DEF NodeType
  <2>3. config.maxShared \in Nat
    BY <1>1, <1>5, SharedWithMPS
  <2> HIDE DEF limits
  <2>4. /\ limits.threads * config.maxShared = config.maxShared * limits.threads
        /\ Cardinality(ids) * 100 = 100 * Cardinality(ids)
        /\ (limits.memory * Unit) * config.maxShared = (config.maxShared * Unit) * limits.memory
        /\ Cardinality(ids) * TotalMem = TotalMem * Cardinality(ids)
    BY <1>2, <1>3, <2>3, Commuted
  <2> QED  BY <2>2, <2>4
<1>6. config.strategy # "mps" => limits.threads = 0 /\ limits.memory = 0
  BY DEF Envs
<1> HIDE DEF limits
<1>7. /\ pods'[c].ids = ids /\ pods'[c].threads = limits.threads
      /\ pods'[c].memory = limits.memory
      /\ \A d \in Container \ {c} : pods'[d] = pods[d]
  BY <1>1, <1>4 DEF PodsType
<1>8. \A d, e \in Container : d # e => pods'[d].ids \cap pods'[e].ids = {}
  BY <1>4, <1>7 DEF IInv, LimitsInv
<1>9. ASSUME config.strategy = "mps", NEW d \in Container
      PROVE  /\ \A x, y \in pods'[d].ids : Tables!PhysicalOf(x) = Tables!PhysicalOf(y)
             /\ config.maxShared * pods'[d].threads <= 100 * Cardinality(pods'[d].ids)
             /\ (config.maxShared * Unit) * pods'[d].memory
                  <= TotalMem * Cardinality(pods'[d].ids)
  <2>1. CASE d = c
    BY <1>1, <1>5, <1>7, <1>9, <2>1, OneGPUForEach
  <2>2. CASE d # c
    BY <1>7, <1>9, <2>2 DEF IInv, LimitsInv
  <2> QED  BY <2>1, <2>2
<1>10. ASSUME config.strategy # "mps", NEW d \in Container
       PROVE  pods'[d].threads = 0 /\ pods'[d].memory = 0
  BY <1>6, <1>7, <1>10 DEF IInv, LimitsInv
<1>11. main' # "start" => (config.strategy = "mps" => memory' = TotalMem)
  BY <1>4 DEF IInv, LimitsInv
<1> QED
  BY <1>4, <1>8, <1>9, <1>10, <1>11
     DEF LimitsInv, Tables!PhysicalOf, Tables!Shared, Tables!VirtualToPhysicalDeviceID

\* One that is gone has none.
LEMMA RemovePodLimits ==
  ASSUME IInv, NEW c \in Container, RemovePod(c)
  PROVE  LimitsInv'
<1>1. /\ pods' = [pods EXCEPT ![c] = NoPod]
      /\ UNCHANGED <<config, main, memory>>
  BY DEF RemovePod
<1>2. PodsType /\ NodeType
  BY TypeGroups DEF IInv
<1>3. /\ pods'[c].ids = {} /\ pods'[c].threads = 0 /\ pods'[c].memory = 0
      /\ \A d \in Container \ {c} : pods'[d] = pods[d]
  BY <1>1, <1>2 DEF PodsType, NoPod
<1>4. \A d, e \in Container : d # e => pods'[d].ids \cap pods'[e].ids = {}
  BY <1>3 DEF IInv, LimitsInv
<1>5. ASSUME config.strategy = "mps", NEW d \in Container
      PROVE  /\ \A x, y \in pods'[d].ids : Tables!PhysicalOf(x) = Tables!PhysicalOf(y)
             /\ config.maxShared * pods'[d].threads <= 100 * Cardinality(pods'[d].ids)
             /\ (config.maxShared * Unit) * pods'[d].memory
                  <= TotalMem * Cardinality(pods'[d].ids)
  <2>1. CASE d = c
    <3>1. Cardinality(pods'[c].ids) = 0
      BY <1>3, FS_EmptySet
    <3>2. config.maxShared \in Nat /\ TotalMem \in Nat /\ Unit \in Nat
      BY <1>2, <1>5, SharedWithMPS, ContainersAssumption
    <3>3. /\ config.maxShared * 0 <= 100 * 0
          /\ (config.maxShared * Unit) * 0 <= TotalMem * 0
      BY <3>2
    <3> QED  BY <1>3, <2>1, <3>1, <3>3
  <2>2. CASE d # c
    BY <1>3, <1>5, <2>2 DEF IInv, LimitsInv
  <2> QED  BY <2>1, <2>2
<1>6. ASSUME config.strategy # "mps", NEW d \in Container
       PROVE  pods'[d].threads = 0 /\ pods'[d].memory = 0
  BY <1>3, <1>6 DEF IInv, LimitsInv
<1> QED
  BY <1>1, <1>4, <1>5, <1>6
     DEF IInv, LimitsInv, Tables!PhysicalOf, Tables!Shared, Tables!VirtualToPhysicalDeviceID

\* Steps that leave pods alone, and the plugin, or start it, or end it.
LEMMA LimitsKept ==
  ASSUME LimitsInv, UNCHANGED <<config, pods>>,
         config.strategy = "mps" /\ main' # "start" =>
           \/ main' = main /\ memory' = memory
           \/ memory' = TotalMem
  PROVE  LimitsInv'
BY DEF LimitsInv, Tables!PhysicalOf, Tables!Shared, Tables!VirtualToPhysicalDeviceID

\* Every action keeps the limits in proportion.
LEMMA LimitsOfActions ==
  ASSUME IInv, [Next]_vars
  PROVE  LimitsInv'
<1>0. LimitsInv
  BY DEF IInv
<1>1. ASSUME NEW c \in Container, NEW n \in 1 .. MaxRequest,
             NEW ids \in kSubset(n, Tables!DeviceID), Allocate(c, ids)
      PROVE  LimitsInv'
  <2>1. ids \in SUBSET Tables!DeviceID
    BY DEF kSubset
  <2> QED  BY <1>1, <2>1, AllocateLimits
<1>2. ASSUME NEW c \in Container, RemovePod(c)
      PROVE  LimitsInv'
  BY <1>2, RemovePodLimits
<1>3. ASSUME NEW c \in Container, CreateContainer(c)
      PROVE  LimitsInv'
  BY <1>0, <1>3, LimitsKept DEF CreateContainer
<1>4. CASE ManagerStart
  BY <1>0, <1>4, LimitsKept DEF ManagerStart
<1>5. CASE PluginRestarts
  BY <1>0, <1>5, LimitsKept DEF PluginRestarts
<1>6. CASE Tick \/ Collector \/ ListFails
  BY <1>0, <1>6, LimitsKept
     DEF Tick, Collector, ListFails, TakeTick, GetDevicesForAllContainers,
         ResetMetricsIfNeeded, UpdateMetrics
<1>7. CASE UNCHANGED vars
  BY <1>0, <1>7, LimitsKept DEF vars
<1> QED
  BY <1>1, <1>2, <1>3, <1>4, <1>5, <1>6, <1>7 DEF Next, Kubelet

-----------------------------------------------------------------------------
(***************************************************************************)
(* Devices of annotations.                                                 *)
(***************************************************************************)

\* The step of the loop of getDevices, and the loop as FoldLeft defines it: what
\* it has when it has seen the indexes in a set.
Take(list, i, devices) ==
  IF \E e \in devices : e.path = list[i].path THEN devices ELSE devices \cup {list[i]}

Loop(list) ==
  CHOOSE g : g = [T \in SUBSET DOMAIN list |->
    IF T = {} THEN {} ELSE Take(list, Max(T), g[T \ {Max(T)}])]

\* The loop computes what GetDevices does.
LEMMA LoopIsGetDevices ==
  \A list : GetDevices(list) = Loop(list)[DOMAIN list]
BY Zenon DEF GetDevices, FoldLeft, MapThenFoldSet, Loop, Take

\* Of the indexes it takes the greatest one last.
LEMMA MaxIsGreatest ==
  ASSUME NEW n \in Nat, NEW T \in SUBSET (1 .. n), T # {}
  PROVE  Max(T) \in T /\ \A i \in T : i <= Max(T)
<1>1. PICK m \in T : \A i \in T : i <= m
  <2>1. T \in SUBSET (0 .. n)
    OBVIOUS
  <2> QED  BY <2>1, GreatestNumber
<1>2. \A i \in T : m >= i
  BY <1>1
<1>3. Max(T) \in T /\ \A i \in T : Max(T) >= i
  BY <1>2, Zenon DEF Max
<1> QED  BY <1>3

\* It takes the indexes one after the other.
LEMMA LoopRuns ==
  ASSUME NEW n \in Nat, NEW list, DOMAIN list = 1 .. n
  PROVE  \A T \in SUBSET (1 .. n) :
           Loop(list)[T] = IF T = {} THEN {} ELSE Take(list, Max(T), Loop(list)[T \ {Max(T)}])
<1> DEFINE V    == SUBSET {list[i] : i \in 1 .. n}
           pick == [T \in SUBSET (1 .. n) |-> Max(T)]
           step == [i \in 1 .. n |-> [v \in V |-> Take(list, i, v)]]
           Value(g, T) == IF T = {} THEN {} ELSE Take(list, Max(T), g[T \ {Max(T)}])
           Good(g) == g = [T \in SUBSET (1 .. n) |-> Value(g, T)]
<1>1. \A T \in SUBSET (1 .. n) : T # {} => pick[T] \in T /\ pick[T] = Max(T)
  BY MaxIsGreatest
<1>2. \A i \in 1 .. n, v \in V : step[i][v] = Take(list, i, v) /\ step[i][v] \in V
  BY DEF Take
<1>3. PICK g : IsFold(g, 1 .. n, V, {}, pick, step)
  <2>1. {} \in V /\ IsFiniteSet(1 .. n)
    BY FS_Interval
  <2>2. \A i \in 1 .. n, v \in V : step[i][v] \in V
    BY <1>2, Zenon
  <2> HIDE DEF V, pick, step
  <2> QED  BY <1>1, <2>1, <2>2, FoldExists, Zenon
<1>4. Good(g)
  <2>1. ASSUME NEW T \in SUBSET (1 .. n)
        PROVE  (IF T = {} THEN {} ELSE step[pick[T]][g[T \ {pick[T]}]]) = Value(g, T)
    <3>1. CASE T = {}
      BY <3>1
    <3>2. CASE T # {}
      <4>1. pick[T] = Max(T) /\ pick[T] \in 1 .. n /\ T \ {pick[T]} \in SUBSET (1 .. n)
        BY <1>1, <3>2
      <4>2. g[T \ {pick[T]}] \in V
        <5> HIDE DEF V, pick, step
        <5> QED  BY <1>3, <4>1 DEF IsFold
      <4> HIDE DEF V, pick, step
      <4> QED  BY <1>2, <3>2, <4>1, <4>2, Zenon
    <3> QED  BY <3>1, <3>2
  <2> HIDE DEF V, pick, step, Value
  <2> QED  BY <1>3, <2>1, Zenon DEF IsFold
<1>5. Loop(list) = CHOOSE h : Good(h)
  BY Zenon DEF Loop
<1>6. Good(Loop(list))
  <2> HIDE DEF Good
  <2> QED  BY <1>4, <1>5, Zenon
<1>7. \A T \in SUBSET (1 .. n) : Loop(list)[T] = Value(Loop(list), T)
  <2> HIDE DEF Value
  <2> QED  BY <1>6, Zenon
<1> QED  BY <1>7, Zenon

\* "only the first one will be injected": the indexes up to k whose path none
\* before them has.
Firsts(list, k) ==
  {list[i] : i \in {i \in 1 .. k : \A j \in 1 .. i - 1 : list[j].path # list[i].path}}

\* The loop takes the first device of each path.
LEMMA FirstsAreTaken ==
  ASSUME NEW n \in Nat, NEW list, DOMAIN list = 1 .. n
  PROVE  GetDevices(list) = Firsts(list, n)
<1> DEFINE P == {k \in Nat : k <= n => Loop(list)[1 .. k] = Firsts(list, k)}
<1>0. \A T \in SUBSET (1 .. n) :
        Loop(list)[T] = IF T = {} THEN {} ELSE Take(list, Max(T), Loop(list)[T \ {Max(T)}])
  BY LoopRuns
<1>1. 0 \in P
  <2>1. 1 .. 0 = {} /\ {} \in SUBSET (1 .. n)
    OBVIOUS
  <2>2. Loop(list)[{}] = {}
    BY <2>1, LoopRuns
  <2>3. Firsts(list, 0) = {}
    BY <2>1 DEF Firsts
  <2> QED  BY <2>1, <2>2, <2>3
<1>2. ASSUME NEW k \in Nat, k \in P PROVE k + 1 \in P
  <2> SUFFICES ASSUME k + 1 <= n PROVE Loop(list)[1 .. k + 1] = Firsts(list, k + 1)
    OBVIOUS
  <2>1. Loop(list)[1 .. k] = Firsts(list, k)
    BY <1>2
  <2> DEFINE T == 1 .. k + 1
  <2>2. T \in SUBSET (1 .. n) /\ T # {} /\ k + 1 \in T /\ \A i \in T : i <= k + 1
    OBVIOUS
  <2>3. Max(T) = k + 1
    <3>1. Max(T) \in T /\ \A i \in T : i <= Max(T)
      BY <2>2, MaxIsGreatest
    <3> QED  BY <2>1, <2>2, <3>1
  <2>4. T \ {Max(T)} = 1 .. k
    BY <2>1, <2>3
  <2>5. Loop(list)[T] = Take(list, k + 1, Firsts(list, k))
    <3> HIDE DEF T, P
    <3>1. Loop(list)[T] = Take(list, Max(T), Loop(list)[T \ {Max(T)}])
      BY <1>0, <2>2, Zenon
    <3> QED  BY <2>1, <2>3, <2>4, <3>1, Zenon
  <2>6. (\E e \in Firsts(list, k) : e.path = list[k + 1].path)
          <=> \E j \in 1 .. k : list[j].path = list[k + 1].path
    <3>1. ASSUME NEW e \in Firsts(list, k), e.path = list[k + 1].path
          PROVE  \E j \in 1 .. k : list[j].path = list[k + 1].path
      BY <3>1 DEF Firsts
    <3>2. ASSUME NEW j \in 1 .. k, list[j].path = list[k + 1].path
          PROVE  \E e \in Firsts(list, k) : e.path = list[k + 1].path
      <4> DEFINE U == {i \in 1 .. k : list[i].path = list[k + 1].path}
      <4>1. PICK i \in U : \A h \in U : i <= h
        <5>1. U \in SUBSET Nat /\ U # {}
          BY <3>2
        <5> HIDE DEF U
        <5> QED  BY <5>1, LeastNumber
      <4>2. i \in 1 .. k /\ list[i].path = list[k + 1].path
        OBVIOUS
      <4>3. \A h \in 1 .. i - 1 : list[h].path # list[i].path
        <5>1. SUFFICES ASSUME NEW h \in 1 .. i - 1, list[h].path = list[i].path
                       PROVE  FALSE
          OBVIOUS
        <5>2. h \in 1 .. k /\ ~(i <= h)
          BY <2>1, <4>2
        <5> QED  BY <4>1, <4>2, <5>1, <5>2
      <4>4. list[i] \in Firsts(list, k)
        BY <4>2, <4>3 DEF Firsts
      <4> QED  BY <4>2, <4>4
    <3> QED  BY <3>1, <3>2
  <2> DEFINE I(m) == {i \in 1 .. m : \A j \in 1 .. i - 1 : list[j].path # list[i].path}
  <2>7. \A m : Firsts(list, m) = {list[i] : i \in I(m)}
    BY DEF Firsts
  <2>8. 1 .. k + 1 = (1 .. k) \cup {k + 1} /\ k + 1 - 1 = k
    BY <2>1
  <2>9. CASE \E j \in 1 .. k : list[j].path = list[k + 1].path
    <3>1. I(k + 1) = I(k)
      BY <2>8, <2>9
    <3> HIDE DEF I
    <3> QED  BY <2>5, <2>6, <2>7, <2>9, <3>1 DEF Take
  <2>10. CASE ~\E j \in 1 .. k : list[j].path = list[k + 1].path
    <3>1. I(k + 1) = I(k) \cup {k + 1}
      BY <2>8, <2>10
    <3> HIDE DEF I
    <3>2. Firsts(list, k + 1) = Firsts(list, k) \cup {list[k + 1]}
      BY <2>7, <3>1
    <3> QED  BY <2>5, <2>6, <2>10, <3>2 DEF Take
  <2> QED  BY <2>9, <2>10
<1>3. P = Nat
  <2>1. P \in SUBSET Nat
    OBVIOUS
  <2> HIDE DEF P
  <2> QED  BY <1>1, <1>2, <2>1, SetInduction
<1>4. n \in P
  BY <1>3
<1> QED  BY <1>4, LoopIsGetDevices

\* Containers are given what getDevices returns, or nothing.
LEMMA InjectedOfActions ==
  ASSUME InjectedInv, [Next]_vars
  PROVE  InjectedInv'
<1>1. ASSUME NEW c \in Container, RemovePod(c) \/ CreateContainer(c)
      PROVE  InjectedInv'
  <2>1. injected' = [injected EXCEPT ![c] = {}]
        \/ injected' = [injected EXCEPT ![c] = GetDevices(Annotation[c])]
    BY <1>1, Zenon DEF RemovePod, CreateContainer
  <2> QED  BY <2>1, Zenon DEF InjectedInv
<1>2. CASE UNCHANGED injected
  BY <1>2 DEF InjectedInv
<1>3. \A c \in Container : \A ids : Allocate(c, ids) => UNCHANGED injected
  BY DEF Allocate
<1> QED
  BY <1>1, <1>2, <1>3
     DEF Next, Kubelet, ManagerStart, PluginRestarts, Tick, Collector, ListFails, TakeTick,
         GetDevicesForAllContainers, ResetMetricsIfNeeded, UpdateMetrics, vars

\* So they have the first device of each path.
LEMMA InjectedAreFirsts ==
  ASSUME InjectedInv
  PROVE  FirstOfEachPathIsInjected
<1> SUFFICES ASSUME NEW c \in Container, injected[c] # {}
             PROVE  injected[c] =
                      {Annotation[c][i] : i \in {i \in DOMAIN Annotation[c] :
                         \A j \in 1 .. i - 1 : Annotation[c][j].path # Annotation[c][i].path}}
  BY DEF FirstOfEachPathIsInjected
<1>1. injected[c] = GetDevices(Annotation[c])
  BY DEF InjectedInv
<1>2. PICK n \in Nat : DOMAIN Annotation[c] = 1 .. n
  BY ContainersAssumption
<1>3. GetDevices(Annotation[c]) = Firsts(Annotation[c], n)
  BY <1>2, FirstsAreTaken
<1> QED  BY <1>1, <1>2, <1>3 DEF Firsts

-----------------------------------------------------------------------------
(***************************************************************************)
(* The limits of the clients of a GPU add up to no more than the GPU.      *)
(***************************************************************************)

\* IDs of one GPU.
Slots(g) == {id \in Tables!DeviceID : Tables!PhysicalOf(id) = g}

\* With MPS there are maxShared of them,
LEMMA SlotsAreFew ==
  ASSUME NodeType, config.strategy = "mps", NEW g \in GPU
  PROVE  IsFiniteSet(Slots(g)) /\ Cardinality(Slots(g)) = config.maxShared
<1> DEFINE M == config.maxShared
<1>1. M \in Nat /\ M > 0
  BY SharedWithMPS
<1>2. Slots(g) = {g} \X (0 .. M - 1)
  BY SharedWithMPS DEF Slots
<1>3. IsFiniteSet({g}) /\ Cardinality({g}) = 1
  BY FS_Singleton
<1> HIDE DEF M
<1>4. IsFiniteSet(0 .. M - 1) /\ Cardinality(0 .. M - 1) = M
  <2>1. 0 \in Int /\ M - 1 \in Int /\ (M - 1) - 0 + 1 = M /\ ~(0 > M - 1)
    BY <1>1
  <2> QED  BY <2>1, FS_Interval
<1> DEFINE one == {g}
           numbers == 0 .. M - 1
<1> HIDE DEF one, numbers
<1>5. IsFiniteSet(one) /\ Cardinality(one) = 1 /\ IsFiniteSet(numbers) /\ Cardinality(numbers) = M
  BY <1>3, <1>4 DEF one, numbers
<1>6. /\ IsFiniteSet(one \X numbers)
      /\ Cardinality(one \X numbers) = Cardinality(one) * Cardinality(numbers)
  BY <1>5, FS_Product, Zenon
<1>7. Slots(g) = one \X numbers
  BY <1>2 DEF one, numbers
<1>8. 1 * M = M
  BY <1>1
<1> QED  BY <1>5, <1>6, <1>7, <1>8 DEF M

\* and the containers that have one have them all to themselves.
LEMMA ClientsAreFew ==
  ASSUME NodeType, PodsType, LimitsInv, NEW g
  PROVE  IsFiniteSet({c \in Admitted : g \in GPUsOf(c)})
<1> DEFINE clients == {c \in Admitted : g \in GPUsOf(c)}
           f == [c \in clients |-> CHOOSE id \in pods[c].ids : TRUE]
<1>1. \A c \in clients : f[c] \in pods[c].ids /\ c \in Container
  BY DEF Admitted
<1>2. \A c \in clients : f[c] \in Tables!DeviceID
  BY <1>1 DEF PodsType
<1>3. \A c, d \in clients : f[c] = f[d] => c = d
  BY <1>1 DEF LimitsInv
<1>4. f \in [clients -> Tables!DeviceID]
  BY <1>2
<1> HIDE DEF f, clients
<1>5. f \in Injection(clients, Tables!DeviceID)
  BY <1>3, <1>4 DEF Injection, IsInjective
<1>6. IsFiniteSet(clients)
  BY <1>5, FiniteIDs, FS_Injection
<1> QED  BY <1>6 DEF clients

\* Arithmetic: a factor above 0 can be dropped.
LEMMA LessByFactor ==
  /\ \A m, s, t \in Nat : m > 0 /\ m * s <= t * m => s <= t
  /\ \A m, u, s, t \in Nat : m > 0 /\ (m * u) * s <= t * m => s * u <= t
<1>1. ASSUME NEW m \in Nat, NEW s \in Nat, NEW t \in Nat, m > 0, m * s <= t * m
      PROVE  s <= t
  <2> SUFFICES ASSUME s > t PROVE FALSE
    OBVIOUS
  <2>1. m * s >= m * (t + 1)
    BY <1>1
  <2> QED  BY <1>1, <2>1
<1>2. ASSUME NEW m \in Nat, NEW u \in Nat, NEW s \in Nat, NEW t \in Nat,
             m > 0, (m * u) * s <= t * m
      PROVE  s * u <= t
  <2>1. s * u \in Nat /\ (m * u) * s = m * (s * u)
    OBVIOUS
  <2> QED  BY <1>1, <1>2, <2>1
<1> QED  BY <1>1, <1>2

\* The sum of the limits of the clients of a GPU: in proportion to the sum of
\* their IDs, which are those of one GPU and have been given out once.
LEMMA LimitsFit ==
  ASSUME IInv
  PROVE  MPSFitsTheGPU
<1> USE ContainersAssumption
<1>1. NodeType /\ PodsType /\ LimitsInv
  BY TypeGroups DEF IInv
<1> SUFFICES ASSUME NEW g \in gpus
             PROVE  LET clients == {c \in Admitted : g \in GPUsOf(c)}
                    IN  /\ SumFunctionOnSet(Threads, clients) <= 100
                        /\ SumFunctionOnSet(Memory, clients) * Unit <= TotalMem
  BY DEF MPSFitsTheGPU
<1> DEFINE clients == {c \in Admitted : g \in GPUsOf(c)}
           ids  == [c \in clients |-> pods[c].ids]
           size == [c \in clients |-> Cardinality(pods[c].ids)]
<1>2. IsFiniteSet(clients) /\ clients \in SUBSET Container
  BY <1>1, ClientsAreFew DEF Admitted
<1>3. \A c \in clients : /\ ids[c] = pods[c].ids /\ size[c] = Cardinality(ids[c])
                         /\ pods[c].ids \in SUBSET Tables!DeviceID
                         /\ Threads[c] = pods[c].threads /\ Threads[c] \in Nat
                         /\ Memory[c] = pods[c].memory /\ Memory[c] \in Nat
                         /\ g \in GPUsOf(c)
  BY <1>1, <1>2 DEF PodsType, Threads, Memory
<1> HIDE DEF clients, ids, size
<1>4. \A c \in clients : IsFiniteSet(ids[c]) /\ size[c] \in Nat
  BY <1>1, <1>3, FiniteIDs, FS_Subset, FS_CardinalityType
<1>5. /\ SumFunctionOnSet(Threads, clients) \in Nat
      /\ SumFunctionOnSet(Memory, clients) \in Nat
  BY <1>2, <1>3, SumTakesOut
<1>6. CASE config.strategy = "mps"
  <2> DEFINE M == config.maxShared
  <2>1. M \in Nat /\ M > 0
    BY <1>1, <1>6, SharedWithMPS
  <2>2. g \in GPU
    BY <1>1 DEF NodeType
  <2>3. \A c \in clients : ids[c] \in SUBSET Slots(g)
    <3>1. \A c \in clients : \E id \in pods[c].ids : Tables!PhysicalOf(id) = g
      BY <1>3 DEF GPUsOf
    <3>2. \A c \in clients : \A x, y \in pods[c].ids :
            Tables!PhysicalOf(x) = Tables!PhysicalOf(y)
      BY <1>1, <1>2, <1>6 DEF LimitsInv
    <3> QED  BY <1>3, <3>1, <3>2 DEF Slots
  <2>4. \A c, d \in clients : c # d => ids[c] \cap ids[d] = {}
    BY <1>1, <1>2, <1>3 DEF LimitsInv
  <2> DEFINE all == Together(ids, clients)
  <2>5. SumFunctionOnSet(size, clients) = Cardinality(all)
    <3>1. \A c \in clients : size[c] = Cardinality(ids[c])
      BY <1>3
    <3>2. \A c \in clients : IsFiniteSet(ids[c])
      BY <1>4
    <3>3. IsFiniteSet(clients)
      BY <1>2
    <3> HIDE DEF M
    <3> QED  BY <2>4, <3>1, <3>2, <3>3, SizesAddUp
  <2>6. all \in SUBSET Slots(g)
    BY <2>3 DEF Together
  <2> HIDE DEF all
  <2>7. SumFunctionOnSet(size, clients) <= M /\ SumFunctionOnSet(size, clients) \in Nat
    BY <1>1, <1>6, <2>2, <2>5, <2>6, SlotsAreFew, FS_Subset, FS_CardinalityType
  <2>8. \A c \in clients : /\ M * Threads[c] <= 100 * size[c]
                           /\ (M * Unit) * Memory[c] <= TotalMem * size[c]
    BY <1>1, <1>2, <1>3, <1>6 DEF LimitsInv
  <2> DEFINE t == SumFunctionOnSet(Threads, clients)
             m == SumFunctionOnSet(Memory, clients)
             n == SumFunctionOnSet(size, clients)
  <2> HIDE DEF M
  <2>9. M * t <= 100 * n
    BY <1>2, <1>3, <1>4, <2>1, <2>8, SumInProportion
  <2>10. M * Unit \in Nat /\ TotalMem \in Nat
    BY <2>1, NatProduct
  <2>11. (M * Unit) * m <= TotalMem * n
    BY <1>2, <1>3, <1>4, <2>8, <2>10, SumInProportion
  <2>12. t \in Nat /\ m \in Nat /\ n \in Nat /\ n <= M
    BY <1>5, <2>7
  <2> HIDE DEF t, m, n
  <2>13. 100 * n <= 100 * M
    BY <2>1, <2>12
  <2>14. TotalMem * n <= TotalMem * M
    BY <2>1, <2>10, <2>12
  <2>15. M * t <= 100 * M
    BY <2>1, <2>9, <2>12, <2>13
  <2>16. (M * Unit) * m <= TotalMem * M
    <3>1. /\ (M * Unit) * m \in Nat /\ TotalMem * n \in Nat /\ TotalMem * M \in Nat
      BY <2>1, <2>10, <2>12, NatProduct
    <3> QED  BY <2>11, <2>14, <3>1
  <2>17. t <= 100 /\ m * Unit <= TotalMem
    BY <2>1, <2>12, <2>15, <2>16, LessByFactor
  <2> QED  BY <2>17 DEF t, m, clients
<1>7. CASE config.strategy # "mps"
  <2>1. \A c \in clients : Threads[c] = 0 /\ Memory[c] = 0
    BY <1>1, <1>2, <1>3, <1>7 DEF LimitsInv
  <2>2. \A c \in clients : /\ 1 * Threads[c] <= 0 * Threads[c]
                           /\ 1 * Memory[c] <= 0 * Memory[c]
    BY <2>1
  <2> DEFINE t == SumFunctionOnSet(Threads, clients)
             m == SumFunctionOnSet(Memory, clients)
  <2>3. 0 \in Nat /\ 1 \in Nat
    OBVIOUS
  <2>4. 1 * t <= 0 * t
    BY <1>2, <1>3, <2>2, <2>3, SumInProportion
  <2>5. 1 * m <= 0 * m
    BY <1>2, <1>3, <2>2, <2>3, SumInProportion
  <2>6. t \in Nat /\ m \in Nat
    BY <1>5
  <2> HIDE DEF t, m
  <2>7. t = 0 /\ m = 0
    BY <2>4, <2>5, <2>6
  <2>8. t <= 100 /\ m * Unit <= TotalMem
    BY <2>7
  <2> QED  BY <2>8 DEF t, m, clients
<1> QED  BY <1>6, <1>7

-----------------------------------------------------------------------------
(***************************************************************************)
(* The theorems.                                                           *)
(***************************************************************************)

\* At first there are no containers.
LEMMA InitInv == Init => IInv
<1> SUFFICES ASSUME Init PROVE IInv
  OBVIOUS
<1> USE ContainersAssumption
<1>1. NodeType
  <2>1. PICK raw \in RawConfigs, readable \in BOOLEAN : config = Configure(raw, readable)
    BY DEF Init
  <2>2. config \in Config /\ Consistent(config)
    BY <2>1, AcceptedConfigs
  <2> QED BY <2>2 DEF NodeType, Init
<1>2. PodsType
  BY DEF Init, PodsType, NoPod
<1>3. PluginType /\ TickerType
  <2>1. 0 \in Nat /\ 0 \in 0 .. ResetInterval + 1
    OBVIOUS
  <2> QED BY <2>1 DEF Init, PluginType, TickerType
<1>4. CollectorType
  BY DEF Init, CollectorType, NoList
<1>5. GaugesType /\ LeftType
  BY DEF Init, GaugesType, LeftType
<1>6. TypeOK
  BY <1>1, <1>2, <1>3, <1>4, <1>5, TypeGroups
<1>7. StaleInv
  BY DEF Init, StaleInv, Rounds
<1>8. ListInv
  BY DEF Init, ListInv, NoList
<1>9. LimitsInv
  <2>1. \A c \in Container : pods[c].ids = {} /\ pods[c].threads = 0 /\ pods[c].memory = 0
    BY DEF Init, NoPod
  <2>2. main = "start" /\ Cardinality({}) = 0
    BY FS_EmptySet DEF Init
  <2>3. ASSUME config.strategy = "mps"
        PROVE  /\ config.maxShared * 0 <= 100 * 0
               /\ (config.maxShared * Unit) * 0 <= TotalMem * 0
    <3>1. config.maxShared \in Nat
      BY <1>1, <2>3, SharedWithMPS
    <3> QED  BY <3>1
  <2> QED  BY <2>1, <2>2, <2>3 DEF LimitsInv
<1>10. InjectedInv
  BY DEF Init, InjectedInv
<1> QED BY <1>6, <1>7, <1>8, <1>9, <1>10 DEF IInv

\* IInv is about vars alone.
LEMMA StutterInv == ASSUME IInv, UNCHANGED vars PROVE IInv'
<1>1. StaleInv' /\ ListInv'
  BY MetricsKept DEF vars
<1>2. TypeOK'
  BY NodeKept, PodsKept, PluginKept, TickerKept, CollectorKept, GaugesKept, LeftKept,
     TypeGroups, TypeGroupsPrime DEF IInv, vars, metrics
<1> QED BY <1>1, <1>2, LimitsOfActions, InjectedOfActions DEF IInv

\* Typing, and how the age of a gauge goes with the ticks since the last reset:
\* each round that has not reset the gauges has had a tick of its own.  The
\* shares of a GPU that its clients have go with the IDs they have.
THEOREM Invariance == Spec => []IInv
<1>1. IInv /\ [Next]_vars => IInv'
  <2>1. ASSUME IInv, Next PROVE IInv'
    BY <2>1, TypingOfActions, StaleInvOfActions, LimitsOfActions, InjectedOfActions DEF IInv
  <2> QED BY <2>1, StutterInv
<1> QED BY <1>1, InitInv, PTL DEF Spec

\* No gauge outlives its container for more than ResetInterval + 2 completed
\* rounds, whatever lists fail and whenever the ticker's tick comes.
THEOREM GaugesGo == Spec => []StaleGaugesAreFew
<1>1. IInv => StaleGaugesAreFew
  <2> SUFFICES ASSUME IInv, NEW p \in Pair PROVE stale[p] <= ResetInterval + 2
    BY DEF StaleGaugesAreFew
  <2> QED BY StaleParts, CountsType DEF IInv, FewRounds
<1> QED BY <1>1, Invariance, PTL

\* The limits of MPS clients that share a GPU, in any number of containers with
\* one or several virtual devices, rounding included, fit into the GPU.
THEOREM LimitsFitTheGPU == Spec => []MPSFitsTheGPU
<1> QED BY LimitsFit, Invariance, PTL

\* A container has the first device that is annotated for each path, and all of
\* them, whatever the list.
THEOREM FirstDevicesAreInjected == Spec => []FirstOfEachPathIsInjected
<1>1. IInv => FirstOfEachPathIsInjected
  BY InjectedAreFirsts DEF IInv
<1> QED BY <1>1, Invariance, PTL
=============================================================================

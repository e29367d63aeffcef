---------------------------- MODULE GpuContainers ----------------------------
(***************************************************************************)
(* The GPU containers of a node: what Allocate and the NRI device injector *)
(* give them, and what the metrics server of the plugin tells of them.     *)
(*                                                                         *)
(* On each tick the metrics server asks the kubelet which containers have  *)
(* which devices, and sets gauges by container, by GPU and for the node.   *)
(* No gauge is removed by itself: all are removed together once a minute,  *)
(* at the start of a round.                                                *)
(***************************************************************************)
EXTENDS GPUConfig, FiniteSets, FiniteSetsExt, SequencesExt

CONSTANTS
  GPU,             \* GPUs
  Nodes,           \* the sets of them that a node may have
  Container,       \* namespace, pod and container name; names are used again
  RawConfigs,      \* contents of the configuration file to try
  TotalMem, Unit,  \* bytes of a GPU; bytes of the unit limits are given in
  Annotation,      \* Annotation[c]: devices annotated for c, path and mode
  ResetInterval,   \* metricsResetInterval, in ticks of the collector
  MaxRequest,      \* bound: devices in one request
  MaxCreations,    \* bound: containers
  MaxFailures      \* bound: failing calls and deaths of the plugin

ASSUME ContainersAssumption ==
  /\ RawConfigs \subseteq RawConfig
  /\ IsFiniteSet(GPU)
  /\ \A c \in Container : Annotation[c] \in Seq(Range(Annotation[c]))
  /\ Nodes \subseteq SUBSET GPU
  /\ TotalMem \in Nat /\ Unit \in Nat \ {0}
  /\ ResetInterval \in Nat
  /\ MaxRequest \in Nat /\ MaxCreations \in Nat /\ MaxFailures \in Nat

VARIABLES
  config,       \* the GPUConfig
  gpus,         \* GPUs of the node
  pods,         \* pods[c]: device IDs and limits of c, none if c is not there
  injected,     \* injected[c]: devices of c's container from annotations
  main,         \* the plugin starts, serves, or serves with metrics
  memory,       \* ngm.totalMemPerGPU
  ticked,       \* the channel of the collector's ticker holds a tick
  sinceReset,   \* ticks since the last reset, ResetInterval + 1 at most
  collector,    \* where collectMetrics is
  listed,       \* what GetDevicesForAllContainers returned
  request,      \* containers with a request gauge
  duty,         \* containers and GPUs with gauges of both
  node,         \* GPUs with gauges for the node
  stale,        \* history: rounds for which a gauge has outlived its container
  left          \* what is left of the bounds

gauges  == <<request, duty, node, stale>>
metrics == <<ticked, sinceReset, collector, listed, gauges>>
vars    == <<config, gpus, pods, injected, main, memory, metrics, left>>

Tables == INSTANCE GPUDevices WITH
            Partition <- {}, Parent <- <<>>, Partitioned <- FALSE,
            GPUSharingStrategy <- config.strategy,
            MaxSharedClientsPerGPU <- config.maxShared

\* With MIG the IDs are partitions; one for each GPU is enough here.
Pair   == Container \X GPU
NoPod  == [ids |-> {}, threads |-> 0, memory |-> 0]
NoList == [containers |-> {}, pairs |-> {}]

Admitted  == {c \in Container : pods[c].ids # {}}
GPUsOf(c) == {Tables!PhysicalOf(id) : id \in pods[c].ids}
Held      == {p \in Pair : p[2] \in GPUsOf(p[1])}

TypeOK ==
  /\ config \in Config /\ Consistent(config)
  /\ gpus \in SUBSET GPU
  /\ pods \in [Container ->
               [ids : SUBSET Tables!DeviceID, threads : Nat, memory : Nat]]
  /\ main \in {"start", "serve", "metrics"}
  /\ memory \in Nat
  /\ ticked \in BOOLEAN
  /\ sinceReset \in 0 .. ResetInterval + 1
  /\ collector \in {"wait", "list", "reset", "update"}
  /\ listed \in [containers : SUBSET Container, pairs : SUBSET Pair]
  /\ request \in SUBSET Container
  /\ duty \in SUBSET Pair
  /\ node \in SUBSET GPU
  /\ stale \in [Pair -> Nat]
  /\ left \in [creations : Nat, failures : Nat]

Init ==
  /\ \E raw \in RawConfigs, readable \in BOOLEAN :
        config = Configure(raw, readable)
  /\ gpus \in Nodes
  /\ pods = [c \in Container |-> NoPod]
  /\ injected = [c \in Container |-> {}]
  /\ main = "start" /\ memory = 0
  /\ ticked = FALSE /\ sinceReset = 0 /\ collector = "wait" /\ listed = NoList
  /\ request = {} /\ duty = {} /\ node = {}
  /\ stale = [p \in Pair |-> 0]
  /\ left = [creations |-> MaxCreations, failures |-> MaxFailures]

Fail == left.failures > 0 /\ left' = [left EXCEPT !.failures = @ - 1]

-----------------------------------------------------------------------------
(***************************************************************************)
(* The plugin and the kubelet.                                             *)
(***************************************************************************)

ResetGauges ==
  /\ request' = {} /\ duty' = {} /\ node' = {}
  /\ stale' = [p \in Pair |-> 0]

\* With MIG there are no metrics.
AfterStart == IF config.partitioned THEN "serve" ELSE "metrics"

\* Start, past its last retry, and main up to Serve.  With MPS the memory of
\* the first GPU stands for every GPU.
ManagerStart ==
  /\ main = "start"
  /\ main' = AfterStart
  /\ memory' = IF config.strategy = "mps" THEN TotalMem ELSE memory
  /\ UNCHANGED <<config, gpus, pods, injected, metrics, left>>

\* The process dies and is run again; containers do not notice.  It reads its
\* configuration file again, which is taken to be as it was: IDs of another
\* configuration would not be those that containers hold.
PluginRestarts ==
  /\ Fail
  /\ main' = "start" /\ memory' = 0
  /\ ticked' = FALSE /\ sinceReset' = 0 /\ collector' = "wait" /\ listed' = NoList
  /\ ResetGauges
  /\ UNCHANGED <<config, gpus, pods, injected>>

\* A pod is admitted: Allocate, for IDs that no other container has.
Allocate(c, ids) ==
  /\ main # "start"
  /\ c \notin Admitted
  /\ left.creations > 0 /\ left' = [left EXCEPT !.creations = @ - 1]
  /\ \A d \in Container : ids \cap pods[d].ids = {}
  /\ \A id \in ids : Tables!PhysicalOf(id) \in gpus
  /\ Tables!ValidateRequest(ids, Cardinality(gpus))
  /\ LET limits == Envs(config, Cardinality(ids), memory, Unit)
     IN  pods' = [pods EXCEPT ![c] = [ids |-> ids, threads |-> limits.threads,
                                      memory |-> limits.memory]]
  /\ UNCHANGED <<config, gpus, injected, main, memory, metrics>>

\* The pod ends, and its name and devices are free.
RemovePod(c) ==
  /\ c \in Admitted
  /\ pods' = [pods EXCEPT ![c] = NoPod]
  /\ injected' = [injected EXCEPT ![c] = {}]
  /\ UNCHANGED <<config, gpus, main, memory, metrics, left>>

-----------------------------------------------------------------------------
(***************************************************************************)
(* The NRI device injector.                                                *)
(***************************************************************************)

\* getDevices: of several devices with one path only the first is taken.
GetDevices(annotated) ==
  FoldLeft(LAMBDA devices, d :
             IF \E e \in devices : e.path = d.path THEN devices ELSE devices \cup {d},
           {}, annotated)

\* toNRIDevice finds a device at each path.
AreDevices(devices, present) == \A d \in devices : d.path \in present

\* (Mutated: a path that is no device is left out.)
CreateContainerInPart(c) ==
  /\ c \in Admitted /\ injected[c] = {}
  /\ \E present \in SUBSET {Annotation[c][i].path : i \in DOMAIN Annotation[c]} :
       injected' = [injected EXCEPT ![c] = {d \in GetDevices(Annotation[c]) : d.path \in present}]
  /\ UNCHANGED <<config, gpus, pods, main, memory, metrics, left>>

\* CreateContainer: with any path that is no device the container is not
\* created.
CreateContainer(c) ==
  /\ c \in Admitted /\ injected[c] = {}
  /\ \E present \in SUBSET {Annotation[c][i].path : i \in DOMAIN Annotation[c]} :
       /\ AreDevices(GetDevices(Annotation[c]), present)
       /\ injected' = [injected EXCEPT ![c] = GetDevices(Annotation[c])]
  /\ UNCHANGED <<config, gpus, pods, main, memory, metrics, left>>

-----------------------------------------------------------------------------
(***************************************************************************)
(* The metrics server.                                                     *)
(***************************************************************************)

\* Time passes; the ticker drops a tick when one is waiting.
Tick ==
  /\ main = "metrics"
  /\ ticked' = TRUE
  /\ sinceReset' = IF sinceReset > ResetInterval THEN sinceReset ELSE sinceReset + 1
  /\ UNCHANGED <<config, gpus, pods, injected, main, memory, collector, listed, gauges, left>>

TakeTick ==
  /\ collector = "wait" /\ ticked
  /\ ticked' = FALSE /\ collector' = "list"
  /\ UNCHANGED <<config, gpus, pods, injected, main, memory, sinceReset, listed, gauges, left>>

\* GetDevicesForAllContainers: containers with shared GPUs are listed without.
GetDevicesForAllContainers ==
  /\ collector = "list"
  /\ listed' = [containers |-> Admitted, pairs |-> IF Tables!Shared THEN {} ELSE Held]
  /\ collector' = "reset"
  /\ UNCHANGED <<config, gpus, pods, injected, main, memory, ticked, sinceReset, gauges, left>>

\* Without a list there is no round, and no reset either.
ListFails ==
  /\ collector = "list"
  /\ Fail
  /\ collector' = "wait"
  /\ UNCHANGED <<config, gpus, pods, injected, main, memory, ticked, sinceReset, listed, gauges>>

\* (Mutated: each round counts as a reset.)
ResetMetricsOnceLate ==
  /\ collector = "reset"
  /\ sinceReset' = 0
  /\ IF sinceReset > ResetInterval THEN ResetGauges ELSE UNCHANGED gauges
  /\ collector' = "update"
  /\ UNCHANGED <<config, gpus, pods, injected, main, memory, ticked, listed, left>>

\* (Mutated: a round that resets does nothing else.)
ResetMetricsInstead ==
  /\ collector = "reset"
  /\ \/ sinceReset >= ResetInterval /\ sinceReset' = 0 /\ ResetGauges /\ collector' = "wait"
     \/ sinceReset <= ResetInterval /\ UNCHANGED <<sinceReset, gauges>> /\ collector' = "update"
  /\ UNCHANGED <<config, gpus, pods, injected, main, memory, ticked, listed, left>>

\* (Mutated: the gauges of containers are forgotten.)
ResetMetricsOfTheNode ==
  /\ collector = "reset"
  /\ \/ /\ sinceReset >= ResetInterval
        /\ sinceReset' = 0 /\ node' = {} /\ stale' = [p \in Pair |-> 0]
        /\ UNCHANGED <<request, duty>>
     \/ sinceReset <= ResetInterval /\ UNCHANGED <<sinceReset, gauges>>
  /\ collector' = "update"
  /\ UNCHANGED <<config, gpus, pods, injected, main, memory, ticked, listed, left>>

\* resetMetricsIfNeeded; a tick that comes just then may count or not.
ResetMetricsIfNeeded ==
  /\ collector = "reset"
  /\ \/ sinceReset >= ResetInterval /\ sinceReset' = 0 /\ ResetGauges
     \/ sinceReset <= ResetInterval /\ UNCHANGED <<sinceReset, gauges>>
  /\ collector' = "update"
  /\ UNCHANGED <<config, gpus, pods, injected, main, memory, ticked, listed, left>>

\* getGpuMetricsInfo fails for any of the GPUs, which are left out.
Answering(answers) ==
  /\ answers \subseteq gpus
  /\ IF answers = gpus THEN UNCHANGED left ELSE Fail

\* updateMetrics, from the list, for the GPUs that answer.  Containers' GPUs and
\* the node's are asked separately; one set of answers stands for both.
UpdateMetrics ==
  /\ collector = "update"
  /\ \E answers \in SUBSET GPU :
       /\ Answering(answers)
       /\ request' = request \cup listed.containers
       /\ duty' = duty \cup {p \in listed.pairs : p[2] \in answers}
       /\ node' = node \cup answers
  /\ stale' = [p \in Pair |-> IF p \in duty' \ Held THEN stale[p] + 1 ELSE 0]
  /\ collector' = "wait" /\ listed' = NoList
  /\ UNCHANGED <<config, gpus, pods, injected, main, memory, ticked, sinceReset>>

-----------------------------------------------------------------------------
Collector ==
  TakeTick \/ GetDevicesForAllContainers \/ ResetMetricsIfNeeded \/ UpdateMetrics

Kubelet ==
  \E c \in Container :
    \/ \E n \in 1 .. MaxRequest : \E ids \in kSubset(n, Tables!DeviceID) : Allocate(c, ids)
    \/ RemovePod(c)
    \/ CreateContainer(c)

Next == ManagerStart \/ PluginRestarts \/ Kubelet \/ Tick \/ Collector \/ ListFails

\* The ticker ticks, and the kubelet answers or its connection breaks.
Fairness == WF_vars(ManagerStart) /\ WF_vars(Tick) /\ WF_vars(Collector)

Spec     == Init /\ [][Next]_vars
FairSpec == Spec /\ Fairness

-----------------------------------------------------------------------------
(***************************************************************************)
(* Properties.                                                             *)
(***************************************************************************)

Threads == [c \in Container |-> pods[c].threads]
Memory  == [c \in Container |-> pods[c].memory]

\* The limits Envs gives to the MPS clients of a GPU, in containers of one or
\* several virtual devices, never add up to more than the GPU.  (Clients of a
\* partition are given shares of the whole GPU.)
MPSFitsTheGPU ==
  ~config.partitioned => \A g \in gpus :
    LET clients == {c \in Admitted : g \in GPUsOf(c)}
    IN  /\ SumFunctionOnSet(Threads, clients) <= 100
        /\ SumFunctionOnSet(Memory, clients) * Unit <= TotalMem

\* "When multiple annotations annotate devices with the same path, only the
\* first one will be injected" (nri_device_injector.go:85), and a container
\* has all of its devices or is not created.
FirstOfEachPathIsInjected ==
  \A c \in Container :
    injected[c] # {} =>
      injected[c] = {Annotation[c][i] : i \in {i \in DOMAIN Annotation[c] :
                       \A j \in 1 .. i - 1 : Annotation[c][j].path # Annotation[c][i].path}}

\* A gauge outlives its container, or its container's hold of the GPU, for a
\* bounded number of completed rounds, however late the rounds are and however
\* often listing fails in between.
StaleGaugesAreFew == \A p \in Pair : stale[p] <= ResetInterval + 2

\* Rounds that a tick has been given for and that are not decided yet.
Rounds == (IF ticked THEN 1 ELSE 0) + (IF collector \in {"list", "reset"} THEN 1 ELSE 0)

\* Each round without a reset has had a tick of its own since the last one.
StaleInv ==
  \A p \in Pair :
    /\ p \in duty => p[1] \in request
    /\ stale[p] <= ResetInterval + IF collector = "update" THEN 1 ELSE 2
    /\ \/ sinceReset > ResetInterval
       \/ stale[p] + Rounds <= sinceReset + IF collector = "update" THEN 1 ELSE 2

\* What the last list says of pairs it says of containers too.
ListInv ==
  /\ \A p \in listed.pairs : p[1] \in listed.containers
  /\ main # "metrics" => ~ticked /\ collector = "wait" /\ duty = {}

\* A container has a share of one GPU for each of its IDs, which are its own.
LimitsInv ==
  /\ \A c, d \in Container : c # d => pods[c].ids \cap pods[d].ids = {}
  /\ config.strategy = "mps" =>
       /\ main # "start" => memory = TotalMem
       /\ \A c \in Container :
            /\ \A x, y \in pods[c].ids : Tables!PhysicalOf(x) = Tables!PhysicalOf(y)
            /\ config.maxShared * pods[c].threads <= 100 * Cardinality(pods[c].ids)
            /\ (config.maxShared * Unit) * pods[c].memory <= TotalMem * Cardinality(pods[c].ids)
  /\ config.strategy # "mps" =>
       \A c \in Container : pods[c].threads = 0 /\ pods[c].memory = 0

InjectedInv ==
  /\ DOMAIN injected = Container
  /\ \A c \in Container : injected[c] \in {{}, GetDevices(Annotation[c])}

IInv == TypeOK /\ StaleInv /\ ListInv /\ LimitsInv /\ InjectedInv

(***************************************************************************)
(* Liveness.                                                               *)
(***************************************************************************)

\* The gauges of a container that is gone for good vanish for good.
GoneContainersVanish ==
  \A c \in Container :
    <>[](c \notin Admitted) =>
      <>[](c \notin request /\ \A g \in GPU : <<c, g>> \notin duty)

\* A container that stays is exported with its own GPUs, whenever metrics are
\* scraped but in a round that has reset and not yet set the gauges.
ContainersAreExported ==
  \A c \in Container :
    <>[](c \in Admitted /\ main = "metrics") =>
      <>[](collector # "update" =>
             c \in request /\ (Tables!Shared \/ \A g \in GPUsOf(c) : <<c, g>> \in duty))
=============================================================================

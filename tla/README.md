# container-engine-accelerators in TLA+

A verification project for the GKE accelerator components of this repository:
TLA+ modules of their control, TLC runs on small instances, and proofs that
TLAPS checks for every value of the constants.

Parse with `tlasany M.tla`, check a run with `tlc -config X.cfg MCM.tla`, check
proofs with `tlapm M_proofs.tla`. `PROJECT.json` lists the components, the runs,
the lines of code behind each definition, the hazards, the findings and the
theorems.

## 1. The system

| part | state | operations | talks to |
|---|---|---|---|
| **GPU device plugin** `cmd/nvidia_gpu`, `pkg/gpu/nvidia` | `devices` (health by name), the current `grpcServer` and its socket, the `Health` and `stop` channels, one goroutine per `ListAndWatch` stream | `Start` (retried by `main`), `Serve` (listen, register, watch for three reasons to restart), `ListAndWatch`, `Allocate`, `Stop` | kubelet over two sockets, NVML and `/dev`, health checker over `Health`, MIG manager by calls |
| **GPU sharing** `pkg/gpu/nvidia/gpusharing` | none | virtual IDs, validation of requests | called by the plugin |
| **Health checker** `pkg/gpu/nvidia/health_check` | clone of the devices, NVML handles, the set of critical Xids | `Start`, `catchError`, reset of the condition with backoff, recording of Xids, heartbeat | NVML events, `Health`, the Node object in the API server |
| **MIG manager** `pkg/gpu/nvidia/mig` | `gpuPartitions` (advertised), `gpuPartitionSpecs` (allocatable) | `Start`, `DeviceSpec`, `SetDeviceHealth` | `/proc/driver/nvidia/capabilities` |
| **`partition_gpu`**, an init container | none of its own: the driver keeps MIG mode, GPU instances and compute instances | enable MIG mode, reboot, compare, destroy, create | `nvidia-smi`, systemd; the MIG manager only through the driver |
| **Topology scheduler** `gke-topology-scheduler` | gates and affinities of pods, in the API server | a loop over gates and jobs; search for an assignment; replace each pod | API server, kube-scheduler |
| **GPU configuration** `NewGPUConfig`, `AddDefaultsAndValidate`, `Envs` | none | defaults and validation of the JSON file, limits of MPS clients | read by `main`, used by every other part of the plugin |
| **Metrics server** `pkg/gpu/nvidia/metrics` | Prometheus gauges, time of the last reset, list of devices | a round of collection on each tick, removal of all gauges once a minute | NVML, pod-resources socket of the kubelet |
| **Driver installers** `nvidia-driver-installer` | on the disk: cache file, drivers and libraries; in the kernel: modules | scripts in init containers: compare with the cache, build, write the cache, insert modules, verify | kernel, downloads; the plugin only through `/dev` and the libraries |
| **Persistenced installer** `nvidia-persistenced-installer`, a sidecar of confidential nodes | its daemon, the ready state of the GPU | check of the node type, persistence mode, ready state or reboot | `nvidia-smi`, init |
| **Driver version annotation** `version_visibility` | an annotation of the Node | published once by a goroutine beside `Serve` | NVML, API server |
| **NRI device injector** `nri_device_injector` | none | reads annotations of a pod, returns devices | container runtime |
| label-nodes daemon, `gpudirect-tcpxo` scheduler | none; an older copy of the topology scheduler | | metadata server, API server |

What is hard in it:

* **Overlapping handlers.** `grpc.Server.Stop` does not wait for handlers and
  `ListAndWatch` never looks at the context of its stream. After each restart
  of the server a handler of the old one stays blocked on `Health`, beside the
  new one, and takes part in the next health event: it may be the one that
  receives it, it then fails to send, and stops whichever server is current.
* **Events against restarts.** Kubelet restarts, deleted sockets and added GPUs
  restart the server while Xids wait for a receiver; a device list is read
  device by device, without the lock that writers of the table hold, and sent
  at another moment.
* **Optimistic locking.** Three goroutines and the kubelet write the status of
  one Node; conflicts are retried by one of them, and dropped by two.
* **Reboots and half-done commands.** Partitions are made by four commands that
  can stop half way, in a container that is run again from the top, next to a
  plugin that retries until it finds them; and sizes whose names the container
  cannot read back look to it like no partitions at all.
* **A search that never steps back.** The scheduler walks combinations of nodes
  with counters that only grow.
* **Resources that show late.** The scheduler counts what Running pods take and
  remembers what it gave out for one gate; calls that fail, answers that are
  lost and restarts come between the two.

* **Scripts that are killed anywhere.** The installers check, build, cache and
  insert in steps, next to a plugin that holds the driver open, over reboots
  with other kernels and new driver versions.
* **Gauges that nobody removes.** The metrics of containers that are gone stay
  until a round that removes all of them, and rounds come late or fail.

What makes each part correct, as properties: the kubelet's view agrees with the
table or is about to be repaired, and in the end agrees; marks survive; a marked
device is not allocated; the server restarts from nothing; Xids reach the table;
updates of the condition are atomic and a reboot clears the condition of the
boot before; accepted partitions stay or are there again when the partitioner is
done, sizes never mix, both containers finish;
assignments are usable, found when they exist, closest, and the search ends; no
node is given to two pods of a gate or overbooked, a job is released as a whole,
and every gated pod is released; an installer that is done has loaded the driver
that was asked for, and nobody replaces the driver of a plugin that runs; MPS
clients fit their GPU; gauges follow the containers with a bounded delay.

## 2. Modules

```
GPUDevices, HealthRegister (abstract) <- DevicePlugin <- MCDevicePlugin, DevicePlugin_proofs
NodeCondition (abstract) <- XidCondition <- MCXidCondition, XidCondition_proofs
GpuPartitioner <- MCGpuPartitioner, GpuPartitioner_proofs
PodAssignment <- MCPodAssignment, PodAssignment_proofs
TopologyScheduler <- MCTopologyScheduler, TopologyScheduler_proofs
NodeBringUp <- MCNodeBringUp, NodeBringUp_proofs
GPUConfig, GPUDevices <- GpuContainers <- MCGpuContainers, GpuContainers_proofs
FiniteFolds (lemmas) <- PodAssignment_proofs, TopologyScheduler_proofs, GpuContainers_proofs
```

**GPUDevices** has the tables and the pure operations: what one device adds to a
list (`ListDevice`), what a virtual ID inherits, discovery, the comparison of counts that notices an added
GPU, validation of a request, and whether `DeviceSpec` returns devices.

**DevicePlugin** composes manager, `Serve`, handlers, health checker, MIG
manager and kubelet. `pc` is the place in `main` and `Serve` ("stat",
"watchdir", "serve" for the top of the loop, "register", "watch" for
`statusCheck`, "rediscover"); `live` and `socket` are the current server and its
file; `hpc[s]` is the place of handler s: "send" is `sendDevices`, "receive" the
wait on `Health`, "set" the call of `SetDeviceHealth`. A zombie is a handler
whose stream is not in `open`.
The range in `sendDevices` and `ListDevices` takes no lock. `hleft[s]` are the
devices it has yet to read, in any order, and `hsnap[s]` what it has read of each
ID: between two turns (`ReadDevice`) another handler may set a mark, so that a
list may hold a later mark without an earlier one. Go also notices some of the
overlaps of readers and writers of one map and ends the process with "concurrent
map iteration and map write": `ConcurrentMapAccess`, possible whenever one
goroutine is in `SetDeviceHealth` or in rediscovery (`MapIsWritten`) and another
in a list or a request (`MapIsRead`). The health of one device that is read while
it is written is the old or the new one, or neither of the two strings, which
the kubelet takes for Unhealthy.
`Stop` is called by tests only; the run PluginMIG has it as an input. The zero
Device that a handler receives from the closed channel changes the entry of no
device. With MIG it adds one without a name, which reaches no kubelet: `Health`
is closed after `Serve` has returned, with no stream open (`SetHealth`).
`hcTodo` and `hcTarget` are the range of `catchError` over the devices. `view`
and `conn` are the kubelet's. The kubelet, the device files and NVML are
external: they are modelled from how the plugin uses them.
*Registration* is one step: the kubelet dials back before it answers.
*kubelet.sock* stays when a kubelet dies and is made again when the next one
listens, which is the inotify event that `Serve` waits for.

**HealthRegister** says what DevicePlugin promises the kubelet, by device IDs: a
stream only adds marks, each of its lists has all the marks there were when it
was begun (of later ones it may have any), what the kubelet offers follows the
lists that it gets, and marks are forgotten only while no stream works. The
refinement mapping reads `marked` off `devices`, `listed` and `unread` off
`hsnap` and `hleft` of the stream in `open`, and `offered` off `view`; servers,
handlers of earlier streams, restarts and rediscovery are hidden.

**NodeCondition** says what the health checker promises of the condition
`XidCriticalError`: atomic operations on the condition as it is. **XidCondition**
has the goroutines: each Gets the Node into `held[g]` and later writes its whole
copy; `latest` are the goroutines whose copy is still the latest version, the
only ones whose `UpdateStatus` gets through. Boot IDs are numbers.

**GpuPartitioner** has one action for each nvidia-smi command; `CommandFails`
leaves any part of the command's work done. `gis` and `cis` are GPU instances
and the compute instances on them. The plugin's side is `ManagerStart` and
`ManagerStartFails`, with both of its tables. `Parsable` are the sizes whose
profile names `dataLineRegex` (partition_gpu.go:395) matches. It has no `+` and no
`-` in its class of characters, and eight sizes of its own tables do:
`1g.24gb+me`, `1g.24gb+gfx`, `1g.24gb+me.all`, `1g.24gb-me`, `2g.48gb+gfx`,
`2g.48gb+me.all`, `2g.48gb-me` and `4g.96gb+gfx` (lines 79 to 88; taken to be what
`nvidia-smi mig -lgi` prints). GPUs that hold such
partitions look empty to `checkDesired`, so a container that is run again, which
is to find that "Current GPU partition configuration matches the desired state",
destroys and creates them under a plugin that has accepted them. A size that is
missing in `gpuPartitionSizeMaxCount` of `mig.go` (4g.20gb and 4g.40gb; 0 in
`ManagerMaxCount`) is cut and never accepted: `Start` fails for ever.
A command that fails and has "No GPU instances found" or "No compute instances
found" in its output counts as done (lines 306 and 315); that nvidia-smi writes
this only when nothing is left to destroy is assumed. If it did so for one GPU and
failed on another, InstancesAreUniform would not hold.

**PodAssignment** is `calculate_pods_assignment`, counters, breaks and all; one
step is one turn of the inner loop. `fits` is any relation, in place of the
resources that `can_schedule` compares. `Raise` is the IndexError that
`node_topology_distance` raises for a node without labels.

**TopologyScheduler** is the loop around that search, and the API server. `pc`
is the place in `run_scheduling_loop` and `schedule_pod_with_gate` ("pause" for
the sleeps of 90 and 60 seconds, "idle" for the loop, "gates" for the loop over
gates, "running" before Running pods are listed, "jobs" and "replace" for the
loops over jobs and over the pods of one). A search is one step: as proved of
PodAssignment (PlacementsAreUsable, RefusedJobsHaveNoPlace,
LabelledNodesAreSearched) it returns a usable assignment (`Assignments`) and
finds one for pods that fit on the same nodes (`Identical`); for other pods it
may fail. All nodes have topology labels, or none has. A replacement is one step too: the
resource version of the pod that was read makes `replace_namespaced_pod` fail if
anything has changed. Pods are numbered in the order in which they are listed,
which is what `groupby` sees (`Neighbours`). One number stands for CPU, memory
and GPUs. `specs` says which pods have labels and which taints they tolerate: a
job with mixed tolerations is ignored, nodes are chosen by the tolerations of
its first pod (`SchedulableNodes`), and a pod without labels ends the process in
`labels.get` (`ListGatedPodsRaises`). A node that is not ready is skipped for a
round (`ListRunningPods`). Each pod has one gate and a name that no pod of
another namespace has; node selectors, which `can_schedule` compares as well,
are left out.

**NodeBringUp** is the way of a node from its first boot to a plugin that
serves: the installer script (`ipc`, with one action for each function of
`entrypoint.sh`), `main` up to `Serve` (`main`), the publishing goroutine
(`publishing`, `published`) and on confidential nodes the sidecar (`ppc`). They
meet in `cache` and `files` on the disk, and in `modules`, `loaded` and
`devNodes` in the kernel and `/dev`. Kernels are numbers in order of release, and
`Release` is what `fix_kernel_version` of minikube makes of one. `InstallerFails`
kills a script at any point and leaves any part of the step's work: a cache file
truncated and not written is `Torn`, as are files of two drivers. The script of
confidential nodes is one step; `ConfidentialInstallFails` is what it leaves when
it is killed. The NVIDIA installer, `nvidia-smi` and the kernel are external:
their guards (modules in use, modules of another kernel, libraries of another
version) are what the scripts rely on.

**GPUConfig** has `AddDefaultsAndValidate`, the fallback of `main` and `Envs` as
operators. **GpuContainers** composes them with the tables of GPUDevices, the
containers of a node (`pods`: device IDs and MPS limits; `injected`: devices of
the NRI injector) and the metrics server. `Tick` and `TakeTick` are the ticker,
whose channel holds one tick; a round is `GetDevicesForAllContainers`,
`ResetMetricsIfNeeded` and `UpdateMetrics`. `request`, `duty` and `node` say which
gauges exist, not their values. Time is `sinceReset`, in ticks. `stale` is a
history variable: the completed rounds for which a gauge has been there without
its container. MIG partitions stand for themselves with one to a GPU.

## 3. Runs

| run | instance | what it shows | states, time |
|---|---|---|---|
| PluginSafety | 2 GPUs (one added), MPS with 2 clients, 2 handlers, 1 Xid, 1 kubelet restart | safety of views, restarts and allocation | 716 k, 80 s |
| PluginLiveness | 2 GPUs (one added), 4 handlers, 1 Xid, 1 kubelet restart | implements HealthRegister; convergence | 329 k, 160 s |
| PluginMIG | 2 partitions, 3 handlers, 1 Xid, 1 crash, `Stop` | end of handlers | 463 k, 70 s |
| XidCondition | 2 Xids, 3 boots, 1 restart | atomic updates, reboots | 32 k, 7 s |
| Partitioner | 2 GPUs, 4 sizes (one not parsable, one not in the manager's table), 1 new config, 1 failure, 1 failing listing, 2 new pods, 1 reboot | partitions | 2.0 M, 140 s |
| Assignment | 3 pods, 5 nodes (one unlabelled), every relation between them | the search | 499 k, 20 s |
| Scheduler | 4 pods in 3 jobs, 2 gates, 2 extractors, 2 nodes (one tainted), 1 failure, 1 lost answer | the loop | 493 k, 95 s |
| BringUp | 3 kinds of node, 3 kernels, 2 drivers, 3 failures, 2 reboots, 2 updates | installers, start of the plugin, sidecar | 226 k, 30 s |
| Containers | 1 or 2 GPUs, 9 configurations, 2 containers, 3 MPS clients, a reset every 2 ticks, 2 creations, 1 failure | limits, injected devices, gauges | 215 k, 50 s |

Why the bounds are enough: two handlers are what it takes for one to be a zombie
(with three or four more than one zombie is there); an event needs one more to
meet a stale list, and an Xid of the whole node marks both devices, one after the
other, while a list is read; two GPUs are what counts and names need to differ; three
boots let a condition outlive one reboot and meet the next; two sizes mix, and
with four there are ordinary ones of two and of one partition to a GPU beside one
that cannot be parsed and one that the manager does not know; three
pods have a first, a middle and a last one, and the failures of the search start
there. In Scheduler two jobs of a gate compete for the nodes, one of them needs
both, and the third belongs to another turn of the loop; its pod may lack
labels, and the pods of the first job may have different tolerations. Two of the
three kernels of BringUp have one x.y in common; two updates and two reboots let
the cache file be about another driver and another kernel at once; three
failures interrupt a script, the one that mends it and the plugin. Three MPS
clients make every share round, two containers with up to three devices compete
for a GPU and use each other's name again.

Three runs check a statement of the code or its documentation that does not hold;
`PROJECT.json` quotes the lines:

| run | the statement | what happens |
|---|---|---|
| PluginAddedGPU | marked GPUs stay marked | an added GPU makes the manager set all of them Healthy |
| PluginSkippedDevice | a device that cannot be set up is skipped | the next Xid of another device dereferences nil |
| AssignmentBest | all combinations were checked | some were skipped |

Four more do not hold and have no run of their own; add the invariant to the cfg
(or change the property) to see the counterexample. XidsOfThisBootAreKept in XidCondition.cfg: an Xid that
is added to the condition of the last boot is removed with it.
DoneMeansDesired in Partitioner.cfg: a run that was interrupted before it made
compute instances is taken for complete, as only numbers of GPU instances are
compared. InstallerFinishes without its second disjunct in BringUp.cfg: `Stuck`
lists the states from which no run of the script comes to its end. A fourth is
AllocatablePartitionsExist without its condition `config \in Parsable \/ pc =
"done"` in Partitioner.cfg: with the size that cannot be parsed, a container whose
command failed is run again and destroys the partitions that a plugin has accepted
in between, or a new container pod does.

### Fairness

Liveness is checked under weak fairness of what the code or its surroundings
keep doing: runnable goroutines run, tickers tick, NVML answers in the end, the
kubelet listens, calls `ListAndWatch` and notices broken streams, containers are
restarted; `ConfigChanges`, crashes, errors and requests are never obliged.
In DevicePlugin the steps of one goroutine that never wait for one another share
a condition (`Serve` up to `statusCheck`, `Stop`, `catchError`, each handler); the
tickers and the watcher of `statusCheck` have one each.
`ResetTimesOut` is strongly fair: two minutes pass however often the reset is
retried. `ManagerStart`, not its failure, is fair: `main` retries every few
seconds.

Two more assumptions are constants, because without them liveness fails for
reasons of timing alone. `PromptHandlers`: a handler that can run is done before
the next tick of a second. (Otherwise a zombie's failing Send can stop each new
server, and the handler that this leaves behind the one after it, for ever.)
`FileMayComeFirst = FALSE`: an added GPU is listed by NVML before its file
appears. (Otherwise each check of ten seconds restarts the server, and one that
NVML never lists makes this last for ever.) Safety is checked without both.

In TopologyScheduler the loop runs, pods with room start and running pods finish.
`StartsInTime` says that the pauses are long enough for what they are for (lines
775 and 807): pods with room are Running when a pause ends. Without it
NodesAreNotOverbooked does not hold. It counts the pods that may run on the node
they are pinned to (`Booked`): a pod without a job may be pinned to one that it
does not tolerate (line 261), where it takes nothing and waits. The theorem about
JobsAreAllOrNothing assumes of the names of jobs what the code takes for granted:
`NamesAgree`, no extractor finds one name for pods of two jobs of a gate, and
`ListedTogether`, the pods of a job follow one another in the list, as `groupby`
on an unsorted list needs (line 600). Both hold of the checked instance, which is
an ASSUME of MCTopologyScheduler. The sleep of five seconds is there so that
all pods of a job are listed (line 798): `JobCreated` creates them in one step.

In NodeBringUp containers are run again until they succeed, and init reboots when
it is asked to; failures, reboots of other causes and updates are not obliged. In
GpuContainers the ticker ticks, and the kubelet answers or its connection breaks,
which ends the round (`ListFails`). Pods need not end, nor be created.
InstalledAsRequested and its invariant are stated for `Rollback = FALSE`: kernels
and drivers are not replaced by earlier ones. With a rollback they do not hold,
as the cache file is not removed before the files it is about are replaced.
MPSFitsTheGPU is stated without MIG, where clients are given shares of a whole
GPU. ContainersAreExported leaves out the moment between the removal of all
gauges and their update in the same round, which a scrape may hit.

What the properties do not reach although the model has it: `Stuck` exempts torn
cache files, a driver in use and the module of another kernel from
InstallerFinishes; PluginGetsItsPartitions and JobsAreAllOrNothing are about nodes
and calls that do not fail; NoXidSurvivesReboot is about Xids that stay too long,
not about one that is lost; AnnotationIsTheDriver is about a process that has
published, not about the annotation that an earlier boot has left. `hazards` says
so at each line.

What is taken as given: the NVIDIA installer refuses to run while the modules are
in use, and checks, builds and loads in one step (`RunInstaller`); `main` retries
`Start` until NVML answers, where a failing attempt changes nothing that is
modelled (`ManagerStart` of NodeBringUp); a GPU is hidden from `nvidia-smi` as often
as the bound of failures has it, before or after reboots, and one that no reboot
brings back is not modelled (`NoDevicesFound`, `NodeReboots`); a plugin that is
restarted reads the same `gpu_config.json` (`PluginRestarts` of GpuContainers), and
one set of NVML's answers serves the containers and the node of a metrics round
(`UpdateMetrics`). No property depends on the last.

`KubeletReportsFirst` in XidCondition: a kubelet reports the boot ID of its node
before it runs pods. PluginMIG, Partitioner, Assignment, Scheduler, BringUp and Containers
may stop (after `Stop`, when both containers are done, when the search has
returned, when every pod is gone, when everything serves and the bounds are used
up, with MIG, where there are no metrics) and switch the deadlock check off.

## 4. Proofs

All theorems hold for any constants that satisfy the ASSUMEs of the modules.

* **DevicePlugin_proofs**: `Spec => []IInv`. TypeOK alone says nothing of views:
  `ServerInv` ties sockets, streams and requests to a server that lives, and
  `FreshInv` covers a handler that still has to read some devices and send what it
  has read: what it has read of a device is the table's entry, or another handler
  is on its way to a Send. *StaleViewIsCorrected* is its case in which the send is
  done. Of health marks
  the invariant needs that those listed on a working stream are still in the
  table (`ListedMarksInv`), which is why rediscovery has to run with no server.
  From it: StaleViewIsCorrected, RestartsFromNothing, BadDevicesAreRefused
  (without MIG), NoRecoveryOnStream as an action property, and the refinement
  `Spec => HealthRegister!Spec` (MarksAreRegistered). For the refinement, steps
  are sorted by what they do to the table and the view: tables lose marks by
  discovery and with the process only, both with no stream open (`ServerInv`); what
  a zombie reads is of no stream and maps to a stutter, but the mark that a zombie
  sets maps to a mark, and the mark of the handler whose stream is open begins its
  next list as well.
  MarksAreKept, which an added GPU breaks, is proved for a node that has all its
  GPUs from the start (MarksAreKeptOnFixedNodes): there rediscovery never runs.
* **XidCondition_proofs**: a copy in `latest` equals the Node (`XidInv`), so a
  write that gets through is one operation on the present condition. From it
  the refinement `Spec => NodeCondition!Spec` (every step maps to an operation
  or a stutter) and NoXidSurvivesReboot.
* **GpuPartitioner_proofs**: `CommandsInv` says what each command finds done, and
  gives InstancesAreUniform. `AcceptedInv` says that what a plugin has accepted
  is the whole configuration. If its size can be parsed no later run finds a
  mismatch (WholeIsDesired), and the partitions are never touched; if not, every
  run finds one (UnparsableIsNotDesired), goes through all four commands and is done
  when everything is there again. So PartitionerIInv and AcceptedPartitionsExist
  hold for all tables of sizes that PartitionerAssumption allows: the manager's
  has the same numbers or none.
* **PodAssignment_proofs**: places increase from pod to pod, the pod that moves
  has room below the next one, and the ones behind it are taken (`PlacesInv`);
  so only the last pod can run out of nodes, and a complete assignment is usable.
  That identical pods are found nodes although no place is ever moved back rests
  on `GapsInv`: between two pods no node that they fit on is free, but for one in
  front of the pod that moves and one behind it, which the next pod takes. So a
  round that fails has seen no node for pod 0, and later rounds do not fail
  (`RoundsInv`); at the end every node has been passed by nobody in vain
  (EnoughNodesAreFound). Nodes in their order are no restriction: any way to give
  identical pods nodes of their own can be sorted (NodesInOrder), so a refused job
  has no place at all (RefusedJobsHaveNoPlace).
  ThreePodsAreClosest needs that every window of nodes that follow one another has
  been compared when the last pod passes it (`WindowInv`), and that some window is
  as close as any assignment (WindowsAreClosest): with sorted keys a node between
  two others is no further from either than these are from one another. Of four
  pods the two in the middle may have to be far apart, and the closest assignment
  need not be a window.
* **TopologyScheduler_proofs**: OneNodePerPod needs to know that the nodes of the
  plan are not among those given out (`PlanInv`) and that those of all placed
  pods are (`PlacedInv`). The second is lost with an answer, so both it and the
  property hold until then; the first always does.
  NodesAreNotOverbooked is about sums of requests, of any number of pods: what
  Running pods take stands for all that is booked, on nodes that were not given
  out since (`BookedInv`), and a replacement adds one request, that fits, to a
  node that has had none.
  JobsAreAllOrNothing needs `JobInv`: the jobs that are left are gated as a whole,
  they do not overlap, and only the one that is being replaced is gated in part.
  NamedJobsTolerateTheirNodes is the guarantee that the code's comment at line 261
  claims, for the pods for which it is true.
* **NodeBringUp_proofs**: `DriverInv` says that files are those of the loaded
  module except while nothing is loaded, which is what keeps a plugin's driver in
  place (PluginKeepsItsDriver, an action property) and the annotation true.
  `CacheInv` says that a cache file is right about the driver, or names an
  earlier one than is asked for, so that it never counts again; with it every
  run of a script, over the cache or not, ends with the driver that was asked
  for.
* **GpuContainers_proofs**: AcceptedConfigs and MPSLimitsAreShares are about the
  operators, for every content of the file and every number of clients. For the
  gauges, `StaleInv` counts rounds: each round that did not reset took a tick of
  its own since the last reset (`Rounds` are those a tick was given for already),
  so `stale` is at most one or two ahead of `sinceReset`, and a round that finds
  `sinceReset` above the interval resets.
  MPSFitsTheGPU is a sum over the containers of a GPU: with `LimitsInv` each has
  limits in proportion to its IDs, IDs of one GPU that no other container has; so
  the sums go with the number of IDs, at most `maxShared`, and the rounding of
  every share is downwards. FirstOfEachPathIsInjected unfolds the loop of
  `getDevices` index by index.
* **FiniteFolds** has no state: least numbers, induction over numbers and over
  subsets, and what sums over finite sets do. The induction theorems of the
  library take an operator as a parameter, which the provers cannot instantiate;
  here the induction is over a *set* of numbers or of subsets, which is
  first-order, and a fold is the function that CHOOSE picks among those that
  satisfy its recursion, of which there is one (FoldExists).

Every invariant that a run checks is stated by a theorem, and so are the action
properties and both refinements. The theorems do not depend on the
bounds of the runs, which are constants.

Only model-checked: all liveness (ViewConverges, XidIsRecorded,
AddedGPUIsAdvertised, HandlersEndAfterStop, OutdatedConditionIsRemoved,
PartitionerFinishes, PluginGetsItsPartitions, SearchEnds, PodsAreReleased,
InstallerFinishes, PluginServes, ConfidentialNodesSettle, GoneContainersVanish,
ContainersAreExported): liveness under fairness and ENABLED are out of this
prover's reach.

## 5. Not modelled, and the plan

1. In **TopologyScheduler**: pods with more than one gate, names that collide
   between namespaces, node selectors.
2. In **GPUConfig**: the fraction divisor and the parsing of `XID_CONFIG`.
3. An abstract specification of what **TopologyScheduler** promises of a job
   (placed as a whole, on nodes of its own, or not at all while nothing fails), and
   one of what **NodeBringUp** promises of the driver of a node, with their
   refinements; the second would hide the cache file, the scripts and their
   failures.

Left out for good: formatting, flags, topology hints and mount paths (no property
depends on them), the values of gauges, the parsing of annotations and device
numbers, the COS image `cos-gpu-installer` and the NVIDIA installer (programs of
others), the label-nodes daemon (no state), the wrappers of NVML (inputs of the
models), vendored code, manifests and demos, and the `gpudirect-tcpxo` copy of the
scheduler, whose search is the same.

------------------------ MODULE GpuPartitioner_proofs ------------------------
(***************************************************************************)
(* Theorems about GpuPartitioner, for every number of GPUs, every table of *)
(* partition sizes and any number of failures.                             *)
(***************************************************************************)
EXTENDS GpuPartitioner, FiniteSetTheorems, TLAPS

-----------------------------------------------------------------------------
(***************************************************************************)
(* Instances and their numbers.                                            *)
(***************************************************************************)

\* What an instance is made of.
LEMMA InstanceFields ==
  ASSUME NEW x \in Instance
  PROVE  /\ x[1] \in GPU /\ x[2] \in Size
         /\ x[3] \in 1 .. MaxCount[x[2]]
         /\ x = <<x[1], x[2], x[3]>>
BY DEF Instance

\* The instances of a size on one GPU are as many as the table says.
LEMMA DesiredCount ==
  ASSUME NEW s \in Size, NEW g \in GPU
  PROVE  /\ IsFiniteSet(OnGPU(Desired(s, GPU), g))
         /\ Cardinality(OnGPU(Desired(s, GPU), g)) = MaxCount[s]
         /\ OnGPU(Desired(s, GPU), g) # {}
<1> DEFINE n == MaxCount[s]
           S == OnGPU(Desired(s, GPU), g)
           f == [i \in 1 .. n |-> <<g, s, i>>]
<1>1. n \in Nat /\ n > 0
  BY PartitionerAssumption
<1>2. S = {<<g, s, i>> : i \in 1 .. n}
  <2>1. \A x \in S : x \in {<<g, s, i>> : i \in 1 .. n}
    <3> SUFFICES ASSUME NEW x \in S PROVE x \in {<<g, s, i>> : i \in 1 .. n}
      OBVIOUS
    <3>1. x \in Instance /\ x[1] = g /\ x[2] = s
      BY DEF OnGPU, Desired
    <3>2. x[3] \in 1 .. n /\ x = <<g, s, x[3]>>
      BY <3>1, InstanceFields
    <3> QED  BY <3>2
  <2>2. \A i \in 1 .. n : <<g, s, i>> \in S
    BY DEF OnGPU, Desired, Instance
  <2> QED  BY <2>1, <2>2
<1>3. ExistsBijection(1 .. n, S)
  <2>1. f \in [1 .. n -> S]
    BY <1>2
  <2>2. \A i, j \in 1 .. n : f[i] = f[j] => i = j
    OBVIOUS
  <2>3. \A x \in S : \E i \in 1 .. n : f[i] = x
    BY <1>2
  <2>4. f \in Bijection(1 .. n, S)
    BY <2>1, <2>2, <2>3, Zenon DEF Bijection, Injection, Surjection, IsInjective
  <2> QED  BY <2>4, Zenon DEF ExistsBijection
<1>4. IsFiniteSet(S) /\ Cardinality(S) = n
  BY <1>1, <1>3, FS_NatBijection, FS_CountingElements
<1>5. <<g, s, 1>> \in S
  BY <1>1, <1>2
<1> QED  BY <1>4, <1>5

\* Desired instances that are complete by their numbers are complete.
LEMMA FullIsWhole ==
  ASSUME NEW s \in Size, NEW S \in SUBSET Desired(s, GPU),
         \A g \in GPU : Cardinality(OnGPU(S, g)) = MaxCount[s]
  PROVE  S = Desired(s, GPU)
<1> DEFINE D == Desired(s, GPU)
<1>1. ASSUME NEW g \in GPU PROVE OnGPU(S, g) = OnGPU(D, g)
  <2>1. OnGPU(S, g) \in SUBSET OnGPU(D, g)
    BY DEF OnGPU
  <2>2. IsFiniteSet(OnGPU(D, g)) /\ Cardinality(OnGPU(D, g)) = MaxCount[s]
    BY DesiredCount
  <2>3. Cardinality(OnGPU(D, g)) = Cardinality(OnGPU(S, g))
    BY <2>2
  <2> QED  BY <2>1, <2>2, <2>3, FS_Subset
<1>2. \A x \in D : x \in S
  <2> SUFFICES ASSUME NEW x \in D PROVE x \in S
    OBVIOUS
  <2>1. x[1] \in GPU
    BY DEF Desired
  <2>2. x \in OnGPU(S, x[1])
    BY <1>1, <2>1 DEF OnGPU
  <2> QED  BY <2>2 DEF OnGPU
<1> QED  BY <1>2

\* Every GPU holds some instance when all have been made.
LEMMA WholeIsEverywhere ==
  ASSUME NEW s \in Size, NEW gpus, Desired(s, GPU) \subseteq Desired(s, gpus)
  PROVE  GPU \subseteq gpus /\ Desired(s, GPU) # {}
<1>1. ASSUME NEW g \in GPU PROVE g \in gpus
  <2>1. PICK x : x \in OnGPU(Desired(s, GPU), g)
    BY DesiredCount
  <2> QED  BY <2>1 DEF OnGPU, Desired
<1>2. 1 \in GPU
  BY PartitionerAssumption DEF GPU
<1> QED  BY <1>1, <1>2, DesiredCount DEF OnGPU

\* All the instances that were asked for: checkDesired finds nothing to do.
LEMMA WholeIsDesired ==
  ASSUME config \in Size, config \in Parsable, gis = Whole, want = config
  PROVE  CheckDesired
<1>1. Listed = Whole
  BY DEF Listed, Whole, Desired
<1>2. Listed # {}
  BY <1>1, WholeIsEverywhere DEF Whole
<1>3. \A x, y \in Listed : x[2] = y[2]
  BY <1>1 DEF Whole, Desired
<1>4. ASSUME NEW x \in Listed
      PROVE  Cardinality(OnGPU(Listed, x[1])) = MaxCount[want]
  <2>1. x[1] \in GPU
    BY <1>1 DEF Whole, Desired
  <2> QED  BY <1>1, <2>1, DesiredCount DEF Whole
<1> QED  BY <1>2, <1>3, <1>4 DEF CheckDesired

\* Instances of a size that cannot be parsed are none to checkDesired.
LEMMA UnparsableIsNotDesired ==
  ASSUME config \notin Parsable, gis \subseteq Desired(config, mig)
  PROVE  ~CheckDesired
BY DEF CheckDesired, Listed, Desired

-----------------------------------------------------------------------------
(***************************************************************************)
(* Types.                                                                  *)
(***************************************************************************)

Left == [configs : Nat, failures : Nat, lists : Nat, runs : Nat, reboots : Nat]

\* An instance that is desired is one.
LEMMA DesiredType == \A s, gpus : Desired(s, gpus) \in SUBSET Instance
BY DEF Desired

\* The initial states are well typed.
LEMMA TypeInit == Init => TypeOK
<1> SUFFICES ASSUME Init PROVE TypeOK
  OBVIOUS
<1>1. left \in Left
  BY PartitionerAssumption DEF Init, Left
<1> QED  BY <1>1 DEF Init, TypeOK, Left

\* The steps of the partitioner that do not touch the driver.
LEMMA TypeQuietStep ==
  ASSUME TypeOK, Run \/ CheckMode \/ CheckPartitions \/ CheckPartitionsFails
  PROVE  TypeOK'
<1>1. left' \in Left
  BY DEF TypeOK, Left, Run, CheckMode, CheckPartitions, CheckPartitionsFails
<1>2. want' \in Size /\ pc' \in {"mode", "enable", "check", "done", "dci"}
  BY DEF TypeOK, Run, CheckMode, CheckPartitions, CheckPartitionsFails
<1> QED  BY <1>1, <1>2 DEF TypeOK, Left, driver, manager, Run, CheckMode,
                           CheckPartitions, CheckPartitionsFails

\* A command that does all of its work.
LEMMA TypeCommand ==
  ASSUME TypeOK,
         EnableMigMode \/ DestroyComputeInstances \/ DestroyGPUInstances
           \/ CreateGPUInstances \/ CreateComputeInstances,
         CommandsInv
  PROVE  TypeOK'
<1>1. mig' \in SUBSET GPU /\ migNext' \in SUBSET GPU
  BY DEF TypeOK, EnableMigMode, DestroyComputeInstances, DestroyGPUInstances,
         CreateGPUInstances, CreateComputeInstances
<1>2. gis' \in SUBSET Instance
  BY DesiredType DEF TypeOK, EnableMigMode, DestroyComputeInstances,
         DestroyGPUInstances, CreateGPUInstances, CreateComputeInstances
<1>3. cis' \in SUBSET gis'
  BY DEF TypeOK, CommandsInv, EnableMigMode, DestroyComputeInstances,
         DestroyGPUInstances, CreateGPUInstances, CreateComputeInstances
<1>4. pc' \in {"idle", "check", "dgi", "cgi", "cci", "done"} /\ rebooting' \in BOOLEAN
  BY DEF TypeOK, EnableMigMode, DestroyComputeInstances, DestroyGPUInstances,
         CreateGPUInstances, CreateComputeInstances
<1> QED  BY <1>1, <1>2, <1>3, <1>4
         DEF TypeOK, manager, EnableMigMode, DestroyComputeInstances,
         DestroyGPUInstances, CreateGPUInstances, CreateComputeInstances

\* A command that does some of it.
LEMMA TypeCommandFails ==
  ASSUME TypeOK, CommandsInv, CommandFails
  PROVE  TypeOK'
<1>1. left' \in Left
  BY DEF TypeOK, Left, CommandFails
<1>2. mig' \in SUBSET GPU /\ migNext' \in SUBSET GPU
  BY DEF TypeOK, CommandFails, driver
<1>3. gis' \in SUBSET Instance
  BY DesiredType DEF TypeOK, CommandFails, driver
<1>4. cis' \in SUBSET gis'
  BY DEF TypeOK, CommandFails, CommandsInv, driver
<1> QED  BY <1>1, <1>2, <1>3, <1>4 DEF TypeOK, Left, CommandFails, manager

\* The plugin.
LEMMA TypePlugin ==
  ASSUME TypeOK, Plugin
  PROVE  TypeOK'
<1>1. partitions' \in SUBSET Instance /\ specs' \in SUBSET Instance
  BY DEF TypeOK, Plugin, PluginStarts, ManagerStart, ManagerStartFails
<1>2. plugin' \in {"down", "starting", "started"} /\ pluginWant' \in Size
  BY DEF TypeOK, Plugin, PluginStarts, ManagerStart, ManagerStartFails
<1> QED  BY <1>1, <1>2 DEF TypeOK, driver, partitioner, Plugin, PluginStarts,
                           ManagerStart, ManagerStartFails

\* The node and its pods.
LEMMA TypeNode ==
  ASSUME TypeOK,
         ConfigChanges \/ PartitionerPodRecreated \/ PluginPodRecreated
           \/ RequestedReboot \/ Reboot
  PROVE  TypeOK'
<1>1. left' \in Left
  BY DEF TypeOK, Left, ConfigChanges, PartitionerPodRecreated,
         PluginPodRecreated, RequestedReboot, Reboot
<1>2. CASE ConfigChanges \/ PartitionerPodRecreated \/ PluginPodRecreated
  BY <1>1, <1>2 DEF TypeOK, Left, ConfigChanges, PartitionerPodRecreated,
         PluginPodRecreated, driver, partitioner, manager
<1>3. CASE RequestedReboot \/ Reboot
  <2>1. NodeReboots
    BY <1>3 DEF RequestedReboot, Reboot
  <2> QED  BY <1>1, <2>1 DEF TypeOK, Left, NodeReboots
<1> QED  BY <1>2, <1>3

\* Every step keeps the types.  A command keeps a compute instance inside its
\* GPU instance because of what the commands before it have done.
LEMMA TypeStep == TypeOK /\ CommandsInv /\ [Next]_vars => TypeOK'
<1> SUFFICES ASSUME TypeOK, CommandsInv, [Next]_vars PROVE TypeOK'
  OBVIOUS
<1>1. CASE Run \/ CheckMode \/ CheckPartitions \/ CheckPartitionsFails
  BY <1>1, TypeQuietStep
<1>2. CASE EnableMigMode \/ DestroyComputeInstances \/ DestroyGPUInstances
             \/ CreateGPUInstances \/ CreateComputeInstances
  BY <1>2, TypeCommand
<1>3. CASE CommandFails
  BY <1>3, TypeCommandFails
<1>4. CASE Plugin
  BY <1>4, TypePlugin
<1>5. CASE ConfigChanges \/ PartitionerPodRecreated \/ PluginPodRecreated
             \/ RequestedReboot \/ Reboot
  BY <1>5, TypeNode
<1>6. CASE UNCHANGED vars
  BY <1>6 DEF TypeOK, vars, driver, partitioner, manager
<1> QED  BY <1>1, <1>2, <1>3, <1>4, <1>5, <1>6
         DEF Next, Partitioner, Environment

-----------------------------------------------------------------------------
(***************************************************************************)
(* The order of the commands, and what it does for the instances.          *)
(***************************************************************************)

\* main goes on from a command only when it is done.
LEMMA CommandsOrder ==
  ASSUME TypeOK, CommandsInv, [Next]_vars
  PROVE  /\ pc' \in {"dgi", "cgi", "cci"} => cis' = {}
         /\ pc' = "cgi" => gis' = {}
<1>1. CASE Partitioner
  BY <1>1 DEF CommandsInv, Partitioner, Run, CheckMode, EnableMigMode,
     CheckPartitions, DestroyComputeInstances, DestroyGPUInstances,
     CreateGPUInstances, CreateComputeInstances, driver
<1>2. CASE Plugin
  BY <1>2 DEF CommandsInv, Plugin, PluginStarts, ManagerStart,
     ManagerStartFails, driver, partitioner
<1>3. CASE Environment
  BY <1>3 DEF CommandsInv, Environment, CheckPartitionsFails, CommandFails,
     ConfigChanges, PartitionerPodRecreated, PluginPodRecreated,
     RequestedReboot, Reboot, NodeReboots, driver, partitioner
<1>4. CASE UNCHANGED vars
  BY <1>4 DEF CommandsInv, vars, driver, partitioner
<1> QED  BY <1>1, <1>2, <1>3, <1>4 DEF Next

\* What is left of the bounds never grows.
LEMMA LeftShrinks ==
  ASSUME TypeOK, [Next]_vars
  PROVE  left'.lists <= left.lists /\ left'.configs <= left.configs
<1>1. CASE Partitioner
  BY <1>1 DEF TypeOK, Partitioner, Run, CheckMode, EnableMigMode,
     CheckPartitions, DestroyComputeInstances, DestroyGPUInstances,
     CreateGPUInstances, CreateComputeInstances
<1>2. CASE Plugin
  BY <1>2 DEF TypeOK, Plugin, PluginStarts, ManagerStart, ManagerStartFails
<1>3. CASE Environment
  BY <1>3 DEF TypeOK, Environment, CheckPartitionsFails, CommandFails,
     ConfigChanges, PartitionerPodRecreated, PluginPodRecreated,
     RequestedReboot, Reboot
<1>4. CASE UNCHANGED vars
  BY <1>4 DEF TypeOK, vars
<1> QED  BY <1>1, <1>2, <1>3, <1>4 DEF Next

\* How a step can change the GPU instances: it takes some away, or, after
\* all of them have gone, makes some of the size that is wanted.
LEMMA InstancesStep ==
  ASSUME TypeOK, CommandsInv, [Next]_vars
  PROVE  \/ gis' \subseteq gis
         \/ pc = "cgi" /\ gis' \subseteq Desired(want, GPU)
<1>1. ASSUME NEW made \in SUBSET Desired(want, mig), pc = "cgi"
      PROVE  gis \cup made \subseteq Desired(want, GPU)
  BY <1>1 DEF TypeOK, CommandsInv, Desired
<1>2. CASE CreateGPUInstances
  BY <1>1, <1>2 DEF CreateGPUInstances
<1>3. CASE CommandFails
  <2>1. CASE pc = "cgi" /\ (\E made \in SUBSET Desired(want, mig) : gis' = gis \cup made)
    BY <1>1, <2>1
  <2>2. CASE gis' \subseteq gis
    BY <2>2
  <2> QED  BY <1>3, <2>1, <2>2 DEF CommandFails, driver
<1>4. CASE Partitioner /\ ~CreateGPUInstances
  BY <1>4 DEF Partitioner, Run, CheckMode, EnableMigMode, CheckPartitions,
     DestroyComputeInstances, DestroyGPUInstances, CreateComputeInstances, driver
<1>5. CASE Plugin
  BY <1>5 DEF Plugin, PluginStarts, ManagerStart, ManagerStartFails, driver
<1>6. CASE Environment /\ ~CommandFails
  BY <1>6 DEF Environment, CheckPartitionsFails, ConfigChanges,
     PartitionerPodRecreated, PluginPodRecreated, RequestedReboot, Reboot,
     NodeReboots, driver
<1>7. CASE UNCHANGED vars
  BY <1>7 DEF vars, driver
<1> QED  BY <1>2, <1>3, <1>4, <1>5, <1>6, <1>7 DEF Next

\* Every step keeps what the commands rely on.
LEMMA CommandsStep == TypeOK /\ CommandsInv /\ [Next]_vars => CommandsInv'
<1> SUFFICES ASSUME TypeOK, CommandsInv, [Next]_vars PROVE CommandsInv'
  OBVIOUS
<1>1. left'.lists <= MaxListFailures /\ left'.configs <= MaxConfigs
  <2>1. left' \in Left /\ left \in Left
    BY TypeStep DEF TypeOK, Left
  <2> QED  BY <2>1, LeftShrinks, PartitionerAssumption DEF CommandsInv, Left
<1>2. InstancesAreUniform'
  BY InstancesStep DEF CommandsInv, InstancesAreUniform, Desired
<1> QED  BY <1>1, <1>2, CommandsOrder DEF CommandsInv

\* Before the first command.
LEMMA CommandsInit == Init => CommandsInv
BY PartitionerAssumption DEF Init, CommandsInv, InstancesAreUniform

\* Types and the order of the commands, together.
THEOREM PartitionerInvariance == Spec => [](TypeOK /\ CommandsInv)
<1>1. Init => TypeOK /\ CommandsInv
  BY TypeInit, CommandsInit
<1>2. TypeOK /\ CommandsInv /\ [Next]_vars => (TypeOK /\ CommandsInv)'
  BY TypeStep, CommandsStep
<1> QED  BY <1>1, <1>2, PTL DEF Spec

\* The GPUs never hold instances of two sizes: partition_gpu destroys all that
\* an earlier size has left, wherever it was killed, before it creates any.
THEOREM InstancesStayUniform == Spec => []InstancesAreUniform
<1>1. CommandsInv => InstancesAreUniform
  BY DEF CommandsInv
<1> QED  BY <1>1, PartitionerInvariance, PTL

-----------------------------------------------------------------------------
(***************************************************************************)
(* Partitions that the plugin has accepted.                                *)
(***************************************************************************)

\* What AcceptedInv says of a node whose configuration does not change and
\* whose listings succeed.
Accepted ==
  /\ want = config /\ pluginWant = config
  /\ gis \subseteq Desired(config, mig)
  /\ pc = "dci" /\ config \in Parsable => gis # Whole
  /\ pc = "cci" => gis = Desired(config, mig)
  /\ pc = "done" /\ config \notin Parsable => gis = Desired(config, mig) /\ cis = gis
  /\ plugin = "started" => mig = GPU /\ specs = Whole
  /\ plugin = "started" /\ config \in Parsable => gis = Whole /\ cis = Whole

\* Such a node was one before the step.
LEMMA StillOnce ==
  ASSUME TypeOK, CommandsInv, [Next]_vars, ListedAndConfiguredOnce'
  PROVE  ListedAndConfiguredOnce /\ ~ConfigChanges /\ ~CheckPartitionsFails
<1>1. left' \in Left /\ left \in Left
  BY TypeStep DEF TypeOK, Left
<1>2. ListedAndConfiguredOnce
  BY <1>1, LeftShrinks, PartitionerAssumption
     DEF ListedAndConfiguredOnce, CommandsInv, Left
<1>3. ~ConfigChanges
  BY <1>1, <1>2 DEF ListedAndConfiguredOnce, ConfigChanges, Left
<1>4. ~CheckPartitionsFails
  BY <1>1, <1>2 DEF ListedAndConfiguredOnce, CheckPartitionsFails, Left
<1> QED  BY <1>2, <1>3, <1>4

\* While a plugin relies on partitions that can be parsed no command is at work
\* on them.
LEMMA NoCommandAtWork ==
  ASSUME TypeOK, CommandsInv, Accepted, plugin = "started", config \in Parsable
  PROVE  pc \notin {"dci", "dgi", "cgi", "cci"}
<1>1. Whole # {}
  BY WholeIsEverywhere DEF Whole, TypeOK
<1> QED  BY <1>1 DEF CommandsInv, Accepted

\* The steps of the partitioner: checkDesired accepts the whole, or nothing.
LEMMA AcceptedPartitioner ==
  ASSUME TypeOK, CommandsInv, Accepted, Partitioner
  PROVE  Accepted'
<1> USE DEF driver, manager, Whole, GPU
<1>1. CASE Run \/ CheckMode
  BY <1>1 DEF Accepted, Run, CheckMode
<1>2. CASE EnableMigMode
  <2>1. mig' \in {mig, GPU} /\ mig \subseteq GPU /\ pc' \in {"idle", "check"}
    BY <1>2 DEF EnableMigMode, TypeOK
  <2>2. UNCHANGED <<config, gis, cis, want, manager>>
    BY <1>2 DEF EnableMigMode
  <2>3. gis' \subseteq Desired(config', mig')
    BY <2>1, <2>2 DEF Accepted, Desired
  <2> QED  BY <2>1, <2>2, <2>3 DEF Accepted
<1>3. CASE CheckPartitions
  <2>1. config \in Parsable => (pc' = "dci" => gis # Whole)
    BY <1>3, WholeIsDesired DEF CheckPartitions, Accepted, TypeOK
  <2>2. config \notin Parsable => pc' # "done"
    BY <1>3, UnparsableIsNotDesired DEF CheckPartitions, Accepted
  <2>3. pc' \in {"done", "dci"} /\ UNCHANGED <<config, driver, want, manager>>
    BY <1>3 DEF CheckPartitions
  <2> QED  BY <2>1, <2>2, <2>3 DEF Accepted
<1>4. CASE DestroyComputeInstances \/ DestroyGPUInstances
             \/ CreateGPUInstances \/ CreateComputeInstances
  <2>1. UNCHANGED <<config, mig, want, manager>> /\ pc' # "dci"
    BY <1>4 DEF DestroyComputeInstances, DestroyGPUInstances, CreateGPUInstances,
       CreateComputeInstances
  <2>2. ~(plugin = "started" /\ config \in Parsable)
    BY <1>4, NoCommandAtWork DEF DestroyComputeInstances, DestroyGPUInstances,
       CreateGPUInstances, CreateComputeInstances
  <2>3. CASE DestroyComputeInstances \/ DestroyGPUInstances
    <3>1. gis' \subseteq gis /\ pc' \in {"dgi", "cgi"}
      BY <2>3 DEF DestroyComputeInstances, DestroyGPUInstances
    <3> QED  BY <2>1, <2>2, <3>1 DEF Accepted
  <2>4. CASE CreateGPUInstances
    <3>1. gis' = Desired(config, mig) /\ pc' = "cci"
      BY <2>4 DEF CreateGPUInstances, CommandsInv, Accepted
    <3> QED  BY <2>1, <2>2, <3>1 DEF Accepted
  <2>5. CASE CreateComputeInstances
    BY <2>1, <2>2, <2>5 DEF CreateComputeInstances, Accepted
  <2> QED  BY <1>4, <2>3, <2>4, <2>5
<1> QED  BY <1>1, <1>2, <1>3, <1>4 DEF Partitioner

\* The steps of the plugin: it starts with the whole or not at all.
LEMMA AcceptedPlugin ==
  ASSUME TypeOK, Accepted, Plugin
  PROVE  Accepted'
<1> USE DEF driver, partitioner, GPU
<1>1. CASE PluginStarts
  BY <1>1 DEF Accepted, PluginStarts, Whole
<1>2. CASE ManagerStart
  <2>1. config \in Size /\ ManagerMaxCount[config] = MaxCount[config]
    BY <1>2, PartitionerAssumption DEF ManagerStart, Accepted, TypeOK
  <2>2. gis \in SUBSET Desired(config, GPU)
    BY DEF Accepted, TypeOK, Desired
  <2>3. \A g \in GPU : Cardinality(OnGPU(gis, g)) = MaxCount[config]
    BY <1>2, <2>1 DEF ManagerStart, Accepted
  <2>4. gis = Whole
    BY <2>1, <2>2, <2>3, FullIsWhole DEF Whole
  <2>5. mig = GPU
    BY <2>1, <2>4, WholeIsEverywhere DEF Accepted, Whole, TypeOK
  <2>6. /\ specs' = gis /\ gis = cis /\ plugin' = "started"
        /\ UNCHANGED <<config, driver, partitioner, pluginWant>>
    BY <1>2 DEF ManagerStart
  <2> QED  BY <2>4, <2>5, <2>6 DEF Accepted, Whole
<1>3. CASE ManagerStartFails
  BY <1>3 DEF Accepted, ManagerStartFails, Whole
<1> QED  BY <1>1, <1>2, <1>3 DEF Plugin

\* A command that fails half way had no plugin to harm, or one whose partitions
\* it cannot parse.
LEMMA AcceptedCommandFails ==
  ASSUME TypeOK, CommandsInv, Accepted, CommandFails
  PROVE  Accepted'
<1>1. pc' = "idle" /\ UNCHANGED <<config, want, manager>>
  BY DEF CommandFails
<1>2. mig \subseteq mig' /\ mig' \subseteq GPU
  BY DEF CommandFails, driver, TypeOK
<1>3. gis' \subseteq Desired(config, mig')
  <2>1. Desired(config, mig) \subseteq Desired(config, mig')
    BY <1>2 DEF Desired
  <2>2. CASE \E made \in SUBSET Desired(want, mig) : gis' = gis \cup made
    BY <2>1, <2>2 DEF Accepted
  <2>3. CASE gis' \subseteq gis
    BY <2>1, <2>3 DEF Accepted
  <2> QED  BY <2>2, <2>3 DEF CommandFails, driver
<1>4. plugin = "started" /\ config \in Parsable => UNCHANGED <<gis, cis>>
  BY NoCommandAtWork DEF CommandFails, driver
<1>5. plugin = "started" => mig' = GPU
  BY <1>2 DEF Accepted
<1> QED  BY <1>1, <1>3, <1>4, <1>5 DEF Accepted, manager, Whole, GPU

\* Pods that are created again, and reboots.
LEMMA AcceptedNode ==
  ASSUME TypeOK, Accepted,
         PartitionerPodRecreated \/ PluginPodRecreated \/ RequestedReboot \/ Reboot
  PROVE  Accepted'
<1>1. CASE PartitionerPodRecreated \/ PluginPodRecreated
  BY <1>1 DEF Accepted, PartitionerPodRecreated, PluginPodRecreated, driver,
     partitioner, manager, Whole, GPU
<1>2. CASE NodeReboots
  BY <1>2 DEF Accepted, NodeReboots
<1> QED  BY <1>1, <1>2 DEF RequestedReboot, Reboot

\* Every step keeps what was accepted.
LEMMA AcceptedStep ==
  ASSUME TypeOK, CommandsInv, AcceptedInv, [Next]_vars
  PROVE  AcceptedInv'
<1> SUFFICES ASSUME ListedAndConfiguredOnce' PROVE Accepted'
  BY DEF AcceptedInv, Accepted
<1>1. Accepted /\ ~ConfigChanges /\ ~CheckPartitionsFails
  BY StillOnce DEF AcceptedInv, Accepted
<1>2. CASE Partitioner
  BY <1>1, <1>2, AcceptedPartitioner
<1>3. CASE Plugin
  BY <1>1, <1>3, AcceptedPlugin
<1>4. CASE CommandFails
  BY <1>1, <1>4, AcceptedCommandFails
<1>5. CASE PartitionerPodRecreated \/ PluginPodRecreated \/ RequestedReboot \/ Reboot
  BY <1>1, <1>5, AcceptedNode
<1>6. CASE UNCHANGED vars
  BY <1>1, <1>6 DEF Accepted, vars, driver, partitioner, manager, Whole, GPU
<1> QED  BY <1>1, <1>2, <1>3, <1>4, <1>5, <1>6 DEF Next, Environment

\* At first nothing is accepted.
LEMMA AcceptedInit == Init => AcceptedInv
BY DEF Init, AcceptedInv, Whole, Desired

\* The whole inductive invariant, for sizes that parseLGIOutput can read and for
\* those that it cannot, and for sizes that the manager's table lacks.
THEOREM PartitionerIInv == Spec => []IInv
<1>1. Init => IInv
  BY TypeInit, CommandsInit, AcceptedInit DEF IInv
<1>2. IInv /\ [Next]_vars => IInv'
  BY TypeStep, CommandsStep, AcceptedStep DEF IInv
<1> QED  BY <1>1, <1>2, PTL DEF Spec

\* Partitions that a started plugin can allocate are never pulled from under
\* it by a partitioner that fails, is killed and runs again any number of
\* times, as long as the size stays, nvidia-smi -lgi answers and its lines of
\* that size can be parsed; if they cannot, the partitions are pulled, and are
\* all there again whenever the partitioner is done.
THEOREM AcceptedPartitionsExist == Spec => []AllocatablePartitionsExist
<1>1. IInv => AllocatablePartitionsExist
  BY DEF IInv, AcceptedInv, AllocatablePartitionsExist, Whole
<1> QED  BY <1>1, PartitionerIInv, PTL
=============================================================================

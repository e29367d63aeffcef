--------------------------- MODULE GpuPartitioner ----------------------------
(***************************************************************************)
(* The init container partition_gpu, which cuts the GPUs of a node into    *)
(* MIG partitions of the configured size, and mig.DeviceManager.Start of   *)
(* the device plugin, which retries until it finds them.  Both read the    *)
(* same gpu_config.json; they meet only in the driver.  Every nvidia-smi   *)
(* command may fail half way through its GPUs, the container may be killed *)
(* between any two of them, and is then run again from the top.            *)
(*                                                                         *)
(* parseLGIOutput cannot read a profile whose name has a + or a - in it,   *)
(* as 1g.24gb+me, 2g.48gb+gfx and 1g.24gb-me have.  GPUs that are cut into *)
(* such partitions look empty to it, and every run of the container cuts   *)
(* them again, under a plugin that may have accepted the partitions.       *)
(***************************************************************************)
EXTENDS Integers, FiniteSets

CONSTANTS
  NumGPUs,           \* GPU 1 is the first line of nvidia-smi
  Size,              \* partition sizes
  MaxCount,          \* partitionSizeMaxCount
  ManagerMaxCount,   \* gpuPartitionSizeMaxCount; 0 for a size it lacks
  Parsable,          \* sizes whose profile name dataLineRegex matches
  Ampere,            \* A100: MIG mode takes effect, and stays, with a reboot
  MaxConfigs,        \* bound: changes of gpu_config.json
  MaxFailures,       \* bound: failing commands and killed containers
  MaxListFailures,   \* bound: failures of nvidia-smi mig -lgi alone
  MaxRuns,           \* bound: pods that are created again
  MaxReboots         \* bound: reboots nobody asked for

GPU == 1 .. NumGPUs

\* The tables of the partitioner and of the manager hold the same numbers, and
\* the manager's has no entry for two of the sizes (4g.20gb and 4g.40gb).
ASSUME PartitionerAssumption ==
  /\ NumGPUs \in Nat \ {0}
  /\ MaxCount \in [Size -> Nat \ {0}]
  /\ ManagerMaxCount \in [Size -> Nat]
  /\ \A s \in Size : ManagerMaxCount[s] \in {0, MaxCount[s]}
  /\ Parsable \subseteq Size
  /\ Ampere \in BOOLEAN
  /\ {MaxConfigs, MaxFailures, MaxListFailures, MaxRuns, MaxReboots} \subseteq Nat

VARIABLES
  config,       \* the size in gpu_config.json
  \* the driver
  mig,          \* GPUs in MIG mode
  migNext,      \* GPUs that are to be in MIG mode after a reboot
  gis,          \* GPU instances
  cis,          \* those of them that have a compute instance
  \* the partitioner
  pc,           \* what it does next
  want,         \* the size it has read
  rebooting,    \* it has asked systemd for a reboot
  \* the device plugin
  plugin,       \* "down", "starting" (Start is retried) or "started"
  pluginWant,   \* the size it has read
  partitions,   \* keys of gpuPartitions: what it advertises
  specs,        \* keys of gpuPartitionSpecs: what it can allocate
  left          \* what is left of the bounds

driver      == <<mig, migNext, gis, cis>>
partitioner == <<pc, want, rebooting>>
manager     == <<plugin, pluginWant, partitions, specs>>
vars        == <<config, driver, partitioner, manager, left>>

\* The i-th instance of a size on a GPU: sizes fix IDs and minor numbers.
Instance ==
  UNION {{<<g, s, i>> : g \in GPU, i \in 1 .. MaxCount[s]} : s \in Size}
OnGPU(set, g) == {x \in set : x[1] = g}

\* What createGPUPartitions is to leave behind: buildPartitionStr repeats the
\* profile as often as it fits.
Desired(size, gpus) == {x \in Instance : x[1] \in gpus /\ x[2] = size}

TypeOK ==
  /\ config \in Size
  /\ mig \in SUBSET GPU
  /\ migNext \in SUBSET GPU
  /\ gis \in SUBSET Instance
  /\ cis \in SUBSET gis
  /\ pc \in {"idle", "mode", "enable", "check", "dci", "dgi", "cgi", "cci", "done"}
  /\ want \in Size
  /\ rebooting \in BOOLEAN
  /\ plugin \in {"down", "starting", "started"}
  /\ pluginWant \in Size
  /\ partitions \in SUBSET Instance
  /\ specs \in SUBSET Instance
  /\ left \in [configs : Nat, failures : Nat, lists : Nat, runs : Nat, reboots : Nat]

Init ==
  /\ config \in Size
  /\ mig = {} /\ migNext = {} /\ gis = {} /\ cis = {}
  /\ pc = "idle"
  /\ want = config
  /\ rebooting = FALSE
  /\ plugin = "down"
  /\ pluginWant = config
  /\ partitions = {} /\ specs = {}
  /\ left = [configs |-> MaxConfigs, failures |-> MaxFailures,
             lists |-> MaxListFailures, runs |-> MaxRuns, reboots |-> MaxReboots]

-----------------------------------------------------------------------------
(***************************************************************************)
(* partition_gpu, main: each command in its order.                         *)
(***************************************************************************)

Run ==
  /\ pc = "idle"
  /\ want' = config
  /\ pc' = "mode"
  /\ UNCHANGED <<config, driver, rebooting, manager, left>>

\* currentMigMode looks at the prefix of the output: the first GPU's line.
CheckMode ==
  /\ pc = "mode"
  /\ pc' = IF 1 \in mig THEN "check" ELSE "enable"
  /\ UNCHANGED <<config, driver, want, rebooting, manager, left>>

\* (Mutated: the reboot comes before MIG mode is enabled.)
EnableMigModeTooLate ==
  /\ pc = "enable"
  /\ rebooting' = TRUE
  /\ pc' = "idle"
  /\ UNCHANGED <<config, driver, want, manager, left>>

\* enableMigMode, and rebootNode where the mode needs it.
EnableMigMode ==
  /\ pc = "enable"
  /\ migNext' = GPU
  /\ IF Ampere
     THEN rebooting' = TRUE /\ pc' = "idle" /\ UNCHANGED mig
     ELSE mig' = GPU /\ pc' = "check" /\ UNCHANGED rebooting
  /\ UNCHANGED <<config, gis, cis, want, manager, left>>

\* parseLGIOutput sees the lines that its expression matches: the name of a
\* profile has no + and no - there.  checkDesired compares numbers, on the
\* GPUs that have a line.
Listed == {x \in gis : x[2] \in Parsable}

CheckDesired ==
  /\ Listed # {}
  /\ \A x, y \in Listed : x[2] = y[2]
  /\ \A g \in {x[1] : x \in Listed} :
       Cardinality(OnGPU(Listed, g)) = MaxCount[want]

CheckPartitions ==
  /\ pc = "check"
  /\ pc' = IF CheckDesired THEN "done" ELSE "dci"
  /\ UNCHANGED <<config, driver, want, rebooting, manager, left>>

\* A failure to list counts as a mismatch.
CheckPartitionsFails ==
  /\ pc = "check"
  /\ left.lists > 0
  /\ pc' = "dci"
  /\ left' = [left EXCEPT !.lists = @ - 1]
  /\ UNCHANGED <<config, driver, want, rebooting, manager>>

\* (Mutated: the GPU instances are destroyed first.)
DestroyComputeInstancesLater ==
  /\ pc = "dci"
  /\ pc' = "dgi"
  /\ UNCHANGED <<config, driver, want, rebooting, manager, left>>

DestroyComputeInstances ==
  /\ pc = "dci"
  /\ cis' = {}
  /\ pc' = "dgi"
  /\ UNCHANGED <<config, mig, migNext, gis, want, rebooting, manager, left>>

\* (Mutated: instances that cannot be destroyed are left where they are.)
DestroyGPUInstancesOrNot ==
  /\ pc = "dgi"
  /\ gis' \in SUBSET gis
  /\ pc' = "cgi"
  /\ UNCHANGED <<config, mig, migNext, cis, want, rebooting, manager, left>>

DestroyGPUInstances ==
  /\ pc = "dgi"
  /\ gis' = {}
  /\ pc' = "cgi"
  /\ UNCHANGED <<config, mig, migNext, cis, want, rebooting, manager, left>>

\* (Mutated: one profile too few in the list.)
CreateGPUInstancesOneFewer ==
  /\ pc = "cgi"
  /\ gis' = gis \cup {x \in Desired(want, mig) : x[3] < MaxCount[want]}
  /\ pc' = "cci"
  /\ UNCHANGED <<config, mig, migNext, cis, want, rebooting, manager, left>>

\* nvidia-smi mig -cgi works through the GPUs that are in MIG mode.
CreateGPUInstances ==
  /\ pc = "cgi"
  /\ gis' = gis \cup Desired(want, mig)
  /\ pc' = "cci"
  /\ UNCHANGED <<config, mig, migNext, cis, want, rebooting, manager, left>>

CreateComputeInstances ==
  /\ pc = "cci"
  /\ cis' = gis
  /\ pc' = "done"
  /\ UNCHANGED <<config, mig, migNext, gis, want, rebooting, manager, left>>

\* A command fails, or the container is killed in the middle of it: what it
\* had done by then stays done, and the container is run again.  (An output
\* with "No GPU instances found" excuses the failure of -dci and -dgi; that
\* nvidia-smi writes it only when there is nothing to destroy is assumed.)
CommandFails ==
  /\ pc \notin {"idle", "done"}
  /\ left.failures > 0
  /\ \/ UNCHANGED driver
     \/ pc = "enable" /\ UNCHANGED <<gis, cis>>
          /\ \E on \in SUBSET GPU : /\ migNext' = migNext \cup on
                                    /\ mig' = IF Ampere THEN mig ELSE mig \cup on
     \/ pc = "dci" /\ cis' \in SUBSET cis /\ UNCHANGED <<mig, migNext, gis>>
     \/ pc = "dgi" /\ gis' \in SUBSET gis /\ UNCHANGED <<mig, migNext, cis>>
     \/ pc = "cgi" /\ UNCHANGED <<mig, migNext, cis>>
          /\ \E made \in SUBSET Desired(want, mig) : gis' = gis \cup made
     \/ pc = "cci" /\ cis' \in SUBSET gis /\ UNCHANGED <<mig, migNext, gis>>
  /\ pc' = "idle"
  /\ left' = [left EXCEPT !.failures = @ - 1]
  /\ UNCHANGED <<config, want, rebooting, manager>>

-----------------------------------------------------------------------------
(***************************************************************************)
(* The device plugin.  DiscoverAndMountMIGDevices takes milliseconds, an   *)
(* nvidia-smi command seconds: it is one step here.                        *)
(***************************************************************************)

PluginStarts ==
  /\ plugin = "down"
  /\ plugin' = "starting"
  /\ pluginWant' = config
  /\ partitions' = {} /\ specs' = {}
  /\ UNCHANGED <<config, driver, partitioner, left>>

\* (Mutated: a partition does not need its compute instance.)
ManagerStartWithoutCI ==
  /\ plugin = "starting"
  /\ ManagerMaxCount[pluginWant] > 0
  /\ \A g \in GPU : Cardinality(OnGPU(gis, g)) = ManagerMaxCount[pluginWant]
  /\ specs' = gis
  /\ partitions' = partitions \cup gis
  /\ plugin' = "started"
  /\ UNCHANGED <<config, driver, partitioner, pluginWant, left>>

\* Every instance has its access files, and every GPU its number of them.
ManagerStart ==
  /\ plugin = "starting"
  /\ ManagerMaxCount[pluginWant] > 0
  /\ gis = cis
  /\ \A g \in GPU : Cardinality(OnGPU(gis, g)) = ManagerMaxCount[pluginWant]
  /\ specs' = gis
  /\ partitions' = partitions \cup gis
  /\ plugin' = "started"
  /\ UNCHANGED <<config, driver, partitioner, pluginWant, left>>

\* An attempt that fails keeps the partitions that it has come across.
ManagerStartFails ==
  /\ plugin = "starting"
  /\ ManagerMaxCount[pluginWant] > 0
  /\ \/ gis # cis
     \/ \E g \in GPU : Cardinality(OnGPU(gis, g)) # ManagerMaxCount[pluginWant]
  /\ \E found \in SUBSET cis : /\ specs' = found
                              /\ partitions' = partitions \cup found
  /\ UNCHANGED <<config, driver, partitioner, plugin, pluginWant, left>>

-----------------------------------------------------------------------------
(***************************************************************************)
(* The node.                                                               *)
(***************************************************************************)

ConfigChanges ==
  /\ left.configs > 0
  /\ config' \in Size \ {config}
  /\ left' = [left EXCEPT !.configs = @ - 1]
  /\ UNCHANGED <<driver, partitioner, manager>>

\* A DaemonSet pod is created again: its init container runs again.
PartitionerPodRecreated ==
  /\ pc = "done"
  /\ left.runs > 0
  /\ pc' = "idle"
  /\ left' = [left EXCEPT !.runs = @ - 1]
  /\ UNCHANGED <<config, driver, want, rebooting, manager>>

PluginPodRecreated ==
  /\ plugin # "down"
  /\ left.runs > 0
  /\ plugin' = "down"
  /\ left' = [left EXCEPT !.runs = @ - 1]
  /\ UNCHANGED <<config, driver, partitioner, pluginWant, partitions, specs>>

\* Instances are gone after a reboot; MIG mode stays on A100 only.
NodeReboots ==
  /\ mig' = IF Ampere THEN migNext ELSE {}
  /\ migNext' = IF Ampere THEN migNext ELSE {}
  /\ gis' = {} /\ cis' = {}
  /\ pc' = "idle"
  /\ rebooting' = FALSE
  /\ plugin' = "down"
  /\ UNCHANGED <<config, want, pluginWant, partitions, specs>>

RequestedReboot == rebooting /\ NodeReboots /\ UNCHANGED left

Reboot ==
  /\ left.reboots > 0
  /\ NodeReboots
  /\ left' = [left EXCEPT !.reboots = @ - 1]

-----------------------------------------------------------------------------
Partitioner ==
  \/ Run \/ CheckMode \/ EnableMigMode \/ CheckPartitions
  \/ DestroyComputeInstances \/ DestroyGPUInstances
  \/ CreateGPUInstances \/ CreateComputeInstances

Plugin == PluginStarts \/ ManagerStart \/ ManagerStartFails

Environment ==
  \/ CheckPartitionsFails \/ CommandFails
  \/ ConfigChanges \/ PartitionerPodRecreated \/ PluginPodRecreated
  \/ RequestedReboot \/ Reboot

Next == Partitioner \/ Plugin \/ Environment

\* The container is run until it succeeds, Start is retried, systemd reboots.
Fairness ==
  /\ WF_vars(Partitioner)
  /\ WF_vars(PluginStarts) /\ WF_vars(ManagerStart)
  /\ WF_vars(RequestedReboot)

Spec     == Init /\ [][Next]_vars
FairSpec == Spec /\ Fairness

-----------------------------------------------------------------------------
(***************************************************************************)
(* Properties.                                                             *)
(***************************************************************************)

\* Nothing but commands that fail, dead containers and reboots has happened.
ListedAndConfiguredOnce ==
  left.lists = MaxListFailures /\ left.configs = MaxConfigs

\* What the plugin can allocate has its GPU and its compute instance, however
\* the partitioner fails and is run again next to a plugin that has started:
\* partitions that a plugin has accepted are left alone.  Those of a size that
\* cannot be parsed are not: a run destroys them and makes them again, and the
\* promise is that they exist whenever the partitioner is done.
AllocatablePartitionsExist ==
  /\ ListedAndConfiguredOnce
  /\ plugin = "started"
  /\ config \in Parsable \/ pc = "done"
  => specs \subseteq cis

\* Whatever is left over of an earlier size is gone before instances of the
\* next one are made: the GPUs never hold a mixture.
InstancesAreUniform == \A x, y \in gis : x[2] = y[2]

(***************************************************************************)
(* The inductive strengthening of the two invariants.                      *)
(***************************************************************************)

\* main goes on from a command only when it has done all of its work.
CommandsInv ==
  /\ pc \in {"dgi", "cgi", "cci"} => cis = {}
  /\ pc = "cgi" => gis = {}
  /\ left.lists <= MaxListFailures /\ left.configs <= MaxConfigs
  /\ InstancesAreUniform

Whole == Desired(config, GPU)

\* Partitions that a plugin has accepted are all that were asked for; then no
\* run of the partitioner finds anything to destroy if it can parse their
\* size, and otherwise it is done only when it has made all of them again.
AcceptedInv ==
  ListedAndConfiguredOnce =>
    /\ want = config /\ pluginWant = config
    /\ gis \subseteq Desired(config, mig)
    /\ pc = "dci" /\ config \in Parsable => gis # Whole
    /\ pc = "cci" => gis = Desired(config, mig)
    /\ pc = "done" /\ config \notin Parsable =>
         gis = Desired(config, mig) /\ cis = gis
    /\ plugin = "started" => mig = GPU /\ specs = Whole
    /\ plugin = "started" /\ config \in Parsable => gis = Whole /\ cis = Whole

IInv == TypeOK /\ CommandsInv /\ AcceptedInv

(***************************************************************************)
(* Liveness.                                                               *)
(***************************************************************************)

\* The partitioner and its reboots come to an end, after any failures.
PartitionerFinishes == <>[](pc = "done")

\* On a node where nothing fails the plugin ends up with every partition, of
\* any size that is in its table.
PluginGetsItsPartitions ==
  <>[](/\ ListedAndConfiguredOnce /\ left.failures = MaxFailures
       /\ ManagerMaxCount[config] > 0
       => plugin = "started" /\ partitions = Whole)

\* "Current GPU partition configuration matches the desired state. No changes
\* needed.", or the partitions have been created.
DoneMeansDesired == pc = "done" => cis = Desired(want, GPU)
=============================================================================

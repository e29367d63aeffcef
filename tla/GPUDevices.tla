----------------------------- MODULE GPUDevices -----------------------------
(***************************************************************************)
(* The device tables of the plugin and the pure operations on them.        *)
(*                                                                         *)
(* ngm.devices (a map from the name of a GPU, nvidia0, to its health) and  *)
(* the table of partitions of the MIG device manager (nvidia0/gi1) are one *)
(* function here, from every name the node could ever use to the health    *)
(* recorded for it, or Absent when the map has no such key.  A virtual     *)
(* device ID (nvidia0/vgpu1) is the pair of its physical device and its    *)
(* number.  Topology hints and mount paths are left out.                   *)
(***************************************************************************)
EXTENDS Integers, FiniteSets

CONSTANTS
  GPU,                      \* names of the GPUs the node can have
  Partition,                \* names of their MIG partitions
  Parent,                   \* Parent[p]: the GPU a partition belongs to
  Partitioned,              \* GPUPartitionSize # "" in the GPU config
  GPUSharingStrategy,       \* "", "time-sharing" or "mps"
  MaxSharedClientsPerGPU    \* clients that may share one physical device

\* What GPUConfig.AddDefaultsAndValidate guarantees of a config it accepts.
ASSUME ConfigAssumption ==
  /\ GPU \cap Partition = {}
  /\ Parent \in [Partition -> GPU]
  /\ Partitioned \in BOOLEAN
  /\ GPUSharingStrategy \in {"", "time-sharing", "mps"}
  /\ MaxSharedClientsPerGPU \in Nat
  /\ MaxSharedClientsPerGPU > 0 <=> GPUSharingStrategy # ""

Device == GPU \cup Partition

Absent    == "absent"
Healthy   == "Healthy"
Unhealthy == "Unhealthy"
Status    == {Absent, Healthy, Unhealthy}

Table   == [Device -> Status]
NoTable == [d \in Device |-> Absent]

-----------------------------------------------------------------------------
(***************************************************************************)
(* Device IDs as the kubelet sees them.                                    *)
(***************************************************************************)

\* The names that can be advertised: partitions with MIG, whole GPUs without.
Physical == IF Partitioned THEN Partition ELSE GPU

Shared == MaxSharedClientsPerGPU > 0

VirtualID == Physical \X (0 .. MaxSharedClientsPerGPU - 1)

DeviceID == IF Shared THEN VirtualID ELSE Physical

IsVirtualDeviceID(id) == Shared /\ id \in VirtualID

VirtualToPhysicalDeviceID(id) == id[1]

\* The physical device behind an advertised ID.
PhysicalOf(id) == IF Shared THEN VirtualToPhysicalDeviceID(id) ELSE id

\* A report to the kubelet: the health of each ID, Absent when it is not listed.
Report   == [DeviceID -> Status]
NoReport == [id \in DeviceID |-> Absent]

ListPhysicalDevices(table) == {d \in Physical : table[d] # Absent}

\* (Mutated: sharing forgotten.)
ListDeviceUnshared(report, table, d) ==
  [id \in DeviceID \cup {d} |-> IF id = d THEN table[d] ELSE report[id]]

\* One round of the range over the table in ListDevices, or in sendDevices
\* when no device is shared: a virtual device inherits the health of the
\* physical device behind it.
ListDevice(report, table, d) ==
  [id \in DeviceID |-> IF PhysicalOf(id) = d THEN table[d] ELSE report[id]]

\* What a list holds when nobody writes the table meanwhile.
ListDevices(table) == [id \in DeviceID |-> table[PhysicalOf(id)]]

-----------------------------------------------------------------------------
(***************************************************************************)
(* Operations on the tables.                                               *)
(***************************************************************************)

SetDeviceHealth(table, d, health) == [table EXCEPT ![d] = health]

\* discoverGPUs marks every GPU that NVML lists Healthy, the known ones too.
DiscoverGPUs(table, listed) ==
  [d \in Device |-> IF d \in listed THEN Healthy ELSE table[d]]

\* mig.DeviceManager.Start enters the partitions of the GPUs as Healthy.
DiscoverPartitions(table, listed) ==
  [d \in Device |->
     IF d \in Partition /\ Parent[d] \in listed THEN Healthy ELSE table[d]]

\* (Mutated: one GPU more than the comparison asks for.)
HasTwoAdditionalGPUs(table, files) ==
  Cardinality(files) > Cardinality({g \in GPU : table[g] # Absent}) + 1

\* hasAdditionalGPUsInstalled compares two counts, never the names.
HasAdditionalGPUs(table, files) ==
  Cardinality(files) > Cardinality({g \in GPU : table[g] # Absent})

-----------------------------------------------------------------------------
(***************************************************************************)
(* Allocation.                                                             *)
(***************************************************************************)

\* (Mutated: two GPUs still count as one.)
ValidateRequestTwoGPUs(ids, deviceCount) ==
  Cardinality(ids) > 1 /\ (\E id \in ids : IsVirtualDeviceID(id)) =>
    /\ GPUSharingStrategy # "time-sharing"
    /\ GPUSharingStrategy = "mps" => deviceCount <= 2

\* gpusharing.ValidateRequest, for a set of requested IDs.
ValidateRequest(ids, deviceCount) ==
  Cardinality(ids) > 1 /\ (\E id \in ids : IsVirtualDeviceID(id)) =>
    /\ GPUSharingStrategy # "time-sharing"
    /\ GPUSharingStrategy = "mps" => deviceCount <= 1

\* (Mutated: the health of a whole GPU is not looked at either.)
DeviceSpecAnyHealth(table, id) == table[PhysicalOf(id)] # Absent

\* DeviceSpec returns no error.  The MIG manager only asks that it exists.
DeviceSpecOK(table, id) ==
  IF Partitioned THEN table[PhysicalOf(id)] # Absent
                 ELSE table[PhysicalOf(id)] = Healthy
=============================================================================

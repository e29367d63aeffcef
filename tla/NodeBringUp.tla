----------------------------- MODULE NodeBringUp -----------------------------
(***************************************************************************)
(* How a node comes to serve its GPUs: the driver installer (a script in   *)
(* an init container), the main program of the device plugin, which waits  *)
(* for what the installer leaves behind, and on confidential nodes the     *)
(* sidecar nvidia-persistenced-installer.                                  *)
(*                                                                         *)
(* They meet in the kernel, in /dev and on the disk only.  A container is  *)
(* killed or fails at any point and is run again from the top; the node    *)
(* reboots at any point, with another kernel or without.                   *)
(***************************************************************************)
EXTENDS Integers

CONSTANTS
  Platforms,         \* kinds of node: "ubuntu", "minikube", "confidential"
  MaxKernel,         \* bound: kernels are 1 .. MaxKernel, in order of release
  Release,           \* Release[k]: the kernel that x.y of a version x.y.z names
  MaxDriver,         \* bound: driver versions are 1 .. MaxDriver
  Rollback,          \* a kernel or a driver may follow a later one
  Absent, Torn,      \* no cache file; an empty one
  MaxFailures,       \* bound: failing commands and killed containers
  MaxReboots,        \* bound: reboots nobody asked for
  MaxUpdates         \* bound: changes of the driver version that is asked for

Kernel  == 1 .. MaxKernel
Driver  == 1 .. MaxDriver
Version == [kernel : Kernel, driver : Driver]

ASSUME BringUpAssumption ==
  /\ Platforms \subseteq {"ubuntu", "minikube", "confidential"}
  /\ MaxKernel \in Nat \ {0} /\ MaxDriver \in Nat \ {0}
  /\ Release \in [Kernel -> Kernel]
  /\ \A j, k \in Kernel : j <= k => Release[j] <= Release[k]
  /\ Rollback \in BOOLEAN
  /\ {Absent, Torn} \cap Version = {}
  /\ {MaxFailures, MaxReboots, MaxUpdates} \subseteq Nat

VARIABLES
  platform,     \* what kind of node this is
  kernel,       \* the running kernel
  wanted,       \* NVIDIA_DRIVER_VERSION of the DaemonSet
  \* the disk
  cache,        \* CACHE_FILE: the versions it names, Absent or Torn
  files,        \* drivers and libraries in the installation directory
  typeFile,     \* confidential_node_type.txt names a confidential type
  \* the kernel's modules and /dev
  modules,      \* how many of nvidia, nvidia_uvm, nvidia_drm are loaded
  loaded,       \* their version, or 0
  devNodes,     \* nvidiactl and nvidia-uvm exist
  visible,      \* nvidia-smi finds the GPU
  rebooting,    \* init has been sent the signal to reboot
  \* programs
  ipc,          \* the installer
  main,         \* the device plugin
  publishing,   \* its goroutine that publishes the driver version
  published,    \* the annotation driver-version.full of the node, or 0
  ppc,          \* nvidia-persistenced-installer
  daemon,       \* nvidia-persistenced runs, in its container
  ready,        \* the GPU is in the ready state
  left          \* what is left of the bounds

node      == <<platform, kernel, wanted, rebooting>>
disk      == <<cache, files, typeFile>>
device    == <<modules, loaded, devNodes, visible>>
plugin    == <<main, publishing, published>>
sidecar   == <<ppc, daemon, ready>>
vars      == <<node, disk, device, ipc, plugin, sidecar, left>>

\* nvidia, nvidia_uvm and nvidia_drm: how many of them the script inserts.
NumModules == IF platform = "minikube" THEN 3 ELSE 2

TypeOK ==
  /\ platform \in {"ubuntu", "minikube", "confidential"}
  /\ kernel \in Kernel
  /\ wanted \in Driver
  /\ cache \in Version \cup {Absent, Torn}
  /\ files \in Version \cup {Absent, Torn}
  /\ typeFile \in BOOLEAN
  /\ modules \in 0 .. 3
  /\ loaded \in Driver \cup {0}
  /\ devNodes \in BOOLEAN /\ visible \in BOOLEAN /\ rebooting \in BOOLEAN
  /\ daemon \in BOOLEAN /\ ready \in BOOLEAN
  /\ ipc \in {"check", "prepare", "install", "cache", "insmod", "verify",
              "ldcache", "done"}
  /\ main \in {"paths", "nvml", "start", "options", "serve"}
  /\ publishing \in {"no", "running", "done", "failed"}
  /\ published \in Driver \cup {0}
  /\ ppc \in {"off", "start", "daemon", "ready", "blocked"}
  /\ left \in [failures : Nat, reboots : Nat, updates : Nat]

Init ==
  /\ platform \in Platforms
  /\ kernel = 1 /\ wanted = 1
  /\ cache = Absent /\ files = Absent /\ typeFile = FALSE
  /\ modules = 0 /\ loaded = 0
  /\ devNodes = FALSE /\ visible = TRUE /\ rebooting = FALSE
  /\ ipc = "check"
  /\ main = "paths" /\ publishing = "no" /\ published = 0
  /\ ppc = "off" /\ daemon = FALSE /\ ready = FALSE
  /\ left = [failures |-> MaxFailures, reboots |-> MaxReboots,
             updates |-> MaxUpdates]

Fail == left.failures > 0 /\ left' = [left EXCEPT !.failures = @ - 1]

-----------------------------------------------------------------------------
(***************************************************************************)
(* entrypoint.sh on Ubuntu and minikube.                                   *)
(***************************************************************************)

Scripted == platform # "confidential"

\* fix_kernel_version, on minikube: x.y.z-something becomes x.y.
KernelVersion == IF platform = "minikube" THEN Release[kernel] ELSE kernel

Current == [kernel |-> KernelVersion, driver |-> wanted]

\* (Mutated: the kernel alone is compared.)
CheckCachedKernel ==
  /\ ipc = "check" /\ Scripted
  /\ cache # Torn
  /\ ipc' = IF cache # Absent /\ cache.kernel = KernelVersion THEN "insmod" ELSE "prepare"
  /\ UNCHANGED <<node, disk, device, plugin, sidecar, left>>

\* check_cached_version.  A cache file without its two lines leaves variables
\* unset, which set -u turns into the end of the script, now and ever after.
CheckCachedVersion ==
  /\ ipc = "check" /\ Scripted
  /\ cache # Torn
  /\ ipc' = IF cache = Current THEN "insmod" ELSE "prepare"
  /\ UNCHANGED <<node, disk, device, plugin, sidecar, left>>

\* (Mutated: the cache file is written before the files it is about.)
PrepareAndUpdateCache ==
  /\ ipc = "prepare"
  /\ ipc' = "install" /\ cache' = Current
  /\ UNCHANGED <<node, files, typeFile, device, plugin, sidecar, left>>

\* Kernel sources, overlay mounts and the download stay in the container.
Prepare ==
  /\ ipc = "prepare"
  /\ ipc' = "install"
  /\ UNCHANGED <<node, disk, device, plugin, sidecar, left>>

Built == [kernel |-> kernel, driver |-> wanted]

\* The plugin holds the driver open from nvml.Init on.
InUse == main \in {"start", "options", "serve"}

\* (Mutated: loaded modules are never unloaded.)
RunInstallerOnce ==
  /\ ipc = "install"
  /\ IF modules > 0
     THEN ipc' = "check" /\ UNCHANGED <<files, modules, loaded>>
     ELSE files' = Built /\ modules' = 1 /\ loaded' = wanted /\ ipc' = "cache"
  /\ UNCHANGED <<node, cache, typeFile, devNodes, visible, plugin, sidecar, left>>

\* (Mutated: the installer does not mind a driver that is in use.)
RunInstallerAnyway ==
  /\ ipc = "install"
  /\ files' = Built /\ modules' = 1 /\ loaded' = wanted
  /\ ipc' = "cache"
  /\ UNCHANGED <<node, cache, typeFile, devNodes, visible, plugin, sidecar, left>>

\* NVIDIA's installer, which the script runs, unloads the modules first, refuses
\* while they are in use, and builds for the running kernel.  The refusal is the
\* external program's; its own steps are not told apart, but those that
\* InstallerFails interrupts.
RunInstaller ==
  /\ ipc = "install"
  /\ IF InUse
     THEN ipc' = "check" /\ UNCHANGED <<files, modules, loaded>>
     ELSE files' = Built /\ modules' = 1 /\ loaded' = wanted /\ ipc' = "cache"
  /\ UNCHANGED <<node, cache, typeFile, devNodes, visible, plugin, sidecar, left>>

UpdateCachedVersion ==
  /\ ipc = "cache"
  /\ cache' = Current
  /\ ipc' = "verify"
  /\ UNCHANGED <<node, files, typeFile, device, plugin, sidecar, left>>

\* The module files fit the kernel and the modules that it has already.
Loadable ==
  files \in Version /\ files.kernel = kernel /\ loaded \in {0, files.driver}

\* configure_cached_installation, one insmod after the other.
InsertModules ==
  /\ ipc = "insmod"
  /\ \/ modules >= NumModules /\ ipc' = "verify" /\ UNCHANGED <<modules, loaded>>
     \/ /\ modules < NumModules /\ Loadable
        /\ modules' = modules + 1 /\ loaded' = files.driver
        /\ UNCHANGED ipc
     \/ /\ modules < NumModules /\ ~Loadable
        /\ ipc' = "check" /\ UNCHANGED <<modules, loaded>>
  /\ UNCHANGED <<node, disk, devNodes, visible, plugin, sidecar, left>>

\* nvidia-smi and nvidia-modprobe, which loads nvidia_uvm if need be and makes
\* the device files.
Verified == devNodes' = TRUE /\ modules' = IF modules < 2 THEN 2 ELSE modules

VerifyInstallation ==
  /\ ipc = "verify"
  /\ Verified
  /\ ipc' = "ldcache"
  /\ UNCHANGED <<node, disk, loaded, visible, plugin, sidecar, left>>

UpdateHostLdCache ==
  /\ ipc = "ldcache"
  /\ ipc' = "done"
  /\ UNCHANGED <<node, disk, device, plugin, sidecar, left>>

\* A command fails or the container is killed, and is run again.  What is half
\* done stays so: files of two drivers, a cache file truncated and not written.
InstallerFails ==
  /\ ipc # "done" /\ Scripted
  /\ Fail
  /\ ipc' = "check"
  /\ \/ UNCHANGED <<files, cache, modules, loaded, devNodes>>
     \/ /\ ipc = "install" /\ ~InUse
        /\ files' \in {Torn, Built} /\ modules' = 0 /\ loaded' = 0
        /\ UNCHANGED <<cache, devNodes>>
     \/ /\ ipc = "cache" /\ cache' \in {Torn, Current}
        /\ UNCHANGED <<files, modules, loaded, devNodes>>
     \/ ipc = "verify" /\ Verified /\ UNCHANGED <<files, cache, loaded>>
  /\ UNCHANGED <<node, typeFile, visible, plugin, sidecar>>

-----------------------------------------------------------------------------
(***************************************************************************)
(* The installer and the sidecar of confidential nodes.  The sidecar is    *)
(* started when the installer is done.                                     *)
(***************************************************************************)

\* The script of the DaemonSet.  If the metadata server cannot be asked, it
\* neither installs a driver nor fails; it never replaces a loaded driver.
ConfidentialInstall ==
  /\ ipc = "check" /\ ~Scripted
  /\ typeFile' = TRUE
  /\ IF modules = 0
     THEN files' = Built /\ modules' = 2 /\ loaded' = wanted /\ devNodes' = TRUE
     ELSE UNCHANGED <<files, modules, loaded, devNodes>>
  /\ ipc' = "done"
  /\ UNCHANGED <<node, cache, visible, plugin, sidecar, left>>

\* The script fails or is killed, with as much done: what comes after insmod is
\* not made up for by the next run, which finds a module and leaves it at that.
ConfidentialInstallFails ==
  /\ ipc = "check" /\ ~Scripted
  /\ Fail
  /\ typeFile' \in {typeFile, TRUE}
  /\ \/ UNCHANGED <<files, modules, loaded>>
     \/ /\ modules = 0
        /\ files' \in {Torn, Built} /\ UNCHANGED <<modules, loaded>>
     \/ /\ modules = 0
        /\ files' = Built /\ modules' \in 1 .. 2 /\ loaded' = wanted
  /\ UNCHANGED <<node, cache, devNodes, visible, ipc, plugin, sidecar>>

ConfidentialInstallSkipped ==
  /\ ipc = "check" /\ ~Scripted
  /\ Fail
  /\ ipc' = "done"
  /\ UNCHANGED <<node, disk, device, plugin, sidecar>>

\* checkConfidentialGPUEnablement: without the file there is nothing to do, and
\* the container stays as it is.
CheckConfidentialGPUEnablement ==
  /\ ppc = "start"
  /\ ppc' = IF typeFile THEN "daemon" ELSE "blocked"
  /\ UNCHANGED <<node, disk, device, ipc, plugin, daemon, ready, left>>

\* enablePersistenceMode reads the version of the loaded module and exits when
\* there is none.
EnablePersistenceMode ==
  /\ ppc = "daemon"
  /\ daemon' = (modules > 0)
  /\ ppc' = IF modules > 0 THEN "ready" ELSE "start"
  /\ UNCHANGED <<node, disk, device, ipc, plugin, ready, left>>

\* (Mutated: any failure is answered by a reboot.)
SetGPUReadyStateOrReboot ==
  /\ ppc = "ready"
  /\ IF visible
     THEN ready' = TRUE /\ ppc' = "blocked" /\ UNCHANGED daemon
     ELSE ppc' = "start" /\ daemon' = FALSE /\ UNCHANGED ready
  /\ rebooting' = TRUE
  /\ UNCHANGED <<platform, kernel, wanted, disk, device, ipc, plugin, left>>

\* setGPUReadyState.  No device found: init is asked for a reboot, and the
\* container exits, with the daemon in it.
SetGPUReadyState ==
  /\ ppc = "ready"
  /\ IF visible
     THEN ready' = TRUE /\ ppc' = "blocked" /\ UNCHANGED <<daemon, rebooting>>
     ELSE ppc' = "start" /\ daemon' = FALSE /\ rebooting' = TRUE /\ UNCHANGED ready
  /\ UNCHANGED <<platform, kernel, wanted, disk, device, ipc, plugin, left>>

\* The container exits at any point or is killed; its children die with it.
SidecarFails ==
  /\ ppc # "off"
  /\ Fail
  /\ ppc' = "start" /\ daemon' = FALSE
  /\ UNCHANGED <<node, disk, device, ipc, plugin, ready>>

SidecarStarts ==
  /\ ~Scripted /\ ipc = "done" /\ ppc = "off"
  /\ ppc' = "start"
  /\ UNCHANGED <<node, disk, device, ipc, plugin, daemon, ready, left>>

-----------------------------------------------------------------------------
(***************************************************************************)
(* main of the device plugin, up to Serve.                                 *)
(***************************************************************************)

\* The process has ended and is run again from the top.
PluginRestarts == main' = "paths" /\ publishing' = "no" /\ UNCHANGED published

\* CheckDevicePaths, asked every five seconds.
CheckDevicePaths ==
  /\ main = "paths"
  /\ devNodes
  /\ main' = "nvml"
  /\ UNCHANGED <<node, disk, device, ipc, publishing, published, sidecar, left>>

\* (Mutated: libraries of the version that was asked for.)
NvmlInitWanted ==
  /\ main = "nvml"
  /\ IF loaded > 0 /\ loaded = wanted
     THEN main' = "start" /\ UNCHANGED <<publishing, published>>
     ELSE PluginRestarts
  /\ UNCHANGED <<node, disk, device, ipc, sidecar, left>>

\* nvml.Init wants libraries of the version of the module; else glog.Fatal.
NvmlInit ==
  /\ main = "nvml"
  /\ IF files \in Version /\ files.driver = loaded
     THEN main' = "start" /\ UNCHANGED <<publishing, published>>
     ELSE PluginRestarts
  /\ UNCHANGED <<node, disk, device, ipc, sidecar, left>>

\* Start is retried every five seconds: a try that fails changes nothing here,
\* and one succeeds in the end.
ManagerStart ==
  /\ main = "start"
  /\ main' = "options"
  /\ UNCHANGED <<node, disk, device, ipc, publishing, published, sidecar, left>>

\* The metrics server and the health checker have started; the driver version
\* is published beside Serve, by a goroutine.
Serve ==
  /\ main = "options"
  /\ main' = "serve" /\ publishing' = "running"
  /\ UNCHANGED <<node, disk, device, ipc, published, sidecar, left>>

\* (Mutated: the version that was asked for is published.)
PublishWantedVersion ==
  /\ publishing = "running"
  /\ publishing' = "done" /\ published' = wanted
  /\ UNCHANGED <<node, disk, device, ipc, main, sidecar, left>>

\* PublishDriverVersionAnnotations, with what NVML says.
PublishDriverVersion ==
  /\ publishing = "running"
  /\ publishing' = "done" /\ published' = loaded
  /\ UNCHANGED <<node, disk, device, ipc, main, sidecar, left>>

\* The API server cannot be reached, or only after ten seconds: no retry.
PublishFails ==
  /\ publishing = "running"
  /\ Fail
  /\ publishing' = "failed"
  /\ UNCHANGED <<node, disk, device, ipc, main, published, sidecar>>

\* The process dies, or main returns: a metrics server or a health checker
\* that does not start ends it.
PluginFails ==
  /\ main # "paths"
  /\ Fail
  /\ PluginRestarts
  /\ UNCHANGED <<node, disk, device, ipc, sidecar>>

-----------------------------------------------------------------------------
(***************************************************************************)
(* The node.                                                               *)
(***************************************************************************)

\* The pod of the DaemonSet is made anew, with a driver version or the same.
UpdateDaemonSet ==
  /\ left.updates > 0
  /\ left' = [left EXCEPT !.updates = @ - 1]
  /\ wanted' \in Driver
  /\ Rollback \/ wanted' >= wanted
  /\ ipc' = "check" /\ ppc' = "off" /\ daemon' = FALSE
  /\ UNCHANGED <<platform, kernel, rebooting, disk, device, plugin, ready>>

\* nvidia-smi stops finding the GPU, at any time, soon after a reboot too.
NoDevicesFound ==
  /\ Fail
  /\ visible' = FALSE
  /\ UNCHANGED <<node, disk, modules, loaded, devNodes, ipc, plugin, sidecar>>

\* The GPU can be found after a reboot, but for as many times as NoDevicesFound
\* has left: a GPU that no reboot brings back is not modelled.
NodeReboots ==
  /\ kernel' \in Kernel
  /\ Rollback \/ kernel' >= kernel
  /\ typeFile' \in {typeFile, FALSE}
  /\ modules' = 0 /\ loaded' = 0 /\ devNodes' = FALSE /\ visible' = TRUE
  /\ rebooting' = FALSE
  /\ ipc' = "check" /\ PluginRestarts
  /\ ppc' = "off" /\ daemon' = FALSE /\ ready' = FALSE
  /\ UNCHANGED <<platform, wanted, cache, files>>

RequestedReboot == rebooting /\ NodeReboots /\ UNCHANGED left

Reboot ==
  /\ left.reboots > 0
  /\ NodeReboots
  /\ left' = [left EXCEPT !.reboots = @ - 1]

-----------------------------------------------------------------------------
Installer ==
  \/ CheckCachedVersion \/ Prepare \/ RunInstaller \/ UpdateCachedVersion
  \/ InsertModules \/ VerifyInstallation \/ UpdateHostLdCache
  \/ ConfidentialInstall

Sidecar ==
  \/ SidecarStarts \/ CheckConfidentialGPUEnablement
  \/ EnablePersistenceMode \/ SetGPUReadyState

Plugin == CheckDevicePaths \/ NvmlInit \/ ManagerStart \/ Serve

Environment ==
  \/ InstallerFails \/ ConfidentialInstallFails \/ ConfidentialInstallSkipped
  \/ SidecarFails
  \/ PublishFails \/ PluginFails
  \/ UpdateDaemonSet \/ NoDevicesFound \/ RequestedReboot \/ Reboot

Next == Installer \/ Sidecar \/ Plugin \/ PublishDriverVersion \/ Environment

\* Containers are run again until they succeed, and init reboots when asked.
Fairness ==
  /\ WF_vars(Installer) /\ WF_vars(Sidecar) /\ WF_vars(Plugin)
  /\ WF_vars(PublishDriverVersion) /\ WF_vars(RequestedReboot)

Spec     == Init /\ [][Next]_vars
FairSpec == Spec /\ Fairness

-----------------------------------------------------------------------------
(***************************************************************************)
(* Properties.                                                             *)
(***************************************************************************)

\* "check if the cached driver matches currently running kernel version and
\* requested driver versions" (entrypoint.sh:40): an installer that is done,
\* over the cache or not, has the driver loaded that was asked for, however
\* often it was interrupted on the way.  It takes that neither kernels nor
\* drivers are rolled back: the cache file is not removed before files are
\* replaced.
InstalledAsRequested ==
  ~Rollback /\ Scripted /\ ipc = "done" => loaded = wanted /\ modules >= 2 /\ devNodes

\* A plugin that has called nvml.Init keeps, until it ends, the module and the
\* libraries it started with, both of one version: no run of an installer
\* beside it replaces either, none loads a module of another version.
PluginKeepsItsDriver ==
  [][InUse /\ InUse' =>
       files' = files /\ loaded' = loaded /\ files.driver = loaded]_vars

\* Once this process has published a version, the annotation tells the driver
\* that serves, over updates and reboots.
AnnotationIsTheDriver ==
  main = "serve" /\ publishing = "done" => published = loaded

(***************************************************************************)
(* The inductive strengthening of these.                                   *)
(***************************************************************************)

\* The files are those of the loaded module, except while nothing is loaded.
DriverInv ==
  /\ modules = 0 <=> loaded = 0
  /\ modules > 0 => files \in Version /\ files.driver = loaded
  /\ InUse \/ ipc \in {"cache", "verify"} => modules > 0
  /\ publishing # "no" => main = "serve"
  /\ AnnotationIsTheDriver

\* The cache file is right about the driver, or is about an earlier one than
\* is asked for now, and so never counts again.
CacheInv ==
  ~Rollback /\ Scripted =>
    /\ cache \in Version =>
         /\ cache.driver <= wanted
         /\ cache.driver = wanted /\ files \in Version => files.driver = wanted
    /\ ipc = "insmod" => cache \in Version /\ cache.driver = wanted
    /\ ipc \in {"cache", "verify", "ldcache", "done"} => loaded = wanted
    /\ ipc \in {"ldcache", "done"} => modules >= 2 /\ devNodes

IInv == TypeOK /\ DriverInv /\ CacheInv

(***************************************************************************)
(* Liveness.                                                               *)
(***************************************************************************)

\* What can keep the script from its end: an empty cache file, a cache file
\* that names another kernel's module, a driver in use that it does not name.
Stuck ==
  \/ cache = Torn
  \/ cache = Current /\ modules < NumModules /\ files \in Version /\ files.kernel # kernel
  \/ cache # Current /\ InUse

\* The installer comes to its end after failures and reboots, or it is stuck.
InstallerFinishes == <>[](ipc = "done") \/ <>[](Scripted /\ Stuck)

\* The plugin waits for the driver to be installed, and serves in the end.
PluginServes == <>[](devNodes /\ modules > 0 => main = "serve")

\* A confidential node that has its driver gets its GPU ready, and asks for no
\* more reboots than it takes to find the GPU.
ConfidentialNodesSettle ==
  <>[](~rebooting /\ (ppc # "off" /\ typeFile /\ modules > 0 => ready /\ daemon))
=============================================================================

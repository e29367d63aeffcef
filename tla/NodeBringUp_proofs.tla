------------------------- MODULE NodeBringUp_proofs --------------------------
(***************************************************************************)
(* Theorems about NodeBringUp: for every kind of node, any kernels and     *)
(* drivers, and any number of failures, reboots and updates.               *)
(*                                                                         *)
(* The argument.  DriverInv ties the files to the loaded module: both are  *)
(* replaced in one step, and only while no plugin holds the driver.        *)
(* CacheInv says that a cache file is about the driver that is asked for   *)
(* only if the files are; it takes that versions only grow, because the    *)
(* script replaces files under a cache file that is about other ones.      *)
(***************************************************************************)
EXTENDS NodeBringUp, TLAPS

\* TypeOK in three parts: the node and the bounds, ...
NodeType ==
  /\ platform \in {"ubuntu", "minikube", "confidential"}
  /\ kernel \in Kernel
  /\ wanted \in Driver
  /\ rebooting \in BOOLEAN
  /\ left \in [failures : Nat, reboots : Nat, updates : Nat]

\* ... the disk and the kernel's modules, ...
DiskType ==
  /\ cache \in Version \cup {Absent, Torn}
  /\ files \in Version \cup {Absent, Torn}
  /\ typeFile \in BOOLEAN
  /\ modules \in 0 .. 3
  /\ loaded \in Driver \cup {0}
  /\ devNodes \in BOOLEAN /\ visible \in BOOLEAN

\* ... and the programs.
ProgramType ==
  /\ daemon \in BOOLEAN /\ ready \in BOOLEAN
  /\ ipc \in {"check", "prepare", "install", "cache", "insmod", "verify",
              "ldcache", "done"}
  /\ main \in {"paths", "nvml", "start", "options", "serve"}
  /\ publishing \in {"no", "running", "done", "failed"}
  /\ published \in Driver \cup {0}
  /\ ppc \in {"off", "start", "daemon", "ready", "blocked"}

\* What the script compares and what the installer builds are versions.
LEMMA VersionType ==
  ASSUME NodeType
  PROVE  Current \in Version /\ Built \in Version
BY BringUpAssumption DEF NodeType, Current, Built, Version, KernelVersion

\* The fields of a version.
LEMMA VersionFields ==
  ASSUME NEW v \in Version
  PROVE  v.kernel \in Kernel /\ v.driver \in Driver
BY DEF Version

\* 0 stands for no driver.
LEMMA DriverNotZero == 0 \notin Driver
BY DEF Driver

\* The requested driver can be compared with others.
LEMMA WantedIsInteger ==
  ASSUME NodeType
  PROVE  wanted \in Int /\ wanted <= wanted
BY BringUpAssumption DEF NodeType, Driver

\* Both name the requested driver.
LEMMA VersionDrivers == Built.driver = wanted /\ Current.driver = wanted
BY DEF Built, Current

\* No cache file, or an empty one, names no version.
LEMMA NoVersion == Absent \notin Version /\ Torn \notin Version
BY BringUpAssumption


\* A reboot keeps the types of the disk and of the modules.
LEMMA RebootDisk ==
  ASSUME DiskType, NodeReboots
  PROVE  DiskType'
<1>1. typeFile' \in BOOLEAN
  BY DEF DiskType, NodeReboots
<1>2. UNCHANGED <<cache, files>> /\ modules' = 0 /\ loaded' = 0
        /\ devNodes' = FALSE /\ visible' = TRUE
  BY DEF NodeReboots
<1>3. devNodes' \in BOOLEAN /\ visible' \in BOOLEAN
  BY <1>2
<1>4. modules' \in 0 .. 3 /\ loaded' \in Driver \cup {0}
  BY <1>2
<1>5. cache' \in Version \cup {Absent, Torn} /\ files' \in Version \cup {Absent, Torn}
  BY <1>2 DEF DiskType
<1> QED BY <1>1, <1>3, <1>4, <1>5 DEF DiskType

\* Every step keeps the types of the node and the bounds.
LEMMA NodeTypeStep ==
  ASSUME NodeType, [Next]_vars
  PROVE  NodeType'
<1> USE DEF NodeType, Fail, node, disk, device, plugin, sidecar
<1>1. CASE CheckCachedVersion
  BY <1>1 DEF CheckCachedVersion
<1>2. CASE Prepare
  BY <1>2 DEF Prepare
<1>3. CASE RunInstaller
  BY <1>3 DEF RunInstaller
<1>4. CASE UpdateCachedVersion
  BY <1>4 DEF UpdateCachedVersion
<1>5. CASE InsertModules
  BY <1>5 DEF InsertModules
<1>6. CASE VerifyInstallation
  BY <1>6 DEF VerifyInstallation
<1>7. CASE UpdateHostLdCache
  BY <1>7 DEF UpdateHostLdCache
<1>8. CASE ConfidentialInstall
  BY <1>8 DEF ConfidentialInstall
<1>9. CASE SidecarStarts
  BY <1>9 DEF SidecarStarts
<1>10. CASE CheckConfidentialGPUEnablement
  BY <1>10 DEF CheckConfidentialGPUEnablement
<1>11. CASE EnablePersistenceMode
  BY <1>11 DEF EnablePersistenceMode
<1>12. CASE SetGPUReadyState
  BY <1>12 DEF SetGPUReadyState
<1>13. CASE CheckDevicePaths
  BY <1>13 DEF CheckDevicePaths
<1>14. CASE NvmlInit
  BY <1>14 DEF NvmlInit
<1>15. CASE ManagerStart
  BY <1>15 DEF ManagerStart
<1>16. CASE Serve
  BY <1>16 DEF Serve
<1>17. CASE PublishDriverVersion
  BY <1>17 DEF PublishDriverVersion
<1>18. CASE InstallerFails
  BY <1>18 DEF InstallerFails
<1>19. CASE ConfidentialInstallSkipped
  BY <1>19 DEF ConfidentialInstallSkipped
<1>20. CASE SidecarFails
  BY <1>20 DEF SidecarFails
<1>21. CASE PublishFails
  BY <1>21 DEF PublishFails
<1>22. CASE PluginFails
  BY <1>22 DEF PluginFails
<1>23. CASE UpdateDaemonSet
  BY <1>23 DEF UpdateDaemonSet
<1>24. CASE NoDevicesFound
  BY <1>24 DEF NoDevicesFound
<1>25. CASE RequestedReboot
  BY <1>25 DEF RequestedReboot, NodeReboots
<1>26. CASE Reboot
  <2>1. kernel' \in Kernel /\ rebooting' = FALSE /\ UNCHANGED <<platform, wanted>>
    BY <1>26 DEF Reboot, NodeReboots
  <2>2. left' \in [failures : Nat, reboots : Nat, updates : Nat]
    BY <1>26 DEF Reboot
  <2> QED BY <2>1, <2>2
<1>27. CASE ConfidentialInstallFails
  BY <1>27 DEF ConfidentialInstallFails
<1>28. CASE UNCHANGED vars
  BY <1>28 DEF vars
<1> QED
  BY <1>1, <1>2, <1>3, <1>4, <1>5, <1>6, <1>7, <1>8, <1>9, <1>10, <1>11,
     <1>12, <1>13, <1>14, <1>15, <1>16, <1>17, <1>18, <1>19, <1>20, <1>21,
     <1>22, <1>23, <1>24, <1>25, <1>26, <1>27, <1>28 DEF Next, Installer, Sidecar,
     Plugin, Environment

\* Every step keeps the types of the disk and the modules.
LEMMA DiskTypeStep ==
  ASSUME NodeType, DiskType, [Next]_vars
  PROVE  DiskType'
<1> USE VersionType, VersionFields DEF NodeType, DiskType, Fail, node, disk,
        device, plugin, sidecar
<1>1. CASE CheckCachedVersion
  BY <1>1 DEF CheckCachedVersion
<1>2. CASE Prepare
  BY <1>2 DEF Prepare
<1>3. CASE RunInstaller
  BY <1>3 DEF RunInstaller
<1>4. CASE UpdateCachedVersion
  BY <1>4 DEF UpdateCachedVersion
<1>5. CASE InsertModules
  BY <1>5 DEF InsertModules, Loadable, NumModules
<1>6. CASE VerifyInstallation
  BY <1>6 DEF VerifyInstallation, Verified
<1>7. CASE UpdateHostLdCache
  BY <1>7 DEF UpdateHostLdCache
<1>8. CASE ConfidentialInstall
  <2>1. CASE modules = 0
    BY <1>8, <2>1 DEF ConfidentialInstall
  <2>2. CASE modules # 0
    BY <1>8, <2>2 DEF ConfidentialInstall
  <2> QED BY <2>1, <2>2
<1>9. CASE SidecarStarts
  BY <1>9 DEF SidecarStarts
<1>10. CASE CheckConfidentialGPUEnablement
  BY <1>10 DEF CheckConfidentialGPUEnablement
<1>11. CASE EnablePersistenceMode
  BY <1>11 DEF EnablePersistenceMode
<1>12. CASE SetGPUReadyState
  BY <1>12 DEF SetGPUReadyState
<1>13. CASE CheckDevicePaths
  BY <1>13 DEF CheckDevicePaths
<1>14. CASE NvmlInit
  BY <1>14 DEF NvmlInit
<1>15. CASE ManagerStart
  BY <1>15 DEF ManagerStart
<1>16. CASE Serve
  BY <1>16 DEF Serve
<1>17. CASE PublishDriverVersion
  BY <1>17 DEF PublishDriverVersion
<1>18. CASE InstallerFails
  <2>1. CASE UNCHANGED <<files, cache, modules, loaded, devNodes>>
    BY <1>18, <2>1 DEF InstallerFails
  <2>2. CASE /\ files' \in {Torn, Built} /\ modules' = 0 /\ loaded' = 0
             /\ UNCHANGED <<cache, devNodes>>
    BY <1>18, <2>2 DEF InstallerFails
  <2>3. CASE cache' \in {Torn, Current} /\ UNCHANGED <<files, modules, loaded, devNodes>>
    BY <1>18, <2>3 DEF InstallerFails
  <2>4. CASE Verified /\ UNCHANGED <<files, cache, loaded>>
    BY <1>18, <2>4 DEF InstallerFails, Verified
  <2> QED BY <1>18, <2>1, <2>2, <2>3, <2>4 DEF InstallerFails
<1>19. CASE ConfidentialInstallSkipped
  BY <1>19 DEF ConfidentialInstallSkipped
<1>20. CASE SidecarFails
  BY <1>20 DEF SidecarFails
<1>21. CASE PublishFails
  BY <1>21 DEF PublishFails
<1>22. CASE PluginFails
  BY <1>22 DEF PluginFails
<1>23. CASE UpdateDaemonSet
  BY <1>23 DEF UpdateDaemonSet
<1>24. CASE NoDevicesFound
  BY <1>24 DEF NoDevicesFound
<1>25. CASE RequestedReboot
  BY <1>25, RebootDisk DEF RequestedReboot
<1>26. CASE Reboot
  BY <1>26, RebootDisk DEF Reboot
<1>27. CASE ConfidentialInstallFails
  <2>1. CASE UNCHANGED <<files, modules, loaded>>
    BY <1>27, <2>1 DEF ConfidentialInstallFails
  <2>2. CASE files' \in {Torn, Built} /\ UNCHANGED <<modules, loaded>>
    BY <1>27, <2>2 DEF ConfidentialInstallFails
  <2>3. CASE files' = Built /\ modules' \in 1 .. 2 /\ loaded' = wanted
    <3>1. files' \in Version /\ modules' \in 0 .. 3 /\ loaded' \in Driver \cup {0}
      BY <2>3
    <3> QED BY <1>27, <3>1 DEF ConfidentialInstallFails
  <2> QED BY <1>27, <2>1, <2>2, <2>3 DEF ConfidentialInstallFails
<1>28. CASE UNCHANGED vars
  BY <1>28 DEF vars
<1> QED
  BY <1>1, <1>2, <1>3, <1>4, <1>5, <1>6, <1>7, <1>8, <1>9, <1>10, <1>11,
     <1>12, <1>13, <1>14, <1>15, <1>16, <1>17, <1>18, <1>19, <1>20, <1>21,
     <1>22, <1>23, <1>24, <1>25, <1>26, <1>27, <1>28 DEF Next, Installer, Sidecar,
     Plugin, Environment

\* Every step keeps the types of the programs.
LEMMA ProgramTypeStep ==
  ASSUME DiskType, ProgramType, [Next]_vars
  PROVE  ProgramType'
<1> USE DEF DiskType, ProgramType, PluginRestarts, node, disk, device,
        plugin, sidecar
<1>1. CASE CheckCachedVersion
  BY <1>1 DEF CheckCachedVersion
<1>2. CASE Prepare
  BY <1>2 DEF Prepare
<1>3. CASE RunInstaller
  BY <1>3 DEF RunInstaller
<1>4. CASE UpdateCachedVersion
  BY <1>4 DEF UpdateCachedVersion
<1>5. CASE InsertModules
  BY <1>5 DEF InsertModules
<1>6. CASE VerifyInstallation
  BY <1>6 DEF VerifyInstallation
<1>7. CASE UpdateHostLdCache
  BY <1>7 DEF UpdateHostLdCache
<1>8. CASE ConfidentialInstall
  BY <1>8 DEF ConfidentialInstall
<1>9. CASE SidecarStarts
  BY <1>9 DEF SidecarStarts
<1>10. CASE CheckConfidentialGPUEnablement
  BY <1>10 DEF CheckConfidentialGPUEnablement
<1>11. CASE EnablePersistenceMode
  BY <1>11 DEF EnablePersistenceMode
<1>12. CASE SetGPUReadyState
  BY <1>12 DEF SetGPUReadyState
<1>13. CASE CheckDevicePaths
  BY <1>13 DEF CheckDevicePaths
<1>14. CASE NvmlInit
  BY <1>14 DEF NvmlInit
<1>15. CASE ManagerStart
  BY <1>15 DEF ManagerStart
<1>16. CASE Serve
  BY <1>16 DEF Serve
<1>17. CASE PublishDriverVersion
  BY <1>17 DEF PublishDriverVersion
<1>18. CASE InstallerFails
  BY <1>18 DEF InstallerFails
<1>19. CASE ConfidentialInstallSkipped
  BY <1>19 DEF ConfidentialInstallSkipped
<1>20. CASE SidecarFails
  BY <1>20 DEF SidecarFails
<1>21. CASE PublishFails
  BY <1>21 DEF PublishFails
<1>22. CASE PluginFails
  BY <1>22 DEF PluginFails
<1>23. CASE UpdateDaemonSet
  BY <1>23 DEF UpdateDaemonSet
<1>24. CASE NoDevicesFound
  BY <1>24 DEF NoDevicesFound
<1>25. CASE RequestedReboot
  BY <1>25 DEF RequestedReboot, NodeReboots
<1>26. CASE Reboot
  BY <1>26 DEF Reboot, NodeReboots
<1>27. CASE ConfidentialInstallFails
  BY <1>27 DEF ConfidentialInstallFails
<1>28. CASE UNCHANGED vars
  BY <1>28 DEF vars
<1> QED
  BY <1>1, <1>2, <1>3, <1>4, <1>5, <1>6, <1>7, <1>8, <1>9, <1>10, <1>11,
     <1>12, <1>13, <1>14, <1>15, <1>16, <1>17, <1>18, <1>19, <1>20, <1>21,
     <1>22, <1>23, <1>24, <1>25, <1>26, <1>27, <1>28 DEF Next, Installer, Sidecar,
     Plugin, Environment

\* The three parts make up the type invariant.
LEMMA TypeParts == TypeOK <=> NodeType /\ DiskType /\ ProgramType
BY DEF TypeOK, NodeType, DiskType, ProgramType

\* Every step keeps files, module and annotation of one driver.
LEMMA DriverStep ==
  ASSUME NodeType, DiskType, DriverInv, [Next]_vars
  PROVE  DriverInv'
<1> USE VersionType, VersionFields DEF NodeType, DiskType, DriverInv,
        AnnotationIsTheDriver, InUse, PluginRestarts, Fail, node, disk,
        device, plugin, sidecar
<1>1. CASE CheckCachedVersion
  BY <1>1 DEF CheckCachedVersion
<1>2. CASE Prepare
  BY <1>2 DEF Prepare
<1>3. CASE RunInstaller
  <2>1. CASE InUse
    BY <1>3, <2>1 DEF RunInstaller
  <2>2. CASE ~InUse
    <3>1. /\ files' = Built /\ modules' = 1 /\ loaded' = wanted
          /\ UNCHANGED <<main, publishing, published>>
      BY <1>3, <2>2 DEF RunInstaller
    <3>2. files' \in Version /\ files'.driver = loaded' /\ loaded' # 0
      BY <3>1, VersionDrivers, DriverNotZero
    <3> QED BY <3>1, <3>2, <2>2
  <2> QED BY <2>1, <2>2
<1>4. CASE UpdateCachedVersion
  BY <1>4 DEF UpdateCachedVersion
<1>5. CASE InsertModules
  <2>1. CASE UNCHANGED <<modules, loaded>>
    BY <1>5, <2>1 DEF InsertModules, NumModules
  <2>2. CASE Loadable /\ modules' = modules + 1 /\ loaded' = files.driver
    <3>1. UNCHANGED <<files, main, publishing, published>>
      BY <1>5 DEF InsertModules
    <3>2. /\ files \in Version /\ files.driver \in Driver
          /\ loaded \in {0, files.driver}
      BY <2>2 DEF Loadable
    <3>3. loaded' # 0 /\ modules' > 0
      BY <2>2, <3>2, DriverNotZero
    <3>4. publishing = "done" /\ main = "serve" => loaded' = loaded
      BY <2>2, <3>2
    <3> QED BY <3>1, <3>2, <3>3, <3>4, <2>2
  <2> QED BY <1>5, <2>1, <2>2 DEF InsertModules
<1>6. CASE VerifyInstallation
  <2>1. UNCHANGED <<files, loaded, main, publishing, published>>
    BY <1>6 DEF VerifyInstallation
  <2>2. ipc = "verify" /\ modules' = IF modules < 2 THEN 2 ELSE modules
    BY <1>6 DEF VerifyInstallation, Verified
  <2>3. modules > 0
    BY <2>2
  <2> QED BY <2>1, <2>2, <2>3
<1>7. CASE UpdateHostLdCache
  BY <1>7 DEF UpdateHostLdCache
<1>8. CASE ConfidentialInstall
  <2>1. CASE modules = 0
    <3>1. /\ files' = Built /\ modules' = 2 /\ loaded' = wanted
          /\ UNCHANGED <<main, publishing, published>>
      BY <1>8, <2>1 DEF ConfidentialInstall
    <3>2. files' \in Version /\ files'.driver = loaded' /\ loaded' # 0
      BY <3>1, VersionDrivers, DriverNotZero
    <3> QED BY <3>1, <3>2, <2>1
  <2>2. CASE modules # 0
    BY <1>8, <2>2 DEF ConfidentialInstall
  <2> QED BY <2>1, <2>2
<1>9. CASE SidecarStarts
  BY <1>9 DEF SidecarStarts
<1>10. CASE CheckConfidentialGPUEnablement
  BY <1>10 DEF CheckConfidentialGPUEnablement
<1>11. CASE EnablePersistenceMode
  BY <1>11 DEF EnablePersistenceMode
<1>12. CASE SetGPUReadyState
  BY <1>12 DEF SetGPUReadyState
<1>13. CASE CheckDevicePaths
  BY <1>13 DEF CheckDevicePaths
<1>14. CASE NvmlInit
  <2>1. CASE files \in Version /\ files.driver = loaded
    <3>1. loaded # 0
      BY <2>1, DriverNotZero
    <3> QED BY <1>14, <2>1, <3>1 DEF NvmlInit
  <2>2. CASE ~(files \in Version /\ files.driver = loaded)
    BY <1>14, <2>2 DEF NvmlInit
  <2> QED BY <2>1, <2>2
<1>15. CASE ManagerStart
  BY <1>15 DEF ManagerStart
<1>16. CASE Serve
  BY <1>16 DEF Serve
<1>17. CASE PublishDriverVersion
  BY <1>17 DEF PublishDriverVersion
<1>18. CASE InstallerFails
  <2> ipc' = "check" /\ UNCHANGED <<main, publishing, published>>
    BY <1>18 DEF InstallerFails
  <2>1. CASE UNCHANGED <<files, modules, loaded>>
    BY <2>1
  <2>2. CASE ~InUse /\ modules' = 0 /\ loaded' = 0
    BY <2>2
  <2>3. CASE ipc = "verify" /\ Verified /\ UNCHANGED <<files, loaded>>
    <3>1. modules' = IF modules < 2 THEN 2 ELSE modules
      BY <2>3 DEF Verified
    <3> QED BY <2>3, <3>1
  <2> QED BY <1>18, <2>1, <2>2, <2>3 DEF InstallerFails
<1>19. CASE ConfidentialInstallSkipped
  BY <1>19 DEF ConfidentialInstallSkipped
<1>20. CASE SidecarFails
  BY <1>20 DEF SidecarFails
<1>21. CASE PublishFails
  BY <1>21 DEF PublishFails
<1>22. CASE PluginFails
  BY <1>22 DEF PluginFails
<1>23. CASE UpdateDaemonSet
  BY <1>23 DEF UpdateDaemonSet
<1>24. CASE NoDevicesFound
  BY <1>24 DEF NoDevicesFound
<1>25. CASE RequestedReboot
  BY <1>25 DEF RequestedReboot, NodeReboots
<1>26. CASE Reboot
  BY <1>26 DEF Reboot, NodeReboots
<1>27. CASE ConfidentialInstallFails
  <2> ipc' = ipc /\ UNCHANGED <<main, publishing, published>>
    BY <1>27 DEF ConfidentialInstallFails, plugin
  <2>1. CASE UNCHANGED <<files, modules, loaded>>
    BY <2>1
  <2>2. CASE modules = 0 /\ UNCHANGED <<modules, loaded>>
    BY <2>2
  <2>3. CASE modules = 0 /\ files' = Built /\ modules' \in 1 .. 2 /\ loaded' = wanted
    <3>1. files' \in Version /\ files'.driver = wanted /\ wanted # 0
      BY <2>3, DriverNotZero DEF Built, NodeType
    <3>2. ~InUse /\ ipc \notin {"cache", "verify"} /\ main # "serve"
      BY <2>3 DEF InUse
    <3> QED BY <2>3, <3>1, <3>2
  <2> QED BY <1>27, <2>1, <2>2, <2>3 DEF ConfidentialInstallFails
<1>28. CASE UNCHANGED vars
  BY <1>28 DEF vars
<1> QED
  BY <1>1, <1>2, <1>3, <1>4, <1>5, <1>6, <1>7, <1>8, <1>9, <1>10, <1>11,
     <1>12, <1>13, <1>14, <1>15, <1>16, <1>17, <1>18, <1>19, <1>20, <1>21,
     <1>22, <1>23, <1>24, <1>25, <1>26, <1>27, <1>28 DEF Next, Installer, Sidecar,
     Plugin, Environment

\* Every step keeps the cache file right about the driver it names.
LEMMA CacheStep ==
  ASSUME NodeType, DiskType, DriverInv, CacheInv, [Next]_vars
  PROVE  CacheInv'
<1> USE VersionType, VersionFields DEF NodeType, DiskType, CacheInv,
        Scripted, Fail, node, disk, device, plugin, sidecar
<1>1. CASE CheckCachedVersion
  BY <1>1 DEF CheckCachedVersion, Current
<1>2. CASE Prepare
  BY <1>2 DEF Prepare
<1>3. CASE RunInstaller
  BY <1>3 DEF RunInstaller, Built
<1>4. CASE UpdateCachedVersion
  <2>1. CASE Rollback \/ ~Scripted
    BY <1>4, <2>1 DEF UpdateCachedVersion
  <2>2. CASE ~Rollback /\ Scripted
    <3>1. /\ ipc = "cache" /\ cache' = Current /\ ipc' = "verify"
          /\ UNCHANGED <<wanted, files, modules, loaded, devNodes>>
      BY <1>4 DEF UpdateCachedVersion
    <3>2. modules > 0 /\ loaded = wanted /\ files.driver = wanted
      BY <3>1, <2>2 DEF DriverInv
    <3> QED BY <3>1, <3>2, VersionDrivers, WantedIsInteger
  <2> QED BY <2>1, <2>2
<1>5. CASE InsertModules
  BY <1>5 DEF InsertModules, Loadable, NumModules, DriverInv
<1>6. CASE VerifyInstallation
  BY <1>6 DEF VerifyInstallation, Verified
<1>7. CASE UpdateHostLdCache
  BY <1>7 DEF UpdateHostLdCache
<1>8. CASE ConfidentialInstall
  BY <1>8 DEF ConfidentialInstall, Built
<1>9. CASE SidecarStarts
  BY <1>9 DEF SidecarStarts
<1>10. CASE CheckConfidentialGPUEnablement
  BY <1>10 DEF CheckConfidentialGPUEnablement
<1>11. CASE EnablePersistenceMode
  BY <1>11 DEF EnablePersistenceMode
<1>12. CASE SetGPUReadyState
  BY <1>12 DEF SetGPUReadyState
<1>13. CASE CheckDevicePaths
  BY <1>13 DEF CheckDevicePaths
<1>14. CASE NvmlInit
  BY <1>14 DEF NvmlInit
<1>15. CASE ManagerStart
  BY <1>15 DEF ManagerStart
<1>16. CASE Serve
  BY <1>16 DEF Serve
<1>17. CASE PublishDriverVersion
  BY <1>17 DEF PublishDriverVersion
<1>18. CASE InstallerFails
  <2>1. ipc' = "check" /\ wanted' = wanted /\ platform' = platform
    BY <1>18 DEF InstallerFails
  <2>2. CASE UNCHANGED <<files, cache>>
    BY <2>1, <2>2
  <2>3. CASE files' \in {Torn, Built} /\ UNCHANGED cache
    BY <2>1, <2>3, VersionDrivers, NoVersion
  <2>4. CASE ipc = "cache" /\ cache' \in {Torn, Current} /\ UNCHANGED <<files, modules, loaded>>
    <3>1. CASE Rollback \/ ~Scripted
      BY <2>1, <3>1
    <3>2. CASE ~Rollback /\ Scripted
      <4>1. modules > 0 /\ loaded = wanted /\ files.driver = wanted
        BY <2>4, <3>2 DEF DriverInv
      <4> QED BY <2>1, <2>4, <4>1, VersionDrivers, NoVersion, WantedIsInteger
    <3> QED BY <3>1, <3>2
  <2> QED BY <1>18, <2>2, <2>3, <2>4 DEF InstallerFails
<1>19. CASE ConfidentialInstallSkipped
  BY <1>19 DEF ConfidentialInstallSkipped
<1>20. CASE SidecarFails
  BY <1>20 DEF SidecarFails
<1>21. CASE PublishFails
  BY <1>21 DEF PublishFails
<1>22. CASE PluginFails
  BY <1>22 DEF PluginFails
<1>23. CASE UpdateDaemonSet
  <2>1. /\ ipc' = "check" /\ wanted' \in Driver
        /\ UNCHANGED <<platform, files, cache>>
    BY <1>23 DEF UpdateDaemonSet
  <2>2. CASE Rollback \/ ~Scripted
    BY <2>1, <2>2
  <2>3. CASE ~Rollback /\ Scripted
    <3>1. wanted' >= wanted
      BY <1>23, <2>3 DEF UpdateDaemonSet
    <3>2. wanted \in Int /\ wanted' \in Int /\ \A v \in Version : v.driver \in Int
      BY <2>1, VersionFields, BringUpAssumption DEF Driver
    <3> QED BY <2>1, <2>3, <3>1, <3>2
  <2> QED BY <2>2, <2>3
<1>24. CASE NoDevicesFound
  BY <1>24 DEF NoDevicesFound
<1>25. CASE RequestedReboot
  BY <1>25 DEF RequestedReboot, NodeReboots
<1>26. CASE Reboot
  BY <1>26 DEF Reboot, NodeReboots
<1>27. CASE ConfidentialInstallFails
  BY <1>27 DEF ConfidentialInstallFails
<1>28. CASE UNCHANGED vars
  BY <1>28 DEF vars
<1> QED
  BY <1>1, <1>2, <1>3, <1>4, <1>5, <1>6, <1>7, <1>8, <1>9, <1>10, <1>11,
     <1>12, <1>13, <1>14, <1>15, <1>16, <1>17, <1>18, <1>19, <1>20, <1>21,
     <1>22, <1>23, <1>24, <1>25, <1>26, <1>27, <1>28 DEF Next, Installer, Sidecar,
     Plugin, Environment

\* No step replaces the files or the module of a driver that is in use.
LEMMA DriverInUseStays ==
  ASSUME DriverInv, InUse, InUse', [Next]_vars
  PROVE  UNCHANGED <<files, loaded>>
<1> USE DEF DriverInv, InUse, PluginRestarts, node, disk, device, plugin,
        sidecar
<1>1. CASE CheckCachedVersion
  BY <1>1 DEF CheckCachedVersion
<1>2. CASE Prepare
  BY <1>2 DEF Prepare
<1>3. CASE RunInstaller
  BY <1>3 DEF RunInstaller
<1>4. CASE UpdateCachedVersion
  BY <1>4 DEF UpdateCachedVersion
<1>5. CASE InsertModules
  BY <1>5 DEF InsertModules, Loadable
<1>6. CASE VerifyInstallation
  BY <1>6 DEF VerifyInstallation
<1>7. CASE UpdateHostLdCache
  BY <1>7 DEF UpdateHostLdCache
<1>8. CASE ConfidentialInstall
  BY <1>8 DEF ConfidentialInstall
<1>9. CASE SidecarStarts
  BY <1>9 DEF SidecarStarts
<1>10. CASE CheckConfidentialGPUEnablement
  BY <1>10 DEF CheckConfidentialGPUEnablement
<1>11. CASE EnablePersistenceMode
  BY <1>11 DEF EnablePersistenceMode
<1>12. CASE SetGPUReadyState
  BY <1>12 DEF SetGPUReadyState
<1>13. CASE CheckDevicePaths
  BY <1>13 DEF CheckDevicePaths
<1>14. CASE NvmlInit
  BY <1>14 DEF NvmlInit
<1>15. CASE ManagerStart
  BY <1>15 DEF ManagerStart
<1>16. CASE Serve
  BY <1>16 DEF Serve
<1>17. CASE PublishDriverVersion
  BY <1>17 DEF PublishDriverVersion
<1>18. CASE InstallerFails
  BY <1>18 DEF InstallerFails
<1>19. CASE ConfidentialInstallSkipped
  BY <1>19 DEF ConfidentialInstallSkipped
<1>20. CASE SidecarFails
  BY <1>20 DEF SidecarFails
<1>21. CASE PublishFails
  BY <1>21 DEF PublishFails
<1>22. CASE PluginFails
  BY <1>22 DEF PluginFails
<1>23. CASE UpdateDaemonSet
  BY <1>23 DEF UpdateDaemonSet
<1>24. CASE NoDevicesFound
  BY <1>24 DEF NoDevicesFound
<1>25. CASE RequestedReboot
  BY <1>25 DEF RequestedReboot, NodeReboots
<1>26. CASE Reboot
  BY <1>26 DEF Reboot, NodeReboots
<1>27. CASE ConfidentialInstallFails
  BY <1>27 DEF ConfidentialInstallFails
<1>28. CASE UNCHANGED vars
  BY <1>28 DEF vars
<1> QED
  BY <1>1, <1>2, <1>3, <1>4, <1>5, <1>6, <1>7, <1>8, <1>9, <1>10, <1>11,
     <1>12, <1>13, <1>14, <1>15, <1>16, <1>17, <1>18, <1>19, <1>20, <1>21,
     <1>22, <1>23, <1>24, <1>25, <1>26, <1>27, <1>28 DEF Next, Installer, Sidecar,
     Plugin, Environment

\* The invariant holds before anything has run.
LEMMA InitInv == Init => IInv
<1> SUFFICES ASSUME Init PROVE IInv
  OBVIOUS
<1>0. /\ 1 \in Kernel /\ 1 \in Driver
      /\ MaxFailures \in Nat /\ MaxReboots \in Nat /\ MaxUpdates \in Nat
  BY BringUpAssumption DEF Kernel, Driver
<1>1. NodeType /\ DiskType /\ ProgramType
  <2>1. NodeType
    BY <1>0, BringUpAssumption DEF Init, NodeType
  <2>2. DiskType
    <3>1. cache = Absent /\ files = Absent /\ modules = 0 /\ loaded = 0
      BY DEF Init
    <3>2. typeFile \in BOOLEAN /\ devNodes \in BOOLEAN /\ visible \in BOOLEAN
      BY DEF Init
    <3> QED BY <3>1, <3>2 DEF DiskType
  <2>3. ProgramType
    BY DEF Init, ProgramType
  <2> QED BY <2>1, <2>2, <2>3
<1>2. DriverInv
  BY DEF Init, DriverInv, AnnotationIsTheDriver, InUse
<1>3. CacheInv
  BY NoVersion DEF Init, CacheInv
<1> QED
  BY <1>1, <1>2, <1>3, TypeParts DEF IInv

\* Every step keeps the invariant.
LEMMA StepInv ==
  ASSUME IInv, [Next]_vars
  PROVE  IInv'
<1>1. NodeType /\ DiskType /\ ProgramType /\ DriverInv /\ CacheInv
  BY TypeParts DEF IInv
<1>2. NodeType' /\ DiskType' /\ ProgramType'
  BY <1>1, NodeTypeStep, DiskTypeStep, ProgramTypeStep
<1>3. TypeOK'
  BY <1>2 DEF TypeOK, NodeType, DiskType, ProgramType
<1>4. DriverInv' /\ CacheInv'
  BY <1>1, DriverStep, CacheStep
<1> QED
  BY <1>3, <1>4 DEF IInv

\* The inductive invariant holds in every reachable state, whatever fails and
\* however often kernels, drivers and containers change.
THEOREM Invariance == Spec => []IInv
<1> QED
  BY InitInv, StepInv, PTL DEF Spec

\* The variables keep their types.
THEOREM TypeCorrectness == Spec => []TypeOK
<1>1. IInv => TypeOK
  BY DEF IInv
<1> QED
  BY <1>1, Invariance, PTL

\* An installer that is done (entrypoint.sh, over the cache or not) has loaded
\* the driver that was asked for, if nothing is rolled back.
THEOREM Installation == Spec => []InstalledAsRequested
<1>1. IInv => InstalledAsRequested
  BY DEF IInv, CacheInv, InstalledAsRequested
<1> QED
  BY <1>1, Invariance, PTL

\* The published annotation is the driver that serves, also with rollbacks.
THEOREM Annotation == Spec => []AnnotationIsTheDriver
<1>1. IInv => AnnotationIsTheDriver
  BY DEF IInv, DriverInv
<1> QED
  BY <1>1, Invariance, PTL

\* A plugin keeps the module and the libraries it called nvml.Init with.
THEOREM DriverOfAPlugin == Spec => PluginKeepsItsDriver
<1>1. IInv /\ [Next]_vars =>
        [InUse /\ InUse' => files' = files /\ loaded' = loaded /\ files.driver = loaded]_vars
  <2> SUFFICES ASSUME IInv, [Next]_vars, InUse, InUse'
               PROVE  files' = files /\ loaded' = loaded /\ files.driver = loaded
    OBVIOUS
  <2>1. DriverInv
    BY DEF IInv
  <2>2. files' = files /\ loaded' = loaded
    BY <2>1, DriverInUseStays
  <2>3. files.driver = loaded
    BY <2>1 DEF DriverInv
  <2> QED
    BY <2>2, <2>3
<1> QED
  BY <1>1, Invariance, PTL DEF Spec, PluginKeepsItsDriver
==============================================================================

------------------------ MODULE DevicePlugin_proofs -------------------------
(***************************************************************************)
(* Theorems about DevicePlugin, for every set of GPUs and partitions and   *)
(* every value of the bounds.                                              *)
(***************************************************************************)
EXTENDS DevicePlugin, FiniteSetTheorems, TLAPS

\* Every advertised ID stands for a device of the node.
LEMMA PhysicalOfType == \A id \in DeviceID : PhysicalOf(id) \in Physical
BY ConfigAssumption
   DEF DeviceID, PhysicalOf, VirtualID, VirtualToPhysicalDeviceID, Physical

\* Physical devices are devices.
LEMMA PhysicalType == Physical \subseteq Device
BY DEF Physical, Device

\* A report that one more device of a table is read into is a report.
LEMMA ListDeviceType ==
  ASSUME NEW table \in Table, NEW report \in Report, NEW d \in Physical
  PROVE  ListDevice(report, table, d) \in Report
BY PhysicalType DEF ListDevice, Report, Table

\* A handler that begins to send the devices keeps its types.
LEMMA SendDevicesBeginsType ==
  ASSUME TypeOK, NEW s \in Stream, NEW table, SendDevicesBegins(s, table)
  PROVE  hpc' \in [Stream -> HandlerPC] /\ hleft' \in [Stream -> SUBSET Physical]
BY DEF SendDevicesBegins, ListPhysicalDevices, TypeOK, HandlerPC

\* The operations on tables yield tables.
LEMMA DiscoveryTypes ==
  ASSUME NEW table \in Table, NEW listed
  PROVE  /\ DiscoverGPUs(table, listed) \in Table
         /\ DiscoverPartitions(table, listed) \in Table
         /\ ListPhysicalDevices(table) \subseteq Physical
BY DEF DiscoverGPUs, DiscoverPartitions, ListPhysicalDevices, Table, Status,
       Healthy

\* SetDeviceHealth keeps the table typed.
LEMMA SetDeviceHealthType ==
  ASSUME NEW table \in Table, NEW d \in Device
  PROVE  SetDeviceHealth(table, d, Unhealthy) \in Table
BY DEF SetDeviceHealth, Table, Status, Unhealthy

\* A table without devices, a report and an allocation without any are typed.
LEMMA EmptyTypes ==
  NoTable \in Table /\ NoReport \in Report /\ NoAlloc \in Allocations
BY DEF NoTable, Table, NoReport, Report, Status, Absent, NoAlloc, Allocations

-----------------------------------------------------------------------------
(***************************************************************************)
(* Type correctness.                                                       *)
(***************************************************************************)

\* The state after the process has died is well typed.
LEMMA ProcessGoneType ==
  ASSUME TypeOK, ProcessGone, left' \in Budget
  PROVE  TypeOK'
BY EmptyTypes
   DEF TypeOK, ProcessGone, StopServer, nodeVars, kubeletVars,
       ServePC, HandlerPC

\* The initial states are well typed.
LEMMA InitType == Init => TypeOK
<1> SUFFICES ASSUME Init
             PROVE  TypeOK
  OBVIOUS
<1>1. left \in Budget
  BY PluginAssumption DEF Init, Budget
<1>2. QED
  BY <1>1, PluginAssumption, EmptyTypes DEF Init, TypeOK, ServePC, HandlerPC

\* Every step keeps the types, one action at a time.
LEMMA NextType == TypeOK /\ [Next]_vars => TypeOK'
<1> SUFFICES ASSUME TypeOK, [Next]_vars
             PROVE  TypeOK'
  OBVIOUS
<1> USE DEF nodeVars, serveVars, serverVars, handlerVars, hcVars, kubeletVars
<1>1. CASE StartManager
  <2>1. devices' \in Table
    BY <1>1, DiscoveryTypes DEF StartManager, TypeOK
  <2>2. hcDevices' \in SUBSET Physical
    BY <1>1, <2>1, DiscoveryTypes DEF StartManager
  <2>3. QED
    BY <1>1, <2>1, <2>2 DEF StartManager, TypeOK, ServePC
<1>2. CASE StatKubeletSocket
  BY <1>2 DEF StatKubeletSocket, KubeletSocket, TypeOK, ServePC
<1>3. CASE WatchPluginDirectory
  BY <1>3 DEF WatchPluginDirectory, TypeOK, ServePC
<1>4. CASE Listen
  BY <1>4 DEF Listen, TypeOK, ServePC
<1>5. CASE Register
  BY <1>5 DEF Register, TypeOK, ServePC
<1>6. CASE RegisterFails
  BY <1>6, ProcessGoneType DEF RegisterFails, TypeOK
<1>7. CASE SocketCheck
  BY <1>7, EmptyTypes
  DEF SocketCheck, RestartServer, StopServer, TypeOK, ServePC
<1>8. CASE GPUCheck
  BY <1>8, EmptyTypes
  DEF GPUCheck, RestartServer, StopServer, TypeOK, ServePC
<1>9. CASE KubeletSocketCreated
  <2>1. events' \in Nat
    BY <1>9 DEF KubeletSocketCreated, TypeOK
  <2>2. QED
    BY <1>9, <2>1, EmptyTypes
    DEF KubeletSocketCreated, RestartServer, StopServer, TypeOK, ServePC
<1>10. CASE Rediscover
  BY <1>10, DiscoveryTypes DEF Rediscover, TypeOK, ServePC
<1>11. CASE RediscoverFails
  BY <1>11, DiscoveryTypes DEF RediscoverFails, TypeOK
<1>12. CASE Stop
  <2>1. CASE StopRemovesSocket
    BY <2>1 DEF StopRemovesSocket, TypeOK
  <2>2. CASE StopSends \/ StopClosesHealth
    BY <2>2 DEF StopSends, StopClosesHealth, TypeOK
  <2>3. CASE ServeStops
    BY <2>3 DEF ServeStops, TypeOK, ServePC
  <2>4. QED
    BY <1>12, <2>1, <2>2, <2>3 DEF Stop
<1>13. CASE \E s \in Stream : ListAndWatch(s)
  <2> PICK s \in Stream : ListAndWatch(s)
    BY <1>13
  <2>1. ASSUME NEW d \in hleft[s], ReadDevice(s, d)
        PROVE  TypeOK'
    <3>1. hsnap[s] \in Report /\ d \in Physical /\ devices \in Table
      BY DEF TypeOK
    <3>2. hsnap' \in [Stream -> Report]
      BY <2>1, <3>1, ListDeviceType DEF ReadDevice, TypeOK
    <3> QED  BY <2>1, <3>2 DEF ReadDevice, TypeOK
  <2>2. CASE SendDevices(s)
    BY <2>2 DEF SendDevices, TypeOK, HandlerPC
  <2>3. CASE SendFails(s)
    BY <2>3, EmptyTypes
    DEF SendFails, HandlerReturns, StopServer, TypeOK, HandlerPC
  <2>4. CASE ReceiveClosed(s)
    BY <2>4 DEF ReceiveClosed, TypeOK, HandlerPC
  <2>5. CASE SetHealth(s)
    <3>1. devices' \in Table
      BY <2>5, SetDeviceHealthType DEF SetHealth, TypeOK
    <3>2. hpc' \in [Stream -> HandlerPC] /\ hleft' \in [Stream -> SUBSET Physical]
      BY <2>5, SendDevicesBeginsType DEF SetHealth
    <3>3. QED
      BY <2>5, <3>1, <3>2 DEF SetHealth, TypeOK
  <2>6. QED
    BY <2>1, <2>2, <2>3, <2>4, <2>5 DEF ListAndWatch
<1>14. CASE HealthChecker
  <2>1. CASE XidOnDevice
    BY <2>1 DEF XidOnDevice, CatchError, TypeOK, Budget
  <2>2. CASE XidOnNode
    <3>1. left' \in Budget
      BY <2>2 DEF XidOnNode, CatchError, TypeOK, Budget
    <3>2. QED
      BY <2>2, <3>1 DEF XidOnNode, CatchError, TypeOK
  <2>3. ASSUME NEW d \in hcTodo, SkipDevice(d)
        PROVE  TypeOK'
    BY <2>3 DEF SkipDevice, TypeOK
  <2>4. ASSUME NEW d \in hcTodo, NEW s \in Stream, SendHealth(d, s)
        PROVE  TypeOK'
    BY <2>4, PhysicalType DEF SendHealth, TypeOK, HandlerPC
  <2>5. CASE HealthCheckerPanics
    BY <2>5, ProcessGoneType DEF HealthCheckerPanics, TypeOK
  <2>6. QED
    BY <1>14, <2>1, <2>2, <2>3, <2>4, <2>5 DEF HealthChecker
<1>15. CASE Allocation
  <2>1. ASSUME NEW ids \in SUBSET DeviceID, Allocate(ids)
        PROVE  TypeOK'
    BY <2>1 DEF Allocate, TypeOK, Allocations
  <2>2. ASSUME NEW id \in alloc.ids, AllocateDevice(id)
        PROVE  TypeOK'
    BY <2>2, EmptyTypes DEF AllocateDevice, TypeOK, Allocations
  <2>3. CASE AllocateReturns
    BY <2>3, EmptyTypes DEF AllocateReturns, TypeOK
  <2>4. QED
    BY <1>15, <2>1, <2>2, <2>3 DEF Allocation
<1>16. CASE Kubelet
  <2>1. ASSUME NEW s \in Stream, KubeletCallsListAndWatch(s)
        PROVE  TypeOK'
    <3>1. hpc' \in [Stream -> HandlerPC] /\ hleft' \in [Stream -> SUBSET Physical]
      BY <2>1, SendDevicesBeginsType DEF KubeletCallsListAndWatch
    <3> QED  BY <2>1, <3>1, EmptyTypes DEF KubeletCallsListAndWatch, TypeOK
  <2>2. CASE KubeletDisconnects
    BY <2>2 DEF KubeletDisconnects, TypeOK, Report, Status, Absent, Unhealthy
  <2>3. CASE KubeletDies
    <3>1. left' \in Budget
      BY <2>3 DEF KubeletDies, TypeOK, Budget
    <3>2. QED
      BY <2>3, <3>1, EmptyTypes DEF KubeletDies, TypeOK
  <2>4. CASE KubeletStarts
    BY <2>4 DEF KubeletStarts, TypeOK
  <2>5. CASE KubeletListens
    BY <2>5 DEF KubeletListens, TypeOK
  <2>6. QED
    BY <1>16, <2>1, <2>2, <2>3, <2>4, <2>5 DEF Kubelet
<1>17. CASE Environment
  <2>1. CASE DeviceFileAppears \/ NVMLListsGPU \/ ProcessStarts
    BY <2>1 DEF DeviceFileAppears, NVMLListsGPU, ProcessStarts, TypeOK, ServePC
  <2>2. CASE Crash
    BY <2>2, ProcessGoneType DEF Crash, TypeOK, Budget
  <2>3. QED
    BY <1>17, <2>1, <2>2 DEF Environment
<1>18. CASE ConcurrentMapAccess
  BY <1>18, ProcessGoneType DEF ConcurrentMapAccess, TypeOK
<1>19. CASE UNCHANGED vars
  BY <1>19 DEF vars, TypeOK
<1>20. QED
  BY <1>1, <1>2, <1>3, <1>4, <1>5, <1>6, <1>7, <1>8, <1>9, <1>10, <1>11,
     <1>12, <1>13, <1>14, <1>15, <1>16, <1>17, <1>18, <1>19
  DEF Next, Serve

\* The tables, the program counters of all goroutines, the kubelet's view and
\* the bounds keep their types in every reachable state.
THEOREM TypeCorrect == Spec => []TypeOK
BY InitType, NextType, PTL DEF Spec

-----------------------------------------------------------------------------
(***************************************************************************)
(* The inductive invariant.  What a step can do to the parts of the state  *)
(* it speaks of falls into six kinds, found once, one action at a time.    *)
(***************************************************************************)

\* No stream works after the step, so no request is served either.
Disconnecting ==
  /\ open' = {} /\ alloc' = NoAlloc
  /\ \/ UNCHANGED <<hpc, hleft, hsnap>>
     \/ ProcessGone
     \/ \E s \in Stream : hleft[s] = {} /\ HandlerReturns(s)

\* The step is about something else.
Elsewhere == UNCHANGED <<devices, hpc, hleft, hsnap, view, conn, open, alloc>>

HandlerStep(s) ==
  \/ \E d \in hleft[s] : ReadDevice(s, d)
  \/ SendDevices(s) \/ ReceiveClosed(s) \/ SetHealth(s)

\* Steps by kind: those that cut the kubelet off, those that touch no view and no
\* table, allocations, and those of handlers, health events and new streams.
LEMMA StepKinds ==
  ASSUME TypeOK, ServerInv, [Next]_vars
  PROVE  \/ Disconnecting
         \/ Elsewhere
         \/ Allocation
         \/ \E s \in Stream : HandlerStep(s)
         \/ \E d \in hcTodo, s \in Stream : SendHealth(d, s)
         \/ \E s \in Stream : KubeletCallsListAndWatch(s)
<1> USE DEF nodeVars, serveVars, serverVars, handlerVars, hcVars, kubeletVars
<1>1. CASE StartManager
  BY <1>1 DEF StartManager, ServerInv, Disconnecting
<1>2. CASE StatKubeletSocket \/ WatchPluginDirectory \/ Listen \/ Register
  BY <1>2 DEF StatKubeletSocket, WatchPluginDirectory, Listen, Register,
              Elsewhere
<1>3. CASE RegisterFails
  BY <1>3 DEF RegisterFails, ProcessGone, StopServer, Disconnecting
<1>4. CASE SocketCheck
  BY <1>4 DEF SocketCheck, RestartServer, StopServer, Disconnecting, Elsewhere
<1>5. CASE GPUCheck
  BY <1>5 DEF GPUCheck, RestartServer, StopServer, Disconnecting
<1>6. CASE KubeletSocketCreated
  BY <1>6 DEF KubeletSocketCreated, RestartServer, StopServer, Disconnecting
<1>7. CASE Rediscover \/ RediscoverFails
  BY <1>7 DEF Rediscover, RediscoverFails, ServerInv, Disconnecting
<1>8. CASE Stop
  BY <1>8 DEF Stop, StopRemovesSocket, StopSends, ServeStops,
              StopClosesHealth, Elsewhere
<1>9. ASSUME NEW s \in Stream, ListAndWatch(s)
      PROVE  Disconnecting \/ HandlerStep(s)
  BY <1>9 DEF ListAndWatch, HandlerStep, SendFails, StopServer, Disconnecting
<1>10. CASE HealthChecker
  <2>1. CASE XidOnDevice \/ XidOnNode
    BY <2>1 DEF XidOnDevice, XidOnNode, CatchError, Elsewhere
  <2>2. ASSUME NEW d \in hcTodo, SkipDevice(d)
        PROVE  Elsewhere
    BY <2>2 DEF SkipDevice, Elsewhere
  <2>3. CASE HealthCheckerPanics
    BY <2>3 DEF HealthCheckerPanics, ProcessGone, StopServer, Disconnecting
  <2>4. QED
    BY <1>10, <2>1, <2>2, <2>3 DEF HealthChecker
<1>11. CASE KubeletDisconnects
  <2>1. open = {}
    BY <1>11 DEF KubeletDisconnects, ServerInv
  <2>2. QED
    BY <1>11, <2>1 DEF KubeletDisconnects, ServerInv, Disconnecting
<1>12. CASE KubeletDies
  BY <1>12 DEF KubeletDies, Disconnecting
<1>13. CASE KubeletStarts \/ KubeletListens
  BY <1>13 DEF KubeletStarts, KubeletListens, Elsewhere
<1>14. CASE DeviceFileAppears \/ NVMLListsGPU \/ ProcessStarts
  BY <1>14 DEF DeviceFileAppears, NVMLListsGPU, ProcessStarts, Elsewhere
<1>15. CASE Crash
  BY <1>15 DEF Crash, ProcessGone, StopServer, Disconnecting
<1>16. CASE ConcurrentMapAccess
  BY <1>16 DEF ConcurrentMapAccess, ProcessGone, StopServer, Disconnecting
<1>17. CASE UNCHANGED vars
  BY <1>17 DEF vars, Elsewhere
<1>18. QED
  BY <1>1, <1>2, <1>3, <1>4, <1>5, <1>6, <1>7, <1>8, <1>9, <1>10, <1>11,
     <1>12, <1>13, <1>14, <1>15, <1>16, <1>17
  DEF Next, Serve, Kubelet, Environment

\* At first the plugin has found its devices and told nobody.
LEMMA InitInv == Init => IInv
BY InitType
   DEF Init, IInv, ServerInv, FreshInv, ListedMarksInv, AllocationInv, NoAlloc

\* ServerInv also depends on pc, live and socket: one action at a time again.
LEMMA NextServer ==
  ASSUME TypeOK, ServerInv, [Next]_vars
  PROVE  ServerInv'
<1> USE DEF ServerInv, nodeVars, serveVars, serverVars, handlerVars, hcVars,
            kubeletVars
<1>1. CASE StartManager \/ StatKubeletSocket \/ WatchPluginDirectory
  BY <1>1 DEF StartManager, StatKubeletSocket, WatchPluginDirectory
<1>2. CASE Listen \/ Register
  BY <1>2 DEF Listen, Register, CanRegister
<1>3. CASE RegisterFails \/ HealthCheckerPanics \/ Crash \/ ConcurrentMapAccess
  BY <1>3 DEF RegisterFails, HealthCheckerPanics, Crash, ConcurrentMapAccess,
              ProcessGone, StopServer
<1>4. CASE SocketCheck \/ GPUCheck \/ KubeletSocketCreated
  BY <1>4 DEF SocketCheck, GPUCheck, KubeletSocketCreated, RestartServer,
              StopServer
<1>5. CASE Rediscover \/ RediscoverFails
  BY <1>5 DEF Rediscover, RediscoverFails
<1>6. CASE Stop
  BY <1>6 DEF Stop, StopRemovesSocket, StopSends, ServeStops, StopClosesHealth
<1>7. ASSUME NEW s \in Stream, ListAndWatch(s)
      PROVE  ServerInv'
  <2>1. CASE SendFails(s)
    BY <2>1 DEF SendFails, StopServer
  <2>2. CASE (\E d \in hleft[s] : ReadDevice(s, d)) \/ SendDevices(s) \/ ReceiveClosed(s)
    BY <2>2 DEF ReadDevice, SendDevices, ReceiveClosed, TypeOK
  <2>3. CASE SetHealth(s)
    BY <2>3 DEF SetHealth, SendDevicesBegins, TypeOK
  <2>4. QED
    BY <1>7, <2>1, <2>2, <2>3 DEF ListAndWatch
<1>8. CASE XidOnDevice \/ XidOnNode
  BY <1>8 DEF XidOnDevice, XidOnNode, CatchError
<1>9. ASSUME NEW d \in hcTodo, SkipDevice(d)
      PROVE  ServerInv'
  BY <1>9 DEF SkipDevice
<1>10. ASSUME NEW d \in hcTodo, NEW s \in Stream, SendHealth(d, s)
       PROVE  ServerInv'
  BY <1>10 DEF SendHealth, TypeOK
<1>11. CASE Allocation
  <2>1. open # {}
    BY <1>11
    DEF Allocation, Allocate, AllocateDevice, AllocateReturns, Granted, NoAlloc
  <2>2. QED
    BY <1>11, <2>1 DEF Allocation, Allocate, AllocateDevice, AllocateReturns
<1>12. ASSUME NEW s \in Stream, KubeletCallsListAndWatch(s)
       PROVE  ServerInv'
  BY <1>12 DEF KubeletCallsListAndWatch, SendDevicesBegins, TypeOK
<1>13. CASE KubeletDisconnects
  BY <1>13 DEF KubeletDisconnects
<1>14. CASE KubeletDies \/ KubeletStarts \/ KubeletListens
  BY <1>14 DEF KubeletDies, KubeletStarts, KubeletListens
<1>15. CASE DeviceFileAppears \/ NVMLListsGPU \/ ProcessStarts
  BY <1>15 DEF DeviceFileAppears, NVMLListsGPU, ProcessStarts
<1>16. CASE UNCHANGED vars
  BY <1>16 DEF vars
<1>17. QED
  BY <1>1, <1>2, <1>3, <1>4, <1>5, <1>6, <1>7, <1>8, <1>9, <1>10, <1>11,
     <1>12, <1>13, <1>14, <1>15, <1>16
  DEF Next, Serve, HealthChecker, Kubelet, Environment

\* A stale view has a handler that will correct it.
LEMMA NextFresh ==
  ASSUME TypeOK, ServerInv, FreshInv, ListedMarksInv, [Next]_vars
  PROVE  FreshInv'
<1> USE DEF serveVars, serverVars, kubeletVars
<1>1. CASE Disconnecting
  <2>1. CASE UNCHANGED <<hpc, hleft>>
    BY <1>1, <2>1 DEF Disconnecting, FreshInv
  <2>2. CASE ProcessGone
    BY <1>1, <2>2 DEF Disconnecting, ProcessGone, FreshInv
  <2>3. ASSUME NEW s \in Stream, hleft[s] = {}, HandlerReturns(s)
        PROVE  FreshInv'
    BY <1>1, <2>3 DEF Disconnecting, HandlerReturns, FreshInv, TypeOK
  <2> QED  BY <1>1, <2>1, <2>2, <2>3 DEF Disconnecting
<1>2. CASE Elsewhere
  BY <1>2 DEF Elsewhere, FreshInv, ListDevices
<1>3. CASE Allocation
  BY <1>3 DEF Allocation, Allocate, AllocateDevice, AllocateReturns,
              handlerVars, FreshInv, ListDevices
<1>4. ASSUME NEW s \in Stream, HandlerStep(s)
      PROVE  FreshInv'
  <2>1. ASSUME NEW d \in hleft[s], ReadDevice(s, d)
        PROVE  FreshInv'
    <3>1. /\ hleft'[s] = hleft[s] \ {d}
          /\ \A t \in Stream \ {s} : hleft'[t] = hleft[t] /\ hsnap'[t] = hsnap[t]
      BY <2>1 DEF ReadDevice, TypeOK
    <3>2. \A id \in DeviceID :
            hsnap'[s][id] = IF PhysicalOf(id) = d THEN devices[d] ELSE hsnap[s][id]
      BY <2>1 DEF ReadDevice, ListDevice, TypeOK
    <3>3. hpc[s] = "send" /\ UNCHANGED <<hpc, devices, view, conn, open>>
      BY <2>1 DEF ReadDevice
    <3> QED  BY <3>1, <3>2, <3>3 DEF FreshInv, ListDevices
  <2>2. CASE SendDevices(s)
    <3>1. s = conn /\ conn' = conn
      BY <2>2 DEF SendDevices, ServerInv
    <3>2. \A id \in DeviceID : hsnap[s] \in Report /\ PhysicalOf(id) \notin hleft[s]
      BY <2>2 DEF SendDevices, TypeOK
    <3>3. hsnap[s] # ListDevices(devices) =>
            \E id \in DeviceID : hsnap[s][id] # devices[PhysicalOf(id)]
      BY <3>2 DEF ListDevices, TypeOK, Report
    <3>4. QED
      BY <2>2, <3>1, <3>2, <3>3 DEF SendDevices, FreshInv, TypeOK, ListDevices
  <2>3. CASE ReceiveClosed(s)
    BY <2>3 DEF ReceiveClosed, FreshInv, TypeOK, ListDevices
  <2>4. CASE SetHealth(s)
    <3>1. /\ hpc' = [hpc EXCEPT ![s] = "send"] /\ UNCHANGED <<hsnap, open, conn>>
          /\ hleft' = [hleft EXCEPT ![s] = ListPhysicalDevices(devices')]
      BY <2>4 DEF SetHealth, SendDevicesBegins
    <3>2. s \in open => \A id \in DeviceID :
            PhysicalOf(id) \notin hleft'[s] => hsnap'[s][id] = devices'[PhysicalOf(id)]
      <4>1. \A id \in DeviceID : PhysicalOf(id) \in Physical
                              /\ PhysicalOf(id) \in Device
        BY PhysicalOfType, PhysicalType
      <4>2. \A d \in Device : devices'[d] = Absent => devices[d] = Absent
        BY <2>4 DEF SetHealth, SetDeviceHealth, TypeOK, Table, Absent, Unhealthy
      <4>3. hleft'[s] = ListPhysicalDevices(devices')
        BY <3>1 DEF TypeOK
      <4>4. \A id \in DeviceID : PhysicalOf(id) \notin hleft'[s] =>
              devices'[PhysicalOf(id)] = Absent /\ devices[PhysicalOf(id)] = Absent
        BY <4>1, <4>2, <4>3 DEF ListPhysicalDevices
      <4> QED  BY <3>1, <4>4 DEF ListedMarksInv
    <3>3. \A t \in Stream \ {s} : hpc'[t] = hpc[t] /\ hleft'[t] = hleft[t]
      BY <3>1 DEF TypeOK
    <3>4. hpc'[s] = "send"
      BY <3>1 DEF TypeOK
    <3> QED  BY <3>1, <3>2, <3>3, <3>4 DEF FreshInv
  <2>5. QED
    BY <1>4, <2>1, <2>2, <2>3, <2>4 DEF HandlerStep
<1>5. ASSUME NEW d \in hcTodo, NEW s \in Stream, SendHealth(d, s)
      PROVE  FreshInv'
  BY <1>5 DEF SendHealth, FreshInv, TypeOK, ListDevices
<1>6. ASSUME NEW s \in Stream, KubeletCallsListAndWatch(s)
      PROVE  FreshInv'
  <2>1. /\ hpc' = [hpc EXCEPT ![s] = "send"] /\ open' = {s} /\ conn' = s
        /\ hleft' = [hleft EXCEPT ![s] = ListPhysicalDevices(devices)]
        /\ UNCHANGED <<devices, hsnap>> /\ hsnap[s] = NoReport
    BY <1>6 DEF KubeletCallsListAndWatch, SendDevicesBegins, ListedMarksInv
  <2>2. \A t \in Stream : hpc'[t] # "send" => hleft'[t] = {}
    BY <2>1 DEF FreshInv, TypeOK
  <2>3. \A id \in DeviceID : PhysicalOf(id) \notin hleft'[s] =>
          hsnap'[s][id] = devices'[PhysicalOf(id)]
    BY <2>1, PhysicalOfType DEF ListPhysicalDevices, NoReport, TypeOK
  <2>4. hpc'[s] = "send"
    BY <2>1 DEF TypeOK
  <2> QED  BY <2>1, <2>2, <2>3, <2>4 DEF FreshInv
<1>7. QED
  BY <1>1, <1>2, <1>3, <1>4, <1>5, <1>6, StepKinds

\* Marks that were told stay in the table.
LEMMA NextListedMarks ==
  ASSUME TypeOK, ServerInv, ListedMarksInv, [Next]_vars
  PROVE  ListedMarksInv'
<1> USE DEF serveVars, serverVars, kubeletVars
<1>1. CASE Disconnecting
  BY <1>1 DEF Disconnecting, ProcessGone, HandlerReturns, ListedMarksInv, TypeOK
<1>2. CASE Elsewhere
  BY <1>2 DEF Elsewhere, ListedMarksInv
<1>3. CASE Allocation
  BY <1>3 DEF Allocation, Allocate, AllocateDevice, AllocateReturns,
              handlerVars, ListedMarksInv
<1>4. ASSUME NEW s \in Stream, HandlerStep(s)
      PROVE  ListedMarksInv'
  <2>1. ASSUME NEW d \in hleft[s], ReadDevice(s, d)
        PROVE  ListedMarksInv'
    <3>1. \A t \in Stream, id \in DeviceID :
            hsnap'[t][id] \in {hsnap[t][id], devices[PhysicalOf(id)]}
      BY <2>1 DEF ReadDevice, ListDevice, TypeOK
    <3>2. \A t \in Stream : hpc[t] = "free" => hsnap'[t] = hsnap[t]
      BY <2>1 DEF ReadDevice, TypeOK
    <3>3. UNCHANGED <<hpc, devices, open>>
      BY <2>1 DEF ReadDevice
    <3> QED  BY <3>1, <3>2, <3>3 DEF ListedMarksInv, TypeOK
  <2>2. CASE SendDevices(s) \/ ReceiveClosed(s)
    BY <2>2 DEF SendDevices, ReceiveClosed, ListedMarksInv, TypeOK
  <2>3. CASE SetHealth(s)
    <3>1. \A id \in DeviceID :
            devices'[PhysicalOf(id)] \in {devices[PhysicalOf(id)], Unhealthy}
      BY <2>3, PhysicalOfType, PhysicalType
      DEF SetHealth, SetDeviceHealth, TypeOK, Table
    <3> QED
      BY <2>3, <3>1
      DEF SetHealth, SendDevicesBegins, ListedMarksInv, TypeOK, Absent, Unhealthy
  <2>4. QED
    BY <1>4, <2>1, <2>2, <2>3 DEF HandlerStep
<1>5. ASSUME NEW d \in hcTodo, NEW s \in Stream, SendHealth(d, s)
      PROVE  ListedMarksInv'
  BY <1>5 DEF SendHealth, ListedMarksInv, TypeOK
<1>6. ASSUME NEW s \in Stream, KubeletCallsListAndWatch(s)
      PROVE  ListedMarksInv'
  BY <1>6 DEF KubeletCallsListAndWatch, SendDevicesBegins, ListedMarksInv, TypeOK,
              NoReport, Absent, Unhealthy
<1>7. QED
  BY <1>1, <1>2, <1>3, <1>4, <1>5, <1>6, StepKinds

\* What is allocated was not marked.
LEMMA NextAllocation ==
  ASSUME TypeOK, ServerInv, AllocationInv, [Next]_vars
  PROVE  AllocationInv'
<1> USE DEF serveVars, serverVars, kubeletVars
<1>1. CASE Disconnecting
  BY <1>1 DEF Disconnecting, AllocationInv, NoAlloc
<1>2. CASE Elsewhere
  BY <1>2 DEF Elsewhere, AllocationInv
<1>3. CASE Allocation
  <2>1. ASSUME NEW ids \in SUBSET DeviceID, Allocate(ids)
        PROVE  AllocationInv'
    BY <2>1 DEF Allocate, AllocationInv
  <2>2. ASSUME NEW id \in alloc.ids, AllocateDevice(id)
        PROVE  AllocationInv'
    BY <2>2 DEF AllocateDevice, DeviceSpecOK, AllocationInv, NoAlloc, TypeOK,
                Allocations
  <2>3. CASE AllocateReturns
    BY <2>3 DEF AllocateReturns, AllocationInv, NoAlloc
  <2>4. QED
    BY <1>3, <2>1, <2>2, <2>3 DEF Allocation
<1>4. ASSUME NEW s \in Stream, HandlerStep(s)
      PROVE  AllocationInv'
  <2>1. CASE (\E d \in hleft[s] : ReadDevice(s, d)) \/ SendDevices(s) \/ ReceiveClosed(s)
    BY <2>1 DEF ReadDevice, SendDevices, ReceiveClosed, AllocationInv
  <2>2. CASE SetHealth(s)
    BY <2>2, PhysicalOfType, PhysicalType
    DEF SetHealth, SetDeviceHealth, AllocationInv, TypeOK, Table, Allocations,
        Healthy, Unhealthy
  <2>3. QED
    BY <1>4, <2>1, <2>2 DEF HandlerStep
<1>5. ASSUME NEW d \in hcTodo, NEW s \in Stream, SendHealth(d, s)
      PROVE  AllocationInv'
  BY <1>5 DEF SendHealth, AllocationInv
<1>6. ASSUME NEW s \in Stream, KubeletCallsListAndWatch(s)
      PROVE  AllocationInv'
  BY <1>6 DEF KubeletCallsListAndWatch, AllocationInv, NoAlloc
<1>7. QED
  BY <1>1, <1>2, <1>3, <1>4, <1>5, <1>6, StepKinds

-----------------------------------------------------------------------------
(***************************************************************************)
(* The theorems.                                                           *)
(***************************************************************************)

\* The strengthened invariant of the plugin: server, kubelet, handlers and
\* requests fit together in every reachable state.
THEOREM Invariance == Spec => []IInv
<1>1. IInv /\ [Next]_vars => IInv'
  BY NextType, NextServer, NextFresh, NextListedMarks, NextAllocation DEF IInv
<1>2. QED
  BY InitInv, <1>1, PTL DEF Spec

\* Whatever handlers of earlier servers take from the Health channel, the
\* kubelet holds an outdated list only while a restart is on its way.
THEOREM StaleViewsAreCorrected == Spec => []StaleViewIsCorrected
<1>1. IInv => StaleViewIsCorrected
  BY DEF IInv, FreshInv, StaleViewIsCorrected
<1>2. QED
  BY <1>1, Invariance, PTL

\* net.Listen never finds its own socket in the way, and tables are rewritten
\* by discovery only while no kubelet is connected.
THEOREM RestartsLeaveNothing == Spec => []RestartsFromNothing
<1>1. IInv => RestartsFromNothing
  BY DEF IInv, ServerInv, RestartsFromNothing
<1>2. QED
  BY <1>1, Invariance, PTL

\* Without MIG no container is given a GPU that was marked before it asked,
\* for any sharing strategy and any number of devices in the request.
THEOREM MarkedGPUsAreRefused ==
  ASSUME ~Partitioned
  PROVE  Spec => []BadDevicesAreRefused
<1>1. IInv => BadDevicesAreRefused
  BY DEF IInv, AllocationInv, BadDevicesAreRefused, Granted, TypeOK, Allocations
<1>2. QED
  BY <1>1, Invariance, PTL

\* A stream never takes back that a device is unhealthy, though GPUs may be
\* added, and marks be forgotten, in the life of the process.
THEOREM StreamsNeverRecover == Spec => NoRecoveryOnStream
<1> DEFINE Keeps ==
      \A s \in open \cap open', id \in DeviceID :
        hsnap[s][id] = Unhealthy => hsnap'[s][id] # Healthy
<1> USE DEF serveVars, serverVars, kubeletVars
<1>1. ASSUME IInv, [Next]_vars
      PROVE  Keeps
  <2> USE <1>1 DEF IInv
  <2>1. CASE Disconnecting
    BY <2>1 DEF Disconnecting
  <2>2. CASE Elsewhere
    BY <2>2 DEF Elsewhere, Healthy, Unhealthy
  <2>3. CASE Allocation
    BY <2>3 DEF Allocation, Allocate, AllocateDevice, AllocateReturns,
                handlerVars, Healthy, Unhealthy
  <2>4. ASSUME NEW s \in Stream, HandlerStep(s)
        PROVE  Keeps
    <3>1. ASSUME NEW d \in hleft[s], ReadDevice(s, d)
          PROVE  Keeps
      <4>1. \A t \in Stream, id \in DeviceID :
              hsnap'[t][id] \in {hsnap[t][id], devices[PhysicalOf(id)]}
        BY <3>1 DEF ReadDevice, ListDevice, TypeOK
      <4> QED  BY <4>1 DEF ListedMarksInv, TypeOK, Healthy, Unhealthy
    <3>2. CASE SendDevices(s) \/ ReceiveClosed(s) \/ SetHealth(s)
      BY <3>2 DEF SendDevices, ReceiveClosed, SetHealth, Healthy, Unhealthy
    <3>3. QED
      BY <2>4, <3>1, <3>2 DEF HandlerStep
  <2>5. ASSUME NEW d \in hcTodo, NEW s \in Stream, SendHealth(d, s)
        PROVE  Keeps
    BY <2>5 DEF SendHealth, Healthy, Unhealthy
  <2>6. ASSUME NEW s \in Stream, KubeletCallsListAndWatch(s)
        PROVE  Keeps
    BY <2>6 DEF KubeletCallsListAndWatch, Healthy, Unhealthy
  <2>7. QED
    BY <2>1, <2>2, <2>3, <2>4, <2>5, <2>6, StepKinds
<1>2. IInv /\ [Next]_vars => [Keeps]_vars
  BY <1>1
<1>3. QED
  BY <1>2, Invariance, PTL DEF Spec, NoRecoveryOnStream
-----------------------------------------------------------------------------
(***************************************************************************)
(* The abstract register of marks.                                         *)
(***************************************************************************)

\* Tables by what they do to marks: a new process, and a discovery, drop some.
LEMMA MarksDrop ==
  ASSUME TypeOK,
         \/ devices' = devices \/ devices' = NoTable
         \/ \E found : \/ devices' = DiscoverGPUs(devices, found)
                       \/ devices' = DiscoverPartitions(DiscoverGPUs(devices, found), found)
  PROVE  MarkedIDs' \in SUBSET MarkedIDs
<1>1. \A d \in Device : devices'[d] = Unhealthy => devices[d] = Unhealthy
  BY DEF NoTable, DiscoverGPUs, DiscoverPartitions, Absent, Healthy, Unhealthy
<1>2. \A id \in DeviceID : PhysicalOf(id) \in Device
  BY PhysicalOfType, PhysicalType
<1> QED  BY <1>1, <1>2 DEF MarkedIDs

\* And views: a kubelet that loses its stream, or its state, offers less.
LEMMA OffersDrop ==
  ASSUME TypeOK,
         \/ view' = view \/ view' = NoReport
         \/ view' = [id \in DeviceID |-> IF view[id] = Absent THEN Absent ELSE Unhealthy]
  PROVE  OfferedIDs' \in SUBSET OfferedIDs
BY DEF OfferedIDs, NoReport, Absent, Healthy, Unhealthy

\* Only handlers mark, only sends renew the kubelet's view.
LEMMA MarksAndOffersDrop ==
  ASSUME TypeOK, [Next]_vars, \A s \in Stream : ~SetHealth(s) /\ ~SendDevices(s)
  PROVE  MarkedIDs' \in SUBSET MarkedIDs /\ OfferedIDs' \in SUBSET OfferedIDs
<1> USE DEF nodeVars, serveVars, serverVars, handlerVars, hcVars, kubeletVars
<1>1. CASE UNCHANGED <<devices, view>>
  BY <1>1, MarksDrop, OffersDrop
<1>2. CASE StartManager \/ Rediscover \/ RediscoverFails
  BY <1>2, MarksDrop, OffersDrop DEF StartManager, Rediscover, RediscoverFails
<1>3. CASE RegisterFails \/ HealthCheckerPanics \/ Crash \/ ConcurrentMapAccess
  BY <1>3, MarksDrop, OffersDrop
     DEF RegisterFails, HealthCheckerPanics, Crash, ConcurrentMapAccess, ProcessGone
<1>4. CASE KubeletDisconnects \/ KubeletDies
  BY <1>4, MarksDrop, OffersDrop DEF KubeletDisconnects, KubeletDies
<1>5. CASE StatKubeletSocket \/ WatchPluginDirectory \/ Listen \/ Register
  BY <1>1, <1>5 DEF StatKubeletSocket, WatchPluginDirectory, Listen, Register
<1>6. CASE SocketCheck \/ GPUCheck \/ KubeletSocketCreated
  BY <1>1, <1>6 DEF SocketCheck, GPUCheck, KubeletSocketCreated
<1>7. CASE Stop
  BY <1>1, <1>7 DEF Stop, StopRemovesSocket, StopSends, ServeStops, StopClosesHealth
<1>8. ASSUME NEW s \in Stream, ListAndWatch(s)
      PROVE  UNCHANGED <<devices, view>>
  BY <1>8 DEF ListAndWatch, ReadDevice, SendFails, ReceiveClosed
<1>9. CASE HealthChecker
  <2>1. CASE XidOnDevice \/ XidOnNode
    BY <1>1, <2>1 DEF XidOnDevice, XidOnNode, CatchError
  <2>2. ASSUME NEW d \in hcTodo, SkipDevice(d)
        PROVE  UNCHANGED <<devices, view>>
    BY <2>2 DEF SkipDevice
  <2>3. ASSUME NEW d \in hcTodo, NEW s \in Stream, SendHealth(d, s)
        PROVE  UNCHANGED <<devices, view>>
    BY <2>3 DEF SendHealth
  <2> QED  BY <1>1, <1>3, <1>9, <2>1, <2>2, <2>3 DEF HealthChecker
<1>10. CASE Allocation
  BY <1>1, <1>10 DEF Allocation, Allocate, AllocateDevice, AllocateReturns
<1>11. ASSUME NEW s \in Stream, KubeletCallsListAndWatch(s)
       PROVE  UNCHANGED <<devices, view>>
  BY <1>11 DEF KubeletCallsListAndWatch
<1>12. CASE KubeletStarts \/ KubeletListens
  BY <1>1, <1>12 DEF KubeletStarts, KubeletListens
<1>13. CASE DeviceFileAppears \/ NVMLListsGPU \/ ProcessStarts
  BY <1>1, <1>13 DEF DeviceFileAppears, NVMLListsGPU, ProcessStarts
<1>14. CASE UNCHANGED vars
  BY <1>1, <1>14 DEF vars
<1> QED
  BY <1>1, <1>2, <1>3, <1>4, <1>5, <1>6, <1>7, <1>8, <1>9, <1>10, <1>11, <1>12, <1>13, <1>14
     DEF Next, Serve, Kubelet, Environment

\* What is marked is in the table, and a list that begins has it to read.
LEMMA MarkedAreListed ==
  ASSUME NEW table
  PROVE  \A id \in DeviceID :
           table[PhysicalOf(id)] = Unhealthy => PhysicalOf(id) \in ListPhysicalDevices(table)
BY PhysicalOfType DEF ListPhysicalDevices, Absent, Unhealthy

\* A health event that a handler has received is a mark, whichever handler it
\* is; the handler of the stream that works begins another list.
LEMMA SetHealthMarks ==
  ASSUME TypeOK, ServerInv, NEW s \in Stream, SetHealth(s)
  PROVE  Promise!Mark
<1> USE DEF serveVars, serverVars, kubeletVars
<1> DEFINE ids == IF hdev[s] = NoDevice THEN {}
                  ELSE {id \in DeviceID : PhysicalOf(id) = hdev[s]}
<1>1. UNCHANGED <<open, hsnap, view>>
  BY DEF SetHealth
<1>2. ListedIDs' = ListedIDs /\ OfferedIDs' = OfferedIDs /\ (open' # {} <=> open # {})
  BY <1>1 DEF ListedIDs, OfferedIDs
<1>3. MarkedIDs' = MarkedIDs \cup ids
  <2>1. CASE hdev[s] = NoDevice
    BY <2>1 DEF SetHealth, MarkedIDs
  <2>2. CASE hdev[s] # NoDevice
    <3>1. hdev[s] \in Device /\ devices \in [Device -> Status]
      BY <2>2 DEF TypeOK, Table
    <3>2. \A d \in Device : devices'[d] = IF d = hdev[s] THEN Unhealthy ELSE devices[d]
      BY <2>2, <3>1 DEF SetHealth, SetDeviceHealth
    <3>3. \A id \in DeviceID : PhysicalOf(id) \in Device
      BY PhysicalOfType, PhysicalType
    <3> QED  BY <2>2, <3>2, <3>3 DEF MarkedIDs
  <2> QED  BY <2>1, <2>2
<1>4. hleft' = [hleft EXCEPT ![s] = ListPhysicalDevices(devices')]
  BY DEF SetHealth, SendDevicesBegins
<1>5. CASE s \in open
  <2>1. open = {s} /\ open' = {s}
    BY <1>1, <1>5 DEF ServerInv
  <2>2. UnreadIDs' = {id \in DeviceID : PhysicalOf(id) \in ListPhysicalDevices(devices')}
    BY <1>4, <2>1 DEF UnreadIDs, TypeOK
  <2>3. MarkedIDs' \subseteq UnreadIDs' /\ UnreadIDs' \in SUBSET DeviceID
    BY <2>2, MarkedAreListed DEF MarkedIDs
  <2> QED  BY <1>2, <1>3, <2>1, <2>3 DEF Promise!Mark, Promise!Begin
<1>6. CASE s \notin open
  <2>1. \A t \in open : hleft'[t] = hleft[t]
    BY <1>4, <1>6 DEF TypeOK
  <2>2. UnreadIDs' = UnreadIDs
    BY <1>1, <2>1 DEF UnreadIDs
  <2> QED  BY <1>2, <1>3, <2>2 DEF Promise!Mark
<1> QED  BY <1>5, <1>6

\* A device that the handler of the working stream reads is a few of its IDs.
LEMMA ReadDeviceReads ==
  ASSUME TypeOK, ServerInv, ListedMarksInv,
         NEW s \in Stream, NEW d \in hleft[s], ReadDevice(s, d)
  PROVE  Promise!Read \/ UNCHANGED Promise!vars
<1> USE DEF serveVars, serverVars, kubeletVars
<1>1. UNCHANGED <<open, devices, view>>
  BY DEF ReadDevice
<1>2. MarkedIDs' = MarkedIDs /\ OfferedIDs' = OfferedIDs /\ (open' # {} <=> open # {})
  BY <1>1 DEF MarkedIDs, OfferedIDs
<1>3. /\ hsnap' = [hsnap EXCEPT ![s] = ListDevice(@, devices, d)]
      /\ hleft' = [hleft EXCEPT ![s] = @ \ {d}]
      /\ hsnap \in [Stream -> Report]
  BY DEF ReadDevice, TypeOK
<1>4. CASE s \in open
  <2> DEFINE ids == {id \in DeviceID : PhysicalOf(id) = d}
  <2>1. open = {s}
    BY <1>4 DEF ServerInv
  <2>2. /\ UnreadIDs  = {id \in DeviceID : PhysicalOf(id) \in hleft[s]}
        /\ UnreadIDs' = {id \in DeviceID : PhysicalOf(id) \in hleft'[s]}
        /\ ListedIDs  = {id \in DeviceID : hsnap[s][id] = Unhealthy}
        /\ ListedIDs' = {id \in DeviceID : hsnap'[s][id] = Unhealthy}
    BY <1>1, <2>1 DEF UnreadIDs, ListedIDs
  <2>3. UnreadIDs' = UnreadIDs \ ids /\ ids \in SUBSET UnreadIDs
    BY <1>3, <2>2 DEF TypeOK
  <2>4. \A id \in DeviceID :
          hsnap'[s][id] = IF PhysicalOf(id) = d THEN devices[d] ELSE hsnap[s][id]
    BY <1>3 DEF ListDevice
  <2>5. \A id \in ids : hsnap[s][id] = Unhealthy => devices[d] = Unhealthy
    BY <1>4 DEF ListedMarksInv
  <2>6. ListedIDs' = ListedIDs \cup (ids \cap MarkedIDs)
    BY <2>2, <2>4, <2>5 DEF MarkedIDs
  <2> QED  BY <1>2, <1>4, <2>3, <2>6 DEF Promise!Read
<1>5. CASE s \notin open
  <2>1. \A t \in open : hsnap'[t] = hsnap[t] /\ hleft'[t] = hleft[t]
    BY <1>3, <1>5 DEF TypeOK
  <2>2. ListedIDs' = ListedIDs /\ UnreadIDs' = UnreadIDs
    BY <1>1, <2>1 DEF ListedIDs, UnreadIDs
  <2> QED  BY <1>2, <2>2 DEF Promise!vars
<1> QED  BY <1>4, <1>5

\* What is sent on a working stream is the list that was made for it, when
\* every device of it has been read.
LEMMA SendDevicesDelivers ==
  ASSUME TypeOK, ServerInv, NEW s \in Stream, SendDevices(s)
  PROVE  Promise!Deliver
<1> USE DEF serveVars, serverVars
<1>1. /\ UNCHANGED <<open, devices, hleft, hsnap>>
      /\ s \in open /\ view' = hsnap[s] /\ hleft[s] = {}
  BY DEF SendDevices
<1>2. /\ MarkedIDs' = MarkedIDs /\ ListedIDs' = ListedIDs /\ UnreadIDs' = UnreadIDs
      /\ (open' # {} <=> open # {})
  BY <1>1 DEF MarkedIDs, ListedIDs, UnreadIDs
<1>3. open = {s}
  BY <1>1 DEF ServerInv
<1>4. \A id \in OfferedIDs' : id \in DeviceID /\ id \notin ListedIDs
  BY <1>1, <1>3 DEF OfferedIDs, ListedIDs, Healthy, Unhealthy
<1>5. UnreadIDs = {}
  BY <1>1, <1>3 DEF UnreadIDs
<1> QED  BY <1>1, <1>2, <1>4, <1>5 DEF Promise!Deliver

\* A new stream has listed nothing yet, and begins its first list.
LEMMA NewStreamConnects ==
  ASSUME TypeOK, ListedMarksInv, NEW s \in Stream, KubeletCallsListAndWatch(s)
  PROVE  Promise!Connect
<1> USE DEF serveVars
<1>1. /\ UNCHANGED <<devices, hsnap, view>> /\ open' = {s} /\ hpc[s] = "free"
      /\ hleft' = [hleft EXCEPT ![s] = ListPhysicalDevices(devices)]
  BY DEF KubeletCallsListAndWatch, SendDevicesBegins
<1>2. MarkedIDs' = MarkedIDs /\ OfferedIDs' = OfferedIDs
  BY <1>1 DEF MarkedIDs, OfferedIDs
<1>3. hsnap'[s] = NoReport
  BY <1>1 DEF ListedMarksInv
<1>4. ListedIDs' = {}
  BY <1>1, <1>3 DEF ListedIDs, NoReport, Absent, Unhealthy
<1>5. UnreadIDs' = {id \in DeviceID : PhysicalOf(id) \in ListPhysicalDevices(devices)}
  BY <1>1 DEF UnreadIDs, TypeOK
<1>6. MarkedIDs' \subseteq UnreadIDs' /\ UnreadIDs' \in SUBSET DeviceID
  BY <1>2, <1>5, MarkedAreListed DEF MarkedIDs
<1> QED  BY <1>1, <1>2, <1>4, <1>6 DEF Promise!Connect, Promise!Begin

\* The device plugin implements the register of marks: whatever fails, restarts
\* or is added, and whichever handler takes a health event, a working stream
\* never takes a mark back, each of its lists has every mark that was there when
\* the list was begun (though devices are read one at a time, beside handlers
\* that write), and the kubelet offers no ID that the list has marked.
THEOREM MarksAreRegistered == Spec => ImplementsHealthRegister
<1>1. Init => Promise!Init
  <2> SUFFICES ASSUME Init PROVE Promise!Init
    OBVIOUS
  <2>1. open = {} /\ devices = NoTable /\ view = NoReport
    BY DEF Init
  <2>2. \A id \in DeviceID : PhysicalOf(id) \in Device
    BY PhysicalOfType, PhysicalType
  <2>3. MarkedIDs = {} /\ ListedIDs = {} /\ UnreadIDs = {} /\ OfferedIDs = {}
    BY <2>1, <2>2
       DEF MarkedIDs, ListedIDs, UnreadIDs, OfferedIDs, NoTable, NoReport, Absent,
           Healthy, Unhealthy
  <2> QED  BY <2>1, <2>3 DEF Promise!Init
<1>2. ASSUME IInv, [Next]_vars
      PROVE  [Promise!Next]_(Promise!vars)
  <2> USE <1>2 DEF IInv, Promise!Next, serveVars, serverVars, kubeletVars
  <2>1. ASSUME NEW s \in Stream, SetHealth(s) \/ SendDevices(s)
        PROVE  [Promise!Next]_(Promise!vars)
    BY <2>1, SetHealthMarks, SendDevicesDelivers
  <2>2. CASE \A s \in Stream : ~SetHealth(s) /\ ~SendDevices(s)
    <3>1. MarkedIDs' \in SUBSET MarkedIDs /\ OfferedIDs' \in SUBSET OfferedIDs
      BY <2>2, MarksAndOffersDrop
    <3>2. CASE Disconnecting
      <4>1. open' = {} /\ ListedIDs' = {} /\ UnreadIDs' = {}
        BY <3>2 DEF Disconnecting, ListedIDs, UnreadIDs
      <4> QED  BY <3>1, <4>1 DEF Promise!Disconnected
    <3>3. ASSUME UNCHANGED <<devices, hleft, hsnap, open, view>>
          PROVE  UNCHANGED Promise!vars
      BY <3>3 DEF Promise!vars, MarkedIDs, ListedIDs, UnreadIDs, OfferedIDs
    <3>4. CASE Elsewhere \/ Allocation
      BY <3>3, <3>4 DEF Elsewhere, Allocation, Allocate, AllocateDevice,
                        AllocateReturns, handlerVars
    <3>5. ASSUME NEW s \in Stream, HandlerStep(s)
          PROVE  [Promise!Next]_(Promise!vars)
      <4>1. ASSUME NEW d \in hleft[s], ReadDevice(s, d)
            PROVE  [Promise!Next]_(Promise!vars)
        BY <4>1, ReadDeviceReads
      <4>2. CASE ReceiveClosed(s)
        BY <3>3, <4>2 DEF ReceiveClosed
      <4> QED  BY <2>2, <3>5, <4>1, <4>2 DEF HandlerStep
    <3>6. ASSUME NEW d \in hcTodo, NEW s \in Stream, SendHealth(d, s)
          PROVE  UNCHANGED Promise!vars
      BY <3>3, <3>6 DEF SendHealth
    <3>7. ASSUME NEW s \in Stream, KubeletCallsListAndWatch(s)
          PROVE  [Promise!Next]_(Promise!vars)
      BY <3>7, NewStreamConnects
    <3> QED  BY <3>2, <3>4, <3>5, <3>6, <3>7, StepKinds
  <2> QED  BY <2>1, <2>2
<1> QED  BY <1>1, <1>2, Invariance, PTL DEF Spec, ImplementsHealthRegister, Promise!Spec

-----------------------------------------------------------------------------
(***************************************************************************)
(* Nodes to which no GPU is added.                                         *)
(***************************************************************************)

\* Such a node always has all of its GPUs, a process that serves knows all of
\* them, so it never discovers them again, and one that starts knows none.
FixedNode ==
  /\ devFiles = GPU /\ nvmlGPUs = GPU
  /\ pc \in {"down", "start"} =>
       devices = NoTable /\ \A s \in Stream : hpc[s] = "free"
  /\ pc \notin {"down", "start"} => \A g \in GPU : devices[g] # Absent
  /\ pc # "rediscover"

\* MarksAreKept, of one step.
KeepsMarks ==
  \A d \in Physical :
    devices[d] = Unhealthy /\ pc' # "down" => devices'[d] = Unhealthy

\* A process that has died leaves nothing behind.
LEMMA FixedProcessGone ==
  ASSUME FixedNode, ProcessGone
  PROVE  FixedNode' /\ KeepsMarks
BY DEF FixedNode, ProcessGone, nodeVars, KeepsMarks

\* With every GPU in the table there is no additional one.
LEMMA NoAdditionalGPUs ==
  ASSUME IsFiniteSet(GPU), FixedNode, pc = "watch"
  PROVE  ~HasAdditionalGPUs(devices, devFiles)
<1>1. {g \in GPU : devices[g] # Absent} = GPU
  BY DEF FixedNode
<1>2. Cardinality(GPU) \in Nat
  BY FS_CardinalityType
<1> QED BY <1>1, <1>2 DEF FixedNode, HasAdditionalGPUs

\* Every step leaves the node as it is and forgets no mark.
LEMMA NextFixed ==
  ASSUME IsFiniteSet(GPU), TypeOK, ServerInv, FixedNode, [Next]_vars
  PROVE  FixedNode' /\ KeepsMarks
<1> USE DEF nodeVars, serveVars, handlerVars
<1>1. CASE StartManager
  <2>1. \A d \in Device : devices[d] = Absent
    BY <1>1 DEF StartManager, FixedNode, NoTable
  <2>2. \A g \in GPU : g \in Device /\ devices'[g] = Healthy
    BY <1>1
    DEF StartManager, FixedNode, DiscoverPartitions, DiscoverGPUs, Device
  <2> QED
    BY <1>1, <2>1, <2>2, PhysicalType
    DEF StartManager, FixedNode, KeepsMarks, Healthy, Unhealthy, Absent
<1>2. CASE StatKubeletSocket \/ WatchPluginDirectory \/ Listen \/ Register
  BY <1>2 DEF StatKubeletSocket, WatchPluginDirectory, Listen, Register,
              FixedNode, KeepsMarks
<1>3. CASE RegisterFails \/ ConcurrentMapAccess
  BY <1>3, FixedProcessGone DEF RegisterFails, ConcurrentMapAccess
<1>4. CASE SocketCheck \/ KubeletSocketCreated
  BY <1>4 DEF SocketCheck, KubeletSocketCreated, RestartServer, FixedNode,
              KeepsMarks
<1>5. CASE GPUCheck
  BY <1>5, NoAdditionalGPUs DEF GPUCheck
<1>6. CASE Rediscover \/ RediscoverFails
  BY <1>6 DEF Rediscover, RediscoverFails, FixedNode
<1>7. CASE Stop
  BY <1>7 DEF Stop, StopRemovesSocket, StopSends, ServeStops, StopClosesHealth,
              FixedNode, KeepsMarks
<1>8. CASE \E s \in Stream : ListAndWatch(s)
  <2> PICK s \in Stream : ListAndWatch(s)
    BY <1>8
  <2>1. pc \notin {"down", "start"} \/ hpc[s] = "free"
    BY DEF FixedNode
  <2>2. CASE (\E d \in hleft[s] : ReadDevice(s, d)) \/ SendDevices(s) \/ ReceiveClosed(s)
    BY <2>1, <2>2 DEF ReadDevice, SendDevices, ReceiveClosed, FixedNode, KeepsMarks
  <2>3. CASE SendFails(s)
    BY <2>1, <2>3 DEF SendFails, HandlerReturns, FixedNode, KeepsMarks
  <2>4. CASE SetHealth(s)
    <3>1. \A d \in Device : devices'[d] \in {devices[d], Unhealthy}
      BY <2>4 DEF SetHealth, SetDeviceHealth, TypeOK, Table
    <3>2. pc' = pc /\ pc \notin {"down", "start"} /\ UNCHANGED nodeVars
      BY <2>1, <2>4 DEF SetHealth
    <3> QED
      BY <3>1, <3>2, PhysicalType DEF FixedNode, KeepsMarks, Device, Absent, Unhealthy
  <2> QED
    BY <2>2, <2>3, <2>4 DEF ListAndWatch
<1>9. CASE HealthChecker
  <2>1. CASE XidOnDevice \/ XidOnNode
    BY <2>1 DEF XidOnDevice, XidOnNode, CatchError, FixedNode, KeepsMarks
  <2>2. ASSUME NEW d \in hcTodo, SkipDevice(d)
        PROVE  FixedNode' /\ KeepsMarks
    BY <2>2 DEF SkipDevice, FixedNode, KeepsMarks
  <2>3. ASSUME NEW d \in hcTodo, NEW s \in Stream, SendHealth(d, s)
        PROVE  FixedNode' /\ KeepsMarks
    BY <2>3 DEF SendHealth, FixedNode, KeepsMarks
  <2>4. CASE HealthCheckerPanics
    BY <2>4, FixedProcessGone DEF HealthCheckerPanics
  <2> QED
    BY <1>9, <2>1, <2>2, <2>3, <2>4 DEF HealthChecker
<1>10. CASE Allocation
  BY <1>10 DEF Allocation, Allocate, AllocateDevice, AllocateReturns,
               FixedNode, KeepsMarks
<1>11. CASE Kubelet
  <2>1. ASSUME NEW s \in Stream, KubeletCallsListAndWatch(s)
        PROVE  FixedNode' /\ KeepsMarks
    <3>1. pc \notin {"down", "start"}
      BY <2>1 DEF KubeletCallsListAndWatch, ServerInv
    <3> QED
      BY <2>1, <3>1 DEF KubeletCallsListAndWatch, FixedNode, KeepsMarks
  <2>2. CASE KubeletDisconnects \/ KubeletDies \/ KubeletStarts \/ KubeletListens
    BY <2>2 DEF KubeletDisconnects, KubeletDies, KubeletStarts, KubeletListens,
                FixedNode, KeepsMarks
  <2> QED
    BY <1>11, <2>1, <2>2 DEF Kubelet
<1>12. CASE Environment
  <2>1. ~DeviceFileAppears /\ ~NVMLListsGPU
    BY DEF DeviceFileAppears, NVMLListsGPU, FixedNode
  <2>2. CASE Crash
    BY <2>2, FixedProcessGone DEF Crash
  <2>3. CASE ProcessStarts
    BY <2>3 DEF ProcessStarts, FixedNode, KeepsMarks
  <2> QED
    BY <1>12, <2>1, <2>2, <2>3 DEF Environment
<1>13. CASE UNCHANGED vars
  BY <1>13 DEF vars, FixedNode, KeepsMarks
<1> QED
  BY <1>1, <1>2, <1>3, <1>4, <1>5, <1>6, <1>7, <1>8, <1>9, <1>10, <1>11, <1>12,
     <1>13 DEF Next, Serve

\* A critical Xid marks a GPU until the process ends, on a node to which no GPU
\* is added: rediscovery, which is what forgets marks, never runs there.
THEOREM MarksAreKeptOnFixedNodes ==
  ASSUME InitialGPUs = GPU, IsFiniteSet(GPU)
  PROVE  Spec => MarksAreKept
<1>1. Init => FixedNode
  BY DEF Init, FixedNode
<1>2. IInv /\ FixedNode /\ [Next]_vars => FixedNode' /\ [KeepsMarks]_vars
  BY NextFixed DEF IInv
<1>3. [KeepsMarks]_vars => [\A d \in Physical :
         devices[d] = Unhealthy /\ pc' # "down" => devices'[d] = Unhealthy]_vars
  BY DEF KeepsMarks
<1>4. QED
  BY <1>1, <1>2, <1>3, Invariance, PTL DEF Spec, MarksAreKept
=============================================================================

---------------------------- MODULE DevicePlugin ----------------------------
(***************************************************************************)
(* The GPU device plugin of one node: the Serve loop of nvidiaGPUManager,  *)
(* the gRPC server it starts and restarts, the ListAndWatch and Allocate   *)
(* handlers, the event loop of the GPU health checker, and around them the *)
(* kubelet, the device files, NVML and the restarts of the container.      *)
(*                                                                         *)
(* grpc.Server.Stop closes the listener and the connections but does not   *)
(* wait for handlers, and ListAndWatch never looks at the context of its   *)
(* stream: a handler whose connection is gone stays blocked on the Health  *)
(* channel, beside the handler of the next server, and may be the one that *)
(* receives the next health event.                                         *)
(*                                                                         *)
(* ngm.devices and the table of partitions are maps that writers lock and  *)
(* readers do not: a list is read one device at a time, beside handlers    *)
(* that set the health of devices, and the runtime of Go may end a process *)
(* in which it notices that a map is read while it is written.             *)
(***************************************************************************)
EXTENDS GPUDevices

CONSTANTS
  MaxStreams,          \* bound: ListAndWatch handlers that exist at a time
  NoDevice,            \* the zero Device a closed Health channel yields
  InitialGPUs,         \* GPUs present when the node boots
  MayStop,             \* whether somebody calls ngm.Stop
  PromptHandlers,      \* a handler that can run is done before the next tick
  FileMayComeFirst,    \* a GPU may have its device file before NVML lists it
  MaxXids,             \* bound: critical Xid errors
  MaxKubeletRestarts,  \* bound: kubelet restarts
  MaxCrashes,          \* bound: deaths of the plugin process
  MaxRequest           \* bound: devices in one Allocate request

ASSUME PluginAssumption ==
  /\ MaxStreams \in Nat
  /\ NoDevice \notin Device
  /\ InitialGPUs \subseteq GPU
  /\ MayStop \in BOOLEAN /\ PromptHandlers \in BOOLEAN
  /\ FileMayComeFirst \in BOOLEAN
  /\ MaxXids \in Nat /\ MaxKubeletRestarts \in Nat
  /\ MaxCrashes \in Nat /\ MaxRequest \in Nat

VARIABLES
  \* the node
  devFiles,     \* GPUs with a /dev/nvidiaN file
  nvmlGPUs,     \* GPUs that NVML lists
  \* the manager and its Serve loop
  devices,      \* ngm.devices and the MIG manager's partitions
  pc,           \* where main and Serve are
  registerWithKubelet,
  events,       \* kubelet.sock Create events the watcher has not read
  live,         \* the current ngm.grpcServer has not been stopped
  socket,       \* its socket file is in the plugin directory
  stopper,      \* progress of a call of ngm.Stop
  \* ListAndWatch handlers
  hpc,          \* hpc[s]: where the handler is
  hdev,         \* hdev[s]: the device it received from Health
  hleft,        \* hleft[s]: devices it has yet to read for its next list
  hsnap,        \* hsnap[s]: what it has read of each ID, last time it did
  open,         \* streams whose connection still works
  \* the Allocate handler
  alloc,
  \* the GPU health checker
  hcDevices,    \* keys of hc.devices, cloned from the manager at start
  hcNvml,       \* keys of hc.nvmlDevices: the devices it did not skip
  hcTodo,       \* hc.devices that catchError has yet to visit
  hcTarget,     \* the devices the event is about
  hcByUUID,     \* the event named a device: catchError looks up UUIDs
  \* the kubelet
  kubelet,      \* "up", "down" or "starting"
  pending,      \* it has dialled back and not called ListAndWatch yet
  conn,         \* the stream it reads, or NoStream
  view,         \* what it believes of every device ID
  \* what is left of the bounds
  left

nodeVars    == <<devFiles, nvmlGPUs>>
serveVars   == <<pc, registerWithKubelet, events>>
serverVars  == <<live, socket, open, alloc, pending>>
handlerVars == <<hpc, hdev, hleft, hsnap>>
hcVars      == <<hcDevices, hcNvml, hcTodo, hcTarget, hcByUUID>>
kubeletVars == <<kubelet, conn, view>>

vars == <<nodeVars, devices, serveVars, serverVars, stopper, handlerVars,
          hcVars, kubeletVars, left>>

-----------------------------------------------------------------------------
(***************************************************************************)
(* Values.                                                                 *)
(***************************************************************************)

\* Handlers are numbered; a new one takes the lowest number that is free.
Stream   == 1 .. MaxStreams
NoStream == 0

ServePC   == {"down", "start", "stat", "watchdir", "serve", "register",
              "watch", "rediscover", "returned"}
HandlerPC == {"free", "send", "receive", "set"}

\* Serve is past its set-up: the watcher reads the plugin directory.
Watching == pc \in {"serve", "register", "watch", "rediscover"}

\* The process runs and the health checker has been started.
HealthCheckerRuns == pc \notin {"down", "start", "returned"}

Allocations == [ids : SUBSET DeviceID, granted : SUBSET DeviceID,
                bad : SUBSET DeviceID]
NoAlloc     == [ids |-> {}, granted |-> {}, bad |-> {}]

Budget == [xids : Nat, kubelet : Nat, crashes : Nat]

TypeOK ==
  /\ devFiles \in SUBSET GPU
  /\ nvmlGPUs \in SUBSET GPU
  /\ devices \in Table
  /\ pc \in ServePC
  /\ registerWithKubelet \in BOOLEAN
  /\ events \in Nat
  /\ live \in BOOLEAN
  /\ socket \in BOOLEAN
  /\ stopper \in {"idle", "removed", "sending", "closing", "stopped"}
  /\ hpc \in [Stream -> HandlerPC]
  /\ hdev \in [Stream -> Device \cup {NoDevice}]
  /\ hleft \in [Stream -> SUBSET Physical]
  /\ hsnap \in [Stream -> Report]
  /\ open \in SUBSET Stream
  /\ alloc \in Allocations
  /\ hcDevices \in SUBSET Physical
  /\ hcNvml \in SUBSET hcDevices
  /\ hcTodo \in SUBSET hcDevices
  /\ hcTarget \in SUBSET hcDevices
  /\ hcByUUID \in BOOLEAN
  /\ kubelet \in {"up", "down", "starting"}
  /\ pending \in BOOLEAN
  /\ conn \in Stream \cup {NoStream}
  /\ view \in Report
  /\ left \in Budget

Init ==
  /\ devFiles = InitialGPUs
  /\ nvmlGPUs = InitialGPUs
  /\ devices = NoTable
  /\ pc = "start"
  /\ registerWithKubelet = FALSE
  /\ events = 0
  /\ live = FALSE
  /\ socket = FALSE
  /\ stopper = "idle"
  /\ hpc = [s \in Stream |-> "free"]
  /\ hdev = [s \in Stream |-> NoDevice]
  /\ hleft = [s \in Stream |-> {}]
  /\ hsnap = [s \in Stream |-> NoReport]
  /\ open = {}
  /\ alloc = NoAlloc
  /\ hcDevices = {} /\ hcNvml = {} /\ hcTodo = {} /\ hcTarget = {}
  /\ hcByUUID = FALSE
  /\ kubelet = "up"
  /\ pending = FALSE
  /\ conn = NoStream
  /\ view = NoReport
  /\ left = [xids |-> MaxXids, kubelet |-> MaxKubeletRestarts,
             crashes |-> MaxCrashes]

-----------------------------------------------------------------------------
(***************************************************************************)
(* main and Serve, in the order they run.                                  *)
(***************************************************************************)

\* grpc.Server.Stop: the listener goes and takes its socket file with it,
\* the connections break and RPCs under way fail at the caller.  A second
\* call finds nothing left to close.
StopServer ==
  /\ live' = FALSE
  /\ socket' = FALSE
  /\ open' = {}
  /\ pending' = FALSE
  /\ alloc' = NoAlloc

\* ngm.Start and, when it succeeds, the start of the health checker.  With
\* MIG the manager refuses until every GPU of the node is partitioned.
\* nvml.IsMigEnabled or GetMigDevices may fail for some of the devices,
\* which the health checker then skips.
StartManager ==
  /\ pc = "start"
  /\ Partitioned => nvmlGPUs = devFiles
  /\ devices' = IF Partitioned
                THEN DiscoverPartitions(DiscoverGPUs(devices, nvmlGPUs), nvmlGPUs)
                ELSE DiscoverGPUs(devices, nvmlGPUs)
  /\ hcDevices' = ListPhysicalDevices(devices')
  /\ hcNvml' \in SUBSET hcDevices'
  /\ hcTodo' = {} /\ hcTarget' = {} /\ hcByUUID' = FALSE
  /\ pc' = "stat"
  /\ UNCHANGED <<nodeVars, registerWithKubelet, events, serverVars, stopper,
                 handlerVars, kubeletVars, left>>

\* kubelet.sock stays behind when the kubelet dies; a starting kubelet
\* removes it before it listens again.
KubeletSocket == kubelet # "starting"

\* Whether to register is decided here, once for the life of the process.
StatKubeletSocket ==
  /\ pc = "stat"
  /\ registerWithKubelet' = KubeletSocket
  /\ pc' = "watchdir"
  /\ UNCHANGED <<nodeVars, devices, events, serverVars, stopper, handlerVars,
                 hcVars, kubeletVars, left>>

WatchPluginDirectory ==
  /\ pc = "watchdir"
  /\ events' = 0
  /\ pc' = "serve"
  /\ UNCHANGED <<nodeVars, devices, registerWithKubelet, serverVars, stopper,
                 handlerVars, hcVars, kubeletVars, left>>

\* The top of the loop: select prefers a stop that is waiting.
ServeStops ==
  /\ pc = "serve"
  /\ stopper = "sending"
  /\ pc' = "returned"
  /\ stopper' = "closing"
  /\ UNCHANGED <<nodeVars, devices, registerWithKubelet, events, serverVars,
                 handlerVars, hcVars, kubeletVars, left>>

\* net.Listen, grpc.NewServer and the goroutine that serves.
Listen ==
  /\ pc = "serve"
  /\ stopper # "sending"
  /\ live' = TRUE
  /\ socket' = TRUE
  /\ pc' = IF registerWithKubelet THEN "register" ELSE "watch"
  /\ UNCHANGED <<nodeVars, devices, registerWithKubelet, events, open, alloc,
                 pending, stopper, handlerVars, hcVars, kubeletVars, left>>

\* The kubelet dials the plugin's socket before it answers a registration.
CanRegister == kubelet = "up" /\ live /\ socket

Register ==
  /\ pc = "register"
  /\ CanRegister
  /\ pending' = TRUE
  /\ pc' = "watch"
  /\ UNCHANGED <<nodeVars, devices, registerWithKubelet, events, live, socket,
                 open, alloc, stopper, handlerVars, hcVars, kubeletVars, left>>

\* Everything that lives in the process is gone.  The next process listens
\* on a socket of another name, so what the kubelet still knows of this one
\* (a registration, a connection) leads nowhere.
ProcessGone ==
  /\ StopServer
  /\ devices' = NoTable
  /\ pc' = "down"
  /\ registerWithKubelet' = FALSE
  /\ events' = 0
  /\ stopper' = "idle"
  /\ hpc' = [s \in Stream |-> "free"]
  /\ hdev' = [s \in Stream |-> NoDevice]
  /\ hleft' = [s \in Stream |-> {}]
  /\ hsnap' = [s \in Stream |-> NoReport]
  /\ hcDevices' = {} /\ hcNvml' = {} /\ hcTodo' = {} /\ hcTarget' = {}
  /\ hcByUUID' = FALSE
  /\ UNCHANGED <<nodeVars, kubeletVars>>

\* Nobody answers on kubelet.sock, or the kubelet cannot dial back because a
\* zombie handler has stopped the new server already: glog.Fatal.
RegisterFails ==
  /\ pc = "register"
  /\ ~CanRegister
  /\ ProcessGone
  /\ UNCHANGED left

\* The three reasons to leave statusCheck.  The first two are ticks, which
\* find nothing to do most of the time.
RestartServer(next) ==
  /\ StopServer
  /\ pc' = next

\* The tickers of one and of ten seconds against handlers that take well
\* under a millisecond between two blocking calls.
Tick == PromptHandlers => \A s \in Stream : hpc[s] \in {"free", "receive"}

SocketCheck ==
  /\ pc = "watch" /\ Tick
  /\ IF socket THEN UNCHANGED <<pc, serverVars>> ELSE RestartServer("serve")
  /\ UNCHANGED <<nodeVars, devices, registerWithKubelet, events, stopper,
                 handlerVars, hcVars, kubeletVars, left>>

\* (Mutated: the server goes on serving while GPUs are discovered.)
GPUCheckKeepsServer ==
  /\ pc = "watch" /\ Tick
  /\ HasAdditionalGPUs(devices, devFiles)
  /\ pc' = "rediscover"
  /\ UNCHANGED <<nodeVars, devices, registerWithKubelet, events, serverVars,
                 stopper, handlerVars, hcVars, kubeletVars, left>>

GPUCheck ==
  /\ pc = "watch" /\ Tick
  /\ HasAdditionalGPUs(devices, devFiles)
  /\ RestartServer("rediscover")
  /\ UNCHANGED <<nodeVars, devices, registerWithKubelet, events, stopper,
                 handlerVars, hcVars, kubeletVars, left>>

KubeletSocketCreated ==
  /\ pc = "watch"
  /\ events > 0
  /\ events' = events - 1
  /\ RestartServer("serve")
  /\ UNCHANGED <<nodeVars, devices, registerWithKubelet, stopper, handlerVars,
                 hcVars, kubeletVars, left>>

\* discoverGPUs, over and over until NVML answers for every GPU; a failed
\* attempt has already marked those it got through.
Rediscover ==
  /\ pc = "rediscover"
  /\ devices' = DiscoverGPUs(devices, nvmlGPUs)
  /\ pc' = "serve"
  /\ UNCHANGED <<nodeVars, registerWithKubelet, events, serverVars, stopper,
                 handlerVars, hcVars, kubeletVars, left>>

RediscoverFails ==
  /\ pc = "rediscover"
  /\ \E found \in SUBSET nvmlGPUs : devices' = DiscoverGPUs(devices, found)
  /\ UNCHANGED <<nodeVars, serveVars, serverVars, stopper, handlerVars, hcVars,
                 kubeletVars, left>>

\* ngm.Stop, called by another goroutine, up to the send on ngm.stop.
StopRemovesSocket ==
  /\ MayStop
  /\ stopper = "idle"
  /\ Watching
  /\ socket' = FALSE
  /\ stopper' = "removed"
  /\ UNCHANGED <<nodeVars, devices, serveVars, live, open, alloc, pending,
                 handlerVars, hcVars, kubeletVars, left>>

StopSends ==
  /\ stopper = "removed"
  /\ stopper' = "sending"
  /\ UNCHANGED <<nodeVars, devices, serveVars, serverVars, handlerVars, hcVars,
                 kubeletVars, left>>

\* Serve closed ngm.stop: the second receive returns, close(ngm.Health).
StopClosesHealth ==
  /\ stopper = "closing"
  /\ stopper' = "stopped"
  /\ UNCHANGED <<nodeVars, devices, serveVars, serverVars, handlerVars, hcVars,
                 kubeletVars, left>>

HealthClosed == stopper = "stopped"

-----------------------------------------------------------------------------
(***************************************************************************)
(* ListAndWatch: one handler per stream the kubelet opened.  sendDevices   *)
(* reads the devices one by one, in no fixed order, and sends what it has  *)
(* read; a received device is set in a step of its own.                    *)
(***************************************************************************)

\* sendDevices begins: its range has the whole map before it.
SendDevicesBegins(s, table) ==
  /\ hpc' = [hpc EXCEPT ![s] = "send"]
  /\ hleft' = [hleft EXCEPT ![s] = ListPhysicalDevices(table)]

\* One round of the range, without devicesMutex.  The kubelet takes a health
\* that was read while it was written, and is neither of the two strings, for
\* Unhealthy.
ReadDevice(s, d) ==
  /\ hpc[s] = "send"
  /\ d \in hleft[s]
  /\ hleft' = [hleft EXCEPT ![s] = @ \ {d}]
  /\ hsnap' = [hsnap EXCEPT ![s] = ListDevice(@, devices, d)]
  /\ UNCHANGED <<nodeVars, devices, serveVars, serverVars, stopper, hpc, hdev,
                 hcVars, kubeletVars, left>>

\* stream.Send succeeds; the kubelet takes the list as it stands.
SendDevices(s) ==
  /\ hpc[s] = "send" /\ hleft[s] = {}
  /\ s \in open
  /\ view' = hsnap[s]
  /\ hpc' = [hpc EXCEPT ![s] = "receive"]
  /\ UNCHANGED <<nodeVars, devices, serveVars, serverVars, stopper, hdev,
                 hleft, hsnap, hcVars, kubelet, conn, left>>

HandlerReturns(s) ==
  /\ hpc' = [hpc EXCEPT ![s] = "free"]
  /\ hdev' = [hdev EXCEPT ![s] = NoDevice]
  /\ hsnap' = [hsnap EXCEPT ![s] = NoReport]
  /\ UNCHANGED hleft

\* (Mutated: the handler just returns.)
SendFailsQuietly(s) ==
  /\ hpc[s] = "send" /\ hleft[s] = {}
  /\ s \notin open
  /\ HandlerReturns(s)
  /\ UNCHANGED <<nodeVars, devices, serveVars, serverVars, stopper, hcVars,
                 kubeletVars, left>>

\* The connection is gone: the handler stops ngm.grpcServer, whichever
\* server that is by now, and returns.
SendFails(s) ==
  /\ hpc[s] = "send" /\ hleft[s] = {}
  /\ s \notin open
  /\ StopServer
  /\ HandlerReturns(s)
  /\ UNCHANGED <<nodeVars, devices, serveVars, stopper, hcVars, kubeletVars,
                 left>>

\* (Mutated: the handler sees that the channel is closed and tries again.)
ReceiveClosedIgnored(s) ==
  /\ hpc[s] = "receive"
  /\ HealthClosed
  /\ UNCHANGED vars

\* A closed Health channel yields the zero Device at once.
ReceiveClosed(s) ==
  /\ hpc[s] = "receive"
  /\ HealthClosed
  /\ hdev' = [hdev EXCEPT ![s] = NoDevice]
  /\ hpc' = [hpc EXCEPT ![s] = "set"]
  /\ UNCHANGED <<nodeVars, devices, serveVars, serverVars, stopper, hleft,
                 hsnap, hcVars, kubeletVars, left>>

\* Every health event says Unhealthy.  The zero Device has no name and
\* touches no entry of a device; with MIG it leaves an entry without a name,
\* which no kubelet hears of: Health is closed only after Serve has returned.
SetHealth(s) ==
  /\ hpc[s] = "set"
  /\ devices' = IF hdev[s] = NoDevice THEN devices
                ELSE SetDeviceHealth(devices, hdev[s], Unhealthy)
  /\ hdev' = [hdev EXCEPT ![s] = NoDevice]
  /\ SendDevicesBegins(s, devices')
  /\ UNCHANGED <<nodeVars, serveVars, serverVars, stopper, hsnap, hcVars,
                 kubeletVars, left>>

\* The map that is listed and allocated from is being written: by a handler
\* in SetDeviceHealth, or by discoverGPUs, which does not touch partitions.
MapIsWritten ==
  \/ \E s \in Stream : hpc[s] = "set" /\ (hdev[s] # NoDevice \/ Partitioned)
  \/ pc = "rediscover" /\ ~Partitioned

\* And it is being read: a list is on its way, or a request has DeviceSpec
\* calls to come.
MapIsRead ==
  \/ \E s \in Stream : hleft[s] # {}
  \/ alloc.ids # alloc.granted

\* "concurrent map iteration and map write", "concurrent map read and map
\* write": the runtime notices some of the overlaps, and ends the process.
ConcurrentMapAccess ==
  /\ MapIsWritten
  /\ MapIsRead
  /\ ProcessGone
  /\ UNCHANGED left

-----------------------------------------------------------------------------
(***************************************************************************)
(* The health checker: listenToEvents takes an event only when catchError  *)
(* has returned, and catchError blocks on Health for as long as no handler *)
(* is there to receive.  Its range over hc.devices has no fixed order.     *)
(***************************************************************************)

\* A critical Xid of one device, or of the whole node when it has no UUID.
CatchError(targets, byUUID) ==
  /\ HealthCheckerRuns
  /\ hcTodo = {}
  /\ left.xids > 0
  /\ hcTodo' = hcDevices
  /\ hcTarget' = targets
  /\ hcByUUID' = byUUID
  /\ left' = [left EXCEPT !.xids = @ - 1]
  /\ UNCHANGED <<nodeVars, devices, serveVars, serverVars, stopper,
                 handlerVars, hcDevices, hcNvml, kubeletVars>>

XidOnDevice == \E d \in hcNvml : CatchError({d}, TRUE)
XidOnNode   == hcDevices # {} /\ CatchError(hcDevices, FALSE)

\* (Mutated: a send that finds no receiver is given up.)
SkipDeviceOrDrop(d) ==
  /\ d \in hcTodo
  /\ d \in hcTarget => \A s \in Stream : hpc[s] # "receive"
  /\ hcByUUID => d \in hcNvml
  /\ hcTodo' = hcTodo \ {d}
  /\ UNCHANGED <<nodeVars, devices, serveVars, serverVars, stopper,
                 handlerVars, hcDevices, hcNvml, hcTarget, hcByUUID,
                 kubeletVars, left>>

\* A device whose UUID does not match.
SkipDevice(d) ==
  /\ d \in hcTodo \ hcTarget
  /\ hcByUUID => d \in hcNvml
  /\ hcTodo' = hcTodo \ {d}
  /\ UNCHANGED <<nodeVars, devices, serveVars, serverVars, stopper,
                 handlerVars, hcDevices, hcNvml, hcTarget, hcByUUID,
                 kubeletVars, left>>

\* The unbuffered send meets a receiving handler.
SendHealth(d, s) ==
  /\ d \in hcTodo \cap hcTarget
  /\ ~HealthClosed
  /\ hpc[s] = "receive"
  /\ hcTodo' = hcTodo \ {d}
  /\ hdev' = [hdev EXCEPT ![s] = d]
  /\ hpc' = [hpc EXCEPT ![s] = "set"]
  /\ UNCHANGED <<nodeVars, devices, serveVars, serverVars, stopper, hleft, hsnap,
                 hcDevices, hcNvml, hcTarget, hcByUUID, kubeletVars, left>>

\* hc.nvmlDevices has no entry for a device that Start skipped: the UUID of
\* a nil device.  Sending on a closed channel panics as well.
HealthCheckerPanics ==
  /\ HealthCheckerRuns
  /\ \/ hcByUUID /\ hcTodo \ hcNvml # {}
     \/ HealthClosed /\ hcTodo \cap hcTarget # {}
  /\ ProcessGone
  /\ UNCHANGED left

-----------------------------------------------------------------------------
(***************************************************************************)
(* Allocate, one container per request: every DeviceSpec call reads the    *)
(* table on its own.  bad remembers the IDs that were not Healthy in it    *)
(* when the request came in.                                               *)
(***************************************************************************)

Allocate(ids) ==
  /\ alloc = NoAlloc
  /\ conn \in open
  /\ ids # {} /\ Cardinality(ids) <= MaxRequest
  /\ \A id \in ids : view[id] = Healthy
  /\ ValidateRequest(ids, Cardinality(ListPhysicalDevices(devices)))
  /\ alloc' = [ids |-> ids, granted |-> {},
               bad |-> {id \in ids : devices[PhysicalOf(id)] # Healthy}]
  /\ UNCHANGED <<nodeVars, devices, serveVars, live, socket, open, pending,
                 stopper, handlerVars, hcVars, kubeletVars, left>>

AllocateDevice(id) ==
  /\ id \in alloc.ids \ alloc.granted
  /\ alloc' = IF DeviceSpecOK(devices, id)
              THEN [alloc EXCEPT !.granted = @ \cup {id}]
              ELSE NoAlloc
  /\ UNCHANGED <<nodeVars, devices, serveVars, live, socket, open, pending,
                 stopper, handlerVars, hcVars, kubeletVars, left>>

Granted == alloc.ids # {} /\ alloc.granted = alloc.ids

AllocateReturns ==
  /\ Granted
  /\ alloc' = NoAlloc
  /\ UNCHANGED <<nodeVars, devices, serveVars, live, socket, open, pending,
                 stopper, handlerVars, hcVars, kubeletVars, left>>

-----------------------------------------------------------------------------
(***************************************************************************)
(* The kubelet, as the plugin meets it.                                    *)
(***************************************************************************)

KubeletCallsListAndWatch(s) ==
  /\ pending
  /\ hpc[s] = "free" /\ \A t \in 1 .. s - 1 : hpc[t] # "free"
  /\ pending' = FALSE
  /\ conn' = s
  /\ open' = {s}
  /\ alloc' = NoAlloc
  /\ SendDevicesBegins(s, devices)
  /\ UNCHANGED <<nodeVars, devices, serveVars, live, socket, stopper, hdev,
                 hsnap, hcVars, kubelet, view, left>>

\* It notices that the stream broke: every device of it goes unhealthy.
KubeletDisconnects ==
  /\ conn # NoStream
  /\ conn \notin open
  /\ conn' = NoStream
  /\ view' = [id \in DeviceID |->
                IF view[id] = Absent THEN Absent ELSE Unhealthy]
  /\ UNCHANGED <<nodeVars, devices, serveVars, serverVars, stopper,
                 handlerVars, hcVars, kubelet, left>>

KubeletDies ==
  /\ kubelet = "up"
  /\ left.kubelet > 0
  /\ kubelet' = "down"
  /\ pending' = FALSE
  /\ conn' = NoStream
  /\ view' = NoReport
  /\ open' = {}
  /\ alloc' = NoAlloc
  /\ left' = [left EXCEPT !.kubelet = @ - 1]
  /\ UNCHANGED <<nodeVars, devices, serveVars, live, socket, stopper,
                 handlerVars, hcVars>>

\* It empties the plugin directory before it listens.
KubeletStarts ==
  /\ kubelet = "down"
  /\ kubelet' = "starting"
  /\ socket' = FALSE
  /\ UNCHANGED <<nodeVars, devices, serveVars, live, open, alloc, pending,
                 stopper, handlerVars, hcVars, conn, view, left>>

KubeletListens ==
  /\ kubelet = "starting"
  /\ kubelet' = "up"
  /\ events' = IF Watching THEN events + 1 ELSE events
  /\ UNCHANGED <<nodeVars, devices, pc, registerWithKubelet, serverVars,
                 stopper, handlerVars, hcVars, conn, view, left>>

-----------------------------------------------------------------------------
(***************************************************************************)
(* The node.  The file of an added GPU and its entry in NVML appear in     *)
(* either order.                                                           *)
(***************************************************************************)

DeviceFileAppears ==
  /\ \E g \in GPU \ devFiles : /\ FileMayComeFirst \/ g \in nvmlGPUs
                              /\ devFiles' = devFiles \cup {g}
  /\ UNCHANGED <<nvmlGPUs, devices, serveVars, serverVars, stopper,
                 handlerVars, hcVars, kubeletVars, left>>

NVMLListsGPU ==
  /\ \E g \in GPU \ nvmlGPUs : nvmlGPUs' = nvmlGPUs \cup {g}
  /\ UNCHANGED <<devFiles, devices, serveVars, serverVars, stopper,
                 handlerVars, hcVars, kubeletVars, left>>

Crash ==
  /\ pc # "down"
  /\ left.crashes > 0
  /\ ProcessGone
  /\ left' = [left EXCEPT !.crashes = @ - 1]

\* The kubelet restarts the container.
ProcessStarts ==
  /\ pc = "down"
  /\ kubelet = "up"
  /\ pc' = "start"
  /\ UNCHANGED <<nodeVars, devices, registerWithKubelet, events, serverVars,
                 stopper, handlerVars, hcVars, kubeletVars, left>>

-----------------------------------------------------------------------------
Serve ==
  \/ StartManager \/ StatKubeletSocket \/ WatchPluginDirectory
  \/ Listen \/ Register \/ RegisterFails
  \/ SocketCheck \/ GPUCheck \/ KubeletSocketCreated
  \/ Rediscover \/ RediscoverFails

Stop == StopRemovesSocket \/ StopSends \/ ServeStops \/ StopClosesHealth

ListAndWatch(s) ==
  \/ \E d \in hleft[s] : ReadDevice(s, d)
  \/ SendDevices(s) \/ SendFails(s) \/ ReceiveClosed(s) \/ SetHealth(s)

HealthChecker ==
  \/ XidOnDevice \/ XidOnNode
  \/ \E d \in hcTodo : SkipDevice(d)
  \/ \E d \in hcTodo, s \in Stream : SendHealth(d, s)
  \/ HealthCheckerPanics

Allocation ==
  \/ \E ids \in SUBSET DeviceID : Allocate(ids)
  \/ \E id \in alloc.ids : AllocateDevice(id)
  \/ AllocateReturns

Kubelet ==
  \/ \E s \in Stream : KubeletCallsListAndWatch(s)
  \/ KubeletDisconnects
  \/ KubeletDies \/ KubeletStarts \/ KubeletListens

Environment ==
  DeviceFileAppears \/ NVMLListsGPU \/ Crash \/ ProcessStarts

Next ==
  \/ Serve
  \/ Stop
  \/ \E s \in Stream : ListAndWatch(s)
  \/ ConcurrentMapAccess
  \/ HealthChecker
  \/ Allocation
  \/ Kubelet
  \/ Environment

\* Goroutines that can run do run, tickers tick, NVML answers in the end,
\* the kubelet and the container come back, and an added GPU is complete at
\* some point.  Nothing obliges errors, crashes and requests to happen.  Steps
\* of one goroutine that never wait for one another share a condition.
Fairness ==
  /\ WF_vars(\/ StartManager \/ StatKubeletSocket \/ WatchPluginDirectory
             \/ Listen \/ Register \/ RegisterFails \/ Rediscover)
  /\ WF_vars(SocketCheck) /\ WF_vars(GPUCheck)
  /\ WF_vars(KubeletSocketCreated)
  /\ WF_vars(StopSends \/ ServeStops \/ StopClosesHealth)
  /\ \A s \in Stream : WF_vars(ListAndWatch(s))
  /\ WF_vars(\/ \E d \in hcTodo : SkipDevice(d)
             \/ \E d \in hcTodo, s \in Stream : SendHealth(d, s)
             \/ HealthCheckerPanics)
  /\ WF_vars(\E s \in Stream : KubeletCallsListAndWatch(s))
  /\ WF_vars(KubeletDisconnects)
  /\ WF_vars(KubeletStarts \/ KubeletListens)
  /\ WF_vars(ProcessStarts) /\ WF_vars(NVMLListsGPU)

Spec     == Init /\ [][Next]_vars
FairSpec == Spec /\ Fairness

-----------------------------------------------------------------------------
(***************************************************************************)
(* Safety.                                                                 *)
(***************************************************************************)

\* The kubelet may believe an outdated list over a working stream only while
\* another handler is on its way to a Send that will fail and restart the
\* server.  A handler of an earlier server may have taken the health event:
\* stopping "the" server from sendDevices is what repairs that.
StaleViewIsCorrected ==
  conn \in open /\ hpc[conn] = "receive" /\ view # ListDevices(devices) =>
    \E s \in Stream \ {conn} : hpc[s] = "send"

\* At the top of the loop and while GPUs are discovered again nothing of the
\* old server is left: net.Listen finds the path free (it is fatal if not),
\* and no kubelet stream is served from tables that are being rewritten.
RestartsFromNothing ==
  pc \in {"serve", "rediscover"} => ~live /\ ~socket /\ open = {}

\* A container is not given a device that was marked before its request.
BadDevicesAreRefused == Granted => alloc.bad = {}

(***************************************************************************)
(* The inductive strengthening of the invariants above.                    *)
(***************************************************************************)

\* A stopped server has no socket and no connection, Serve leaves statusCheck
\* only after it stopped the server, at most one stream works, the one the
\* kubelet reads, and requests come over a connection that works.
ServerInv ==
  /\ ~live => ~socket /\ open = {} /\ ~pending
  /\ live => pc \in {"register", "watch"}
  /\ open \subseteq {conn}
  /\ \A s \in open : hpc[s] # "free"
  /\ open = {} => alloc = NoAlloc

\* What the kubelet was told, or what has been read of the list that it is
\* going to be told, is the table, or some other handler is about to send.
FreshInv ==
  /\ \A s \in Stream : hpc[s] # "send" => hleft[s] = {}
  /\ /\ conn \in open
     /\ \/ hpc[conn] = "receive" /\ view # ListDevices(devices)
        \/ hpc[conn] = "send" /\ \E id \in DeviceID :
             /\ PhysicalOf(id) \notin hleft[conn]
             /\ hsnap[conn][id] # devices[PhysicalOf(id)]
     => \E s \in Stream \ {conn} : hpc[s] = "send"

\* No mark that a working stream has listed is forgotten, and no device.
ListedMarksInv ==
  /\ \A s \in Stream : hpc[s] = "free" => hsnap[s] = NoReport
  /\ \A s \in open, id \in DeviceID :
       /\ hsnap[s][id] = Unhealthy => devices[PhysicalOf(id)] = Unhealthy
       /\ hsnap[s][id] # Absent => devices[PhysicalOf(id)] # Absent

\* While a request is served its bad devices stay bad, and without MIG none
\* of them gets past DeviceSpec.
AllocationInv ==
  /\ alloc.bad \subseteq alloc.ids
  /\ \A id \in alloc.bad : devices[PhysicalOf(id)] # Healthy
  /\ ~Partitioned => alloc.bad \cap alloc.granted = {}

IInv == TypeOK /\ ServerInv /\ FreshInv /\ ListedMarksInv /\ AllocationInv

(***************************************************************************)
(* What a step may never do.                                               *)
(***************************************************************************)

\* Over one stream a device that was listed Unhealthy is not listed Healthy
\* again, although rediscovery does forget the mark.
NoRecoveryOnStream ==
  [][\A s \in open \cap open', id \in DeviceID :
       hsnap[s][id] = Unhealthy => hsnap'[s][id] # Healthy]_vars

\* IDs that are marked in the table, that the list of the working stream has
\* marked, and that the kubelet believes to be Healthy; and IDs that the list
\* in the making has yet to read.
MarkedIDs  == {id \in DeviceID : devices[PhysicalOf(id)] = Unhealthy}
ListedIDs  == {id \in DeviceID : \E s \in open : hsnap[s][id] = Unhealthy}
OfferedIDs == {id \in DeviceID : view[id] = Healthy}

UnreadIDs  == {id \in DeviceID : \E s \in open : PhysicalOf(id) \in hleft[s]}

Promise == INSTANCE HealthRegister
             WITH ID <- DeviceID, connected <- open # {}, marked <- MarkedIDs,
                  listed <- ListedIDs, unread <- UnreadIDs, offered <- OfferedIDs

\* Restarts, rediscovery, crashes, and handlers of earlier servers that take
\* part in every health event come down to a register of marks that a stream
\* only adds to, and that the kubelet's view of each stream follows.
ImplementsHealthRegister == Promise!Spec

\* A mark stays until the process ends: health monitoring "will detect
\* critical Xid errors and mark the GPUs unallocatable".
MarksAreKept ==
  [][\A d \in Physical :
       devices[d] = Unhealthy /\ pc' # "down" => devices'[d] = Unhealthy]_vars

\* Only a crash of the machine's making ends the process: a device that the
\* health checker could not set up is skipped.
PluginStaysUp == pc # "down"

(***************************************************************************)
(* Liveness.                                                               *)
(***************************************************************************)

\* Once kubelets, GPUs and errors settle, the kubelet believes what the
\* manager has recorded, zombie handlers or not.
ViewConverges ==
  <>[](registerWithKubelet => view = ListDevices(devices))

\* A critical Xid reaches the table unless the process dies first, although
\* its sender blocks until some handler receives.
XidIsRecorded ==
  \A d \in Physical :
    registerWithKubelet /\ d \in hcTodo \cap hcTarget
      ~> devices[d] = Unhealthy \/ pc = "down"

\* A GPU added to the node is advertised without a restart of the process.
AddedGPUIsAdvertised ==
  \A g \in GPU \ InitialGPUs :
    registerWithKubelet /\ g \in devFiles /\ ~Partitioned
      ~> (\E id \in DeviceID : PhysicalOf(id) = g /\ view[id] # Absent)
           \/ pc = "down"

\* close(Health) in ngm.Stop lets go of every handler that waits on it.
HandlersEndAfterStop ==
  stopper = "stopped" ~> (\A s \in Stream : hpc[s] = "free") \/ pc = "down"
=============================================================================

------------------------ MODULE XidCondition_proofs --------------------------
(***************************************************************************)
(* Theorems about XidCondition, for every set of Xids and any number of    *)
(* boots and restarts.                                                     *)
(***************************************************************************)
EXTENDS XidCondition, TLAPS

\* Adding an Xid to a condition, or to none, yields a condition.
LEMMA WithXidType ==
  ASSUME NEW c \in Condition \cup {NoCondition}, NEW b \in Nat, NEW x \in Xid
  PROVE  WithXid(c, b, x) \in Condition
BY DEF WithXid, Register!WithXid, Condition

\* Its fields, by the two cases of the definition.
LEMMA WithXidFields ==
  ASSUME NEW c \in Condition \cup {NoCondition}, NEW b \in Nat, NEW x \in Xid
  PROVE  /\ c = NoCondition => /\ WithXid(c, b, x).boot = b
                               /\ WithXid(c, b, x).xids = {x}
         /\ c # NoCondition => /\ WithXid(c, b, x).boot = c.boot
                               /\ WithXid(c, b, x).xids = c.xids \cup {x}
BY DEF WithXid, Register!WithXid, Condition

\* A condition is not the absence of one.
LEMMA ConditionExists == \A c \in Condition : c # NoCondition
BY XidAssumption

\* A copy of the node is not the absence of one.
LEMMA NodeExists == \A n \in Node : n # NoNode
BY XidAssumption

-----------------------------------------------------------------------------
(***************************************************************************)
(* The four ways an action treats the node, and the copies of it.          *)
(***************************************************************************)

\* What the type and the strengthening say of the node and its copies.
NodeInv ==
  /\ nodeBoot \in Nat
  /\ cond \in Condition \cup {NoCondition}
  /\ held \in [Goroutine -> Node \cup {NoNode}]
  /\ latest \in SUBSET Goroutine
  /\ \A g \in latest : held[g] = [nodeBoot |-> nodeBoot, cond |-> cond]

\* A Get makes the copy the latest.
LEMMA GetNodeKeeps ==
  ASSUME NodeInv, NEW g \in Goroutine, GetNode(g)
  PROVE  NodeInv'
BY DEF NodeInv, GetNode, Node

\* A copy is dropped.
LEMMA DropNodeKeeps ==
  ASSUME NodeInv, NEW g \in Goroutine, DropNode(g)
  PROVE  NodeInv'
BY DEF NodeInv, DropNode

\* A write that gets through leaves no other copy the latest.
LEMMA UpdateStatusKeeps ==
  ASSUME NodeInv, NEW g \in Goroutine,
         NEW c \in Condition \cup {NoCondition}, UpdateStatus(g, c)
  PROVE  NodeInv'
BY DEF NodeInv, UpdateStatus

\* A write that succeeds writes what the goroutine made of the node as it is.
LEMMA LatestIsNode ==
  ASSUME NodeInv, NEW g \in latest
  PROVE  held[g].nodeBoot = nodeBoot /\ held[g].cond = cond
BY DEF NodeInv

-----------------------------------------------------------------------------
(***************************************************************************)
(* The invariant.                                                          *)
(***************************************************************************)

\* At first nobody has a copy.
LEMMA InitInv == Init => IInv
BY XidAssumption
   DEF Init, IInv, TypeOK, XidInv, NoXidSurvivesReboot, Goroutine

\* The writes of the three goroutines, with the conditions they write.
LEMMA WritesKeep ==
  ASSUME IInv,
         ResetUpdates \/ MonitorUpdates \/ HeartbeatUpdates
  PROVE  IInv'
<1> USE DEF IInv
<1>0. NodeInv
  BY DEF NodeInv, TypeOK, XidInv
<1>1. CASE ResetUpdates
  <2>1. CASE UpdateStatus("reset", NoCondition)
    <3>1. NodeInv'
      BY <1>0, <2>1, UpdateStatusKeeps DEF Goroutine
    <3>2. QED
      BY <1>1, <2>1, <3>1, XidAssumption
         DEF ResetUpdates, UpdateStatus, TypeOK, XidInv, NodeInv, xidVars,
             Goroutine, NoXidSurvivesReboot
  <2>2. CASE DropNode("reset")
    <3>1. NodeInv'
      BY <1>0, <2>2, DropNodeKeeps DEF Goroutine
    <3>2. QED
      BY <1>1, <2>2, <3>1
         DEF ResetUpdates, DropNode, TypeOK, XidInv, NodeInv, xidVars,
             Goroutine, NoXidSurvivesReboot
  <2>3. QED
    BY <1>1, <2>1, <2>2 DEF ResetUpdates
<1>2. CASE MonitorUpdates
  <2> DEFINE node == held["monitor"]
             c    == WithXid(node.cond, node.nodeBoot, xid)
  <2>0. xid \in Xid /\ xid \in caught
    BY <1>2, XidAssumption DEF MonitorUpdates, XidInv, TypeOK
  <2>1. CASE UpdateStatus("monitor", c)
    <3>1. node.nodeBoot = nodeBoot /\ node.cond = cond
      BY <1>0, <2>1, LatestIsNode DEF UpdateStatus
    <3>2. c = WithXid(cond, nodeBoot, xid) /\ c \in Condition /\ c # NoCondition
      BY <3>1, <2>0, <1>0, WithXidType, ConditionExists DEF NodeInv
    <3>3. NodeInv'
      BY <1>0, <2>1, <3>2, UpdateStatusKeeps DEF Goroutine
    <3>4. cond' = WithXid(cond, nodeBoot, xid)
      BY <2>1, <3>2 DEF UpdateStatus
    <3>5. c.boot <= nodeBoot /\ (c.boot = boot => c.xids \subseteq caught)
      <4>1. CASE cond = NoCondition
        BY <4>1, <3>2, <2>0, <1>0, WithXidFields DEF NodeInv
      <4>2. CASE cond # NoCondition
        BY <4>2, <3>2, <2>0, <1>0, WithXidFields
           DEF NodeInv, XidInv, NoXidSurvivesReboot
      <4>3. QED
        BY <4>1, <4>2
    <3>6. cond' = c /\ UNCHANGED <<boot, up, nodeBoot, reset, caught, restarts>>
          /\ held'["monitor"] = NoNode /\ held' = [held EXCEPT !["monitor"] = NoNode]
      BY <1>0, <1>2, <2>1 DEF UpdateStatus, MonitorUpdates, NodeInv, Goroutine
    <3>7. TypeOK'
      BY <1>2, <2>0, <3>3, <3>6 DEF MonitorUpdates, TypeOK, NodeInv
    <3>8. XidInv'
      BY <1>2, <2>0, <3>3, <3>5, <3>6
         DEF MonitorUpdates, XidInv, NodeInv, NoXidSurvivesReboot, TypeOK, Goroutine
    <3>9. QED
      BY <3>7, <3>8
  <2>2. CASE DropNode("monitor")
    <3>1. NodeInv'
      BY <1>0, <2>2, DropNodeKeeps DEF Goroutine
    <3>2. QED
      BY <1>2, <2>0, <2>2, <3>1
         DEF MonitorUpdates, DropNode, TypeOK, XidInv, NodeInv, Goroutine,
             NoXidSurvivesReboot
  <2>3. QED
    BY <1>2, <2>1, <2>2 DEF MonitorUpdates
<1>3. CASE HeartbeatUpdates
  <2>1. CASE UpdateStatus("heartbeat", held["heartbeat"].cond)
    <3>1. cond' = cond
      BY <1>0, <2>1, LatestIsNode DEF UpdateStatus
    <3>2. NodeInv'
      BY <1>0, <2>1, <3>1 DEF UpdateStatus, NodeInv
    <3>3. QED
      BY <1>3, <2>1, <3>1, <3>2
         DEF HeartbeatUpdates, UpdateStatus, TypeOK, XidInv, NodeInv, xidVars,
             Goroutine, NoXidSurvivesReboot
  <2>2. CASE DropNode("heartbeat")
    <3>1. NodeInv'
      BY <1>0, <2>2, DropNodeKeeps DEF Goroutine
    <3>2. QED
      BY <1>3, <2>2, <3>1
         DEF HeartbeatUpdates, DropNode, TypeOK, XidInv, NodeInv, xidVars,
             Goroutine, NoXidSurvivesReboot
  <2>3. QED
    BY <1>3, <2>1, <2>2 DEF HeartbeatUpdates
<1>4. QED
  BY <1>1, <1>2, <1>3

\* Reading the node, giving up, and the next event.
LEMMA CallsKeep ==
  ASSUME IInv,
         \/ ResetGets \/ MonitorGets \/ HeartbeatGets
         \/ ResetGetFails \/ ResetUpdateFails \/ ResetTimesOut
         \/ MonitorFails \/ HeartbeatFails
         \/ \E x \in Xid : CatchXid(x)
  PROVE  IInv'
<1> USE DEF IInv, xidVars, NodeInv, Goroutine
<1>0. NodeInv
  BY DEF TypeOK, XidInv
<1>1. CASE ResetGets
  BY <1>0, <1>1, GetNodeKeeps
     DEF ResetGets, GetNode, TypeOK, XidInv, NoXidSurvivesReboot
<1>2. CASE MonitorGets
  BY <1>0, <1>2, GetNodeKeeps
     DEF MonitorGets, GetNode, TypeOK, XidInv, NoXidSurvivesReboot
<1>3. CASE HeartbeatGets
  BY <1>0, <1>3, GetNodeKeeps
     DEF HeartbeatGets, GetNode, TypeOK, XidInv, NoXidSurvivesReboot
<1>4. CASE ResetGetFails \/ ResetTimesOut
  BY <1>4 DEF ResetGetFails, ResetTimesOut, TypeOK, XidInv, NoXidSurvivesReboot
<1>5. CASE ResetUpdateFails
  BY <1>0, <1>5, DropNodeKeeps
     DEF ResetUpdateFails, DropNode, TypeOK, XidInv, NoXidSurvivesReboot
<1>6. CASE MonitorFails
  BY <1>0, <1>6, DropNodeKeeps
     DEF MonitorFails, DropNode, TypeOK, XidInv, NoXidSurvivesReboot
<1>7. CASE HeartbeatFails
  BY <1>0, <1>7, DropNodeKeeps
     DEF HeartbeatFails, DropNode, TypeOK, XidInv, NoXidSurvivesReboot
<1>8. ASSUME NEW x \in Xid, CatchXid(x)
      PROVE  IInv'
  BY <1>8 DEF CatchXid, TypeOK, XidInv, NoXidSurvivesReboot
<1>9. QED
  BY <1>1, <1>2, <1>3, <1>4, <1>5, <1>6, <1>7, <1>8

\* What is left when the process is gone is well typed.
LEMMA ProcessGoneType ==
  ASSUME ProcessGone
  PROVE  /\ held' \in [Goroutine -> Node \cup {NoNode}]
         /\ up' \in BOOLEAN
         /\ latest' \in SUBSET Goroutine
         /\ xid' \in Xid \cup {NoXid}
BY DEF ProcessGone

\* The kubelet and the machine.
LEMMA MachineKeeps ==
  ASSUME IInv, Machine
  PROVE  IInv'
<1> USE DEF IInv, xidVars
<1>0. cond # NoCondition => cond.boot \in Nat
  BY DEF TypeOK, Condition
<1>1. CASE KubeletReports
  BY <1>0, <1>1 DEF KubeletReports, TypeOK, XidInv, NoXidSurvivesReboot
<1>2. CASE PluginDies
  <2>1. ProcessGone /\ restarts' = restarts + 1
        /\ UNCHANGED <<boot, caught, recorded>>
    BY <1>2 DEF PluginDies
  <2>2. TypeOK'
    <3>1. restarts' \in Nat
      BY <2>1 DEF TypeOK
    <3>2. QED
      BY <2>1, <3>1, ProcessGoneType DEF ProcessGone, TypeOK
  <2>3. XidInv'
    BY <2>1 DEF ProcessGone, XidInv, NoXidSurvivesReboot, Goroutine
  <2>4. QED
    BY <2>2, <2>3
<1>3. CASE PluginStarts
  BY <1>3 DEF PluginStarts, TypeOK, XidInv, NoXidSurvivesReboot
<1>4. CASE Reboot
  <2>1. TypeOK'
    <3>1. boot' \in Nat /\ caught' \in SUBSET Xid /\ recorded' \in SUBSET Xid
      BY <1>4 DEF Reboot, TypeOK
    <3>2. QED
      BY <1>4, <3>1, ProcessGoneType DEF Reboot, ProcessGone, TypeOK
  <2>2. cond # NoCondition => cond.boot \in Nat /\ cond.boot < boot + 1
    BY <1>0 DEF TypeOK, XidInv
  <2>3. XidInv'
    BY <1>4, <2>2 DEF Reboot, ProcessGone, TypeOK, XidInv, NoXidSurvivesReboot,
                      Goroutine
  <2>4. QED
    BY <2>1, <2>3
<1>5. QED
  BY <1>1, <1>2, <1>3, <1>4 DEF Machine

\* The node is never newer than the machine, copies that pass for the latest
\* are the node as it is, and conditions of this boot list its Xids only.
THEOREM XidInvariance == Spec => []IInv
<1>1. ASSUME IInv, [Next]_vars
      PROVE  IInv'
  <2>1. CASE Next
    BY <1>1, <2>1, WritesKeep, CallsKeep, MachineKeeps
       DEF Next, Reset, Monitor, Heartbeat
  <2>2. CASE UNCHANGED vars
    BY <1>1, <2>2
       DEF vars, xidVars, IInv, TypeOK, XidInv, NoXidSurvivesReboot
  <2>3. QED
    BY <1>1, <2>1, <2>2
<1>2. QED
  BY InitInv, <1>1, PTL DEF Spec

\* The Xids of a boot do not outlive the reboot that is to fix them, whoever
\* writes the node in between.
THEOREM XidsDoNotSurviveReboots == Spec => []NoXidSurvivesReboot
<1>1. IInv => NoXidSurvivesReboot
  BY DEF IInv, XidInv
<1>2. QED
  BY <1>1, XidInvariance, PTL

-----------------------------------------------------------------------------
(***************************************************************************)
(* Refinement.                                                             *)
(***************************************************************************)

\* A write of a goroutine is one operation on the condition as it is.
LEMMA WritesAreAtomic ==
  ASSUME IInv, ResetUpdates \/ MonitorUpdates \/ HeartbeatUpdates
  PROVE  [Register!Next]_Register!vars
<1> USE DEF Register!vars
<1>0. NodeInv
  BY DEF IInv, NodeInv, TypeOK, XidInv
<1>1. CASE ResetUpdates
  <2>1. CASE UpdateStatus("reset", NoCondition)
            /\ Outdated(held["reset"].cond, held["reset"].nodeBoot)
    <3>1. Outdated(cond, nodeBoot)
      BY <1>0, <2>1, LatestIsNode DEF UpdateStatus
    <3>2. Register!Remove
      BY <2>1, <3>1 DEF UpdateStatus, Register!Remove, Outdated
    <3>3. QED
      BY <3>2 DEF Register!Next
  <2>2. CASE DropNode("reset")
    BY <2>2 DEF DropNode
  <2>3. QED
    BY <1>1, <2>1, <2>2 DEF ResetUpdates
<1>2. CASE MonitorUpdates
  <2> DEFINE node == held["monitor"]
  <2>1. xid \in Xid
    BY <1>2 DEF MonitorUpdates, IInv, XidInv, TypeOK
  <2>2. CASE UpdateStatus("monitor", WithXid(node.cond, node.nodeBoot, xid))
    <3>1. cond' = WithXid(cond, nodeBoot, xid) /\ UNCHANGED nodeBoot
      BY <1>0, <2>2, LatestIsNode DEF UpdateStatus
    <3>2. Register!Record(xid)
      BY <3>1 DEF Register!Record, WithXid
    <3>3. QED
      BY <2>1, <3>2 DEF Register!Next
  <2>3. CASE DropNode("monitor")
    BY <2>3 DEF DropNode
  <2>4. QED
    BY <1>2, <2>2, <2>3 DEF MonitorUpdates
<1>3. CASE HeartbeatUpdates
  <2>1. CASE UpdateStatus("heartbeat", held["heartbeat"].cond)
    BY <1>0, <2>1, LatestIsNode DEF UpdateStatus
  <2>2. CASE DropNode("heartbeat")
    BY <2>2 DEF DropNode
  <2>3. QED
    BY <1>3, <2>1, <2>2 DEF HeartbeatUpdates
<1>4. QED
  BY <1>1, <1>2, <1>3

\* Three goroutines that get, change and write the node, restarts and reboots
\* in the middle of it, and a kubelet that writes as well implement a condition
\* that is changed atomically.
THEOREM UpdatesAreAtomic == Spec => ImplementsNodeCondition
<1>1. Init => Register!Init
  BY DEF Init, Register!Init
<1>2. ASSUME IInv, [Next]_vars
      PROVE  [Register!Next]_Register!vars
  <2> USE DEF Register!vars, xidVars
  <2>1. CASE ResetUpdates \/ MonitorUpdates \/ HeartbeatUpdates
    BY <1>2, <2>1, WritesAreAtomic
  <2>2. CASE KubeletReports
    <3>1. CASE nodeBoot = boot
      BY <2>2, <3>1 DEF KubeletReports
    <3>2. CASE nodeBoot # boot
      <4>1. nodeBoot' \in Nat /\ nodeBoot' > nodeBoot
        BY <1>2, <2>2, <3>2 DEF KubeletReports, IInv, TypeOK, XidInv
      <4>2. QED
        BY <2>2, <4>1 DEF KubeletReports, Register!Report, Register!Next
    <3>3. QED
      BY <3>1, <3>2
  <2>3. CASE ResetGets \/ ResetGetFails \/ ResetUpdateFails \/ ResetTimesOut
    BY <2>3 DEF ResetGets, ResetGetFails, ResetUpdateFails, ResetTimesOut,
                GetNode, DropNode
  <2>4. CASE MonitorGets \/ MonitorFails \/ \E x \in Xid : CatchXid(x)
    BY <2>4 DEF MonitorGets, MonitorFails, CatchXid, GetNode, DropNode
  <2>5. CASE HeartbeatGets \/ HeartbeatFails
    BY <2>5 DEF HeartbeatGets, HeartbeatFails, GetNode, DropNode
  <2>6. CASE PluginDies \/ PluginStarts \/ Reboot
    BY <2>6 DEF PluginDies, PluginStarts, Reboot, ProcessGone
  <2>7. CASE UNCHANGED vars
    BY <2>7 DEF vars
  <2>8. QED
    BY <1>2, <2>1, <2>2, <2>3, <2>4, <2>5, <2>6, <2>7
       DEF Next, Reset, Monitor, Heartbeat, Machine
<1>3. QED
  BY <1>1, <1>2, XidInvariance, PTL
     DEF Spec, ImplementsNodeCondition, Register!Spec
=============================================================================

---------------------------- MODULE XidCondition -----------------------------
(***************************************************************************)
(* The XidCriticalError condition of a node.  Three goroutines of the      *)
(* health checker get the Node object, change their copy and call          *)
(* UpdateStatus with it: the reset at start, the recording of an Xid, the  *)
(* heartbeat.  The API server refuses a copy that is no longer the latest. *)
(* The heartbeat's timestamp itself is left out; its writes are not.       *)
(***************************************************************************)
EXTENDS Integers

CONSTANTS
  Xid,                   \* the Xids that monitorXidevent looks for
  NoCondition, NoNode, NoXid,
  KubeletReportsFirst,   \* a booted node reports its boot before it runs pods
  MaxBoots,              \* bound: boots of the machine
  MaxRestarts            \* bound: restarts of the plugin

\* condition.Message and the keys of the JSON object in condition.Reason.
Condition == [boot : Nat, xids : SUBSET Xid]

Node == [nodeBoot : Nat, cond : Condition \cup {NoCondition}]

ASSUME XidAssumption ==
  /\ NoXid \notin Xid
  /\ NoCondition \notin Condition
  /\ NoNode \notin Node
  /\ KubeletReportsFirst \in BOOLEAN
  /\ MaxBoots \in Nat
  /\ MaxRestarts \in Nat

VARIABLES
  nodeBoot,     \* node.Status.NodeInfo.BootID, a number here
  cond,         \* the condition of the node, or NoCondition
  boot,         \* the machine's boot
  up,           \* the plugin runs
  held,         \* held[g]: the copy of the Node that goroutine g works on
  latest,       \* goroutines whose copy is still the latest version
  reset,        \* progress of resetXIDConditionWithBackoff
  xid,          \* the Xid that monitorXidevent is recording
  caught,       \* Xids caught since the machine booted
  recorded,     \* those of them that the node's condition was seen to have
  restarts      \* restarts of the plugin so far

xidVars == <<xid, caught, recorded>>
vars    == <<nodeBoot, cond, boot, up, held, latest, reset, xidVars, restarts>>

\* What the updates come down to: this very condition, changed atomically.
\* Copies, goroutines, restarts and the boot of the machine are hidden.
Register == INSTANCE NodeCondition
              WITH Xid <- Xid, NoCondition <- NoCondition,
                   nodeBoot <- nodeBoot, cond <- cond

Outdated(c, id)   == Register!Outdated(c, id)
WithXid(c, id, x) == Register!WithXid(c, id, x)

Goroutine == {"reset", "monitor", "heartbeat"}

TypeOK ==
  /\ nodeBoot \in Nat
  /\ cond \in Condition \cup {NoCondition}
  /\ boot \in Nat
  /\ up \in BOOLEAN
  /\ held \in [Goroutine -> Node \cup {NoNode}]
  /\ latest \in SUBSET Goroutine
  /\ reset \in {"first", "retry", "done", "timeout"}
  /\ xid \in Xid \cup {NoXid}
  /\ caught \in SUBSET Xid
  /\ recorded \in SUBSET Xid
  /\ restarts \in Nat

Init ==
  /\ nodeBoot = 1
  /\ cond = NoCondition
  /\ boot = 1
  /\ up = TRUE
  /\ held = [g \in Goroutine |-> NoNode]
  /\ latest = {}
  /\ reset = "first"
  /\ xid = NoXid
  /\ caught = {}
  /\ recorded = {}
  /\ restarts = 0

-----------------------------------------------------------------------------
(***************************************************************************)
(* The API, as client-go offers it.                                        *)
(***************************************************************************)

GetNode(g) ==
  /\ up /\ held[g] = NoNode
  /\ held' = [held EXCEPT ![g] = [nodeBoot |-> nodeBoot, cond |-> cond]]
  /\ latest' = latest \cup {g}
  /\ UNCHANGED <<nodeBoot, cond>>

\* g is done with its copy and has written nothing.
DropNode(g) ==
  /\ held' = [held EXCEPT ![g] = NoNode]
  /\ latest' = latest \ {g}
  /\ UNCHANGED <<nodeBoot, cond>>

\* UpdateStatus with a copy that is the latest: every copy is outdated now.
UpdateStatus(g, c) ==
  /\ g \in latest
  /\ cond' = c
  /\ latest' = {}
  /\ held' = [held EXCEPT ![g] = NoNode]
  /\ UNCHANGED nodeBoot

\* (A patch instead, without the check of the version.)
PatchStatus(g, c) ==
  /\ cond' = c
  /\ latest' = {}
  /\ held' = [held EXCEPT ![g] = NoNode]
  /\ UNCHANGED nodeBoot

-----------------------------------------------------------------------------
(***************************************************************************)
(* The goroutines.  A failure is a conflict, or a call that does not get   *)
(* through whatever the version.                                           *)
(***************************************************************************)

Resetting == reset \in {"first", "retry"}

ResetGets ==
  /\ Resetting
  /\ GetNode("reset")
  /\ UNCHANGED <<boot, up, reset, xidVars, restarts>>

ResetGetFails ==
  /\ up /\ Resetting /\ held["reset"] = NoNode
  /\ reset' = "retry"
  /\ UNCHANGED <<nodeBoot, cond, boot, up, held, latest, xidVars, restarts>>

\* resetXIDCondition removes a condition whose Message is another boot ID.
ResetUpdates ==
  /\ held["reset"] # NoNode
  /\ LET node == held["reset"] IN
       IF Outdated(node.cond, node.nodeBoot)
       THEN UpdateStatus("reset", NoCondition)
       ELSE DropNode("reset")
  /\ reset' = "done"
  /\ UNCHANGED <<boot, up, xidVars, restarts>>

\* (Mutated: the first failure is the last.)
ResetUpdateFailsForGood ==
  /\ held["reset"] # NoNode
  /\ Outdated(held["reset"].cond, held["reset"].nodeBoot)
  /\ DropNode("reset")
  /\ reset' = "done"
  /\ UNCHANGED <<boot, up, xidVars, restarts>>

ResetUpdateFails ==
  /\ held["reset"] # NoNode
  /\ Outdated(held["reset"].cond, held["reset"].nodeBoot)
  /\ DropNode("reset")
  /\ reset' = "retry"
  /\ UNCHANGED <<boot, up, xidVars, restarts>>

\* Two minutes have passed: looked at between attempts only.
ResetTimesOut ==
  /\ up /\ reset = "retry" /\ held["reset"] = NoNode
  /\ reset' = "timeout"
  /\ UNCHANGED <<nodeBoot, cond, boot, up, held, latest, xidVars, restarts>>

\* An event with one of the Xids that monitorXidevent looks for.
CatchXid(x) ==
  /\ up /\ xid = NoXid
  /\ xid' = x
  /\ caught' = caught \cup {x}
  /\ UNCHANGED <<nodeBoot, cond, boot, up, held, latest, reset, recorded,
                 restarts>>

MonitorGets ==
  /\ xid # NoXid
  /\ GetNode("monitor")
  /\ UNCHANGED <<boot, up, reset, xidVars, restarts>>

\* (Mutated: the condition is moved to the boot of its newest Xid.)
MonitorUpdatesMessage ==
  /\ held["monitor"] # NoNode
  /\ LET node == held["monitor"] IN
       IF node.cond # NoCondition /\ xid \in node.cond.xids
       THEN DropNode("monitor")
       ELSE UpdateStatus("monitor",
              [WithXid(node.cond, node.nodeBoot, xid) EXCEPT !.boot = node.nodeBoot])
  /\ recorded' = recorded \cup {xid}
  /\ xid' = NoXid
  /\ UNCHANGED <<boot, up, reset, caught, restarts>>

\* The Xid is there already, or is added to the copy, which is written.
MonitorUpdates ==
  /\ held["monitor"] # NoNode
  /\ LET node == held["monitor"] IN
       IF node.cond # NoCondition /\ xid \in node.cond.xids
       THEN DropNode("monitor")
       ELSE UpdateStatus("monitor", WithXid(node.cond, node.nodeBoot, xid))
  /\ recorded' = recorded \cup {xid}
  /\ xid' = NoXid
  /\ UNCHANGED <<boot, up, reset, caught, restarts>>

\* An error of either call is logged and the Xid given up.
MonitorFails ==
  /\ up /\ xid # NoXid
  /\ DropNode("monitor")
  /\ xid' = NoXid
  /\ UNCHANGED <<boot, up, reset, caught, recorded, restarts>>

HeartbeatGets ==
  /\ GetNode("heartbeat")
  /\ UNCHANGED <<boot, up, reset, xidVars, restarts>>

\* (Mutated: as the TODO in resetXIDCondition has it, a patch.)
HeartbeatPatches ==
  /\ held["heartbeat"] # NoNode
  /\ IF held["heartbeat"].cond # NoCondition
     THEN PatchStatus("heartbeat", held["heartbeat"].cond)
     ELSE DropNode("heartbeat")
  /\ UNCHANGED <<boot, up, reset, xidVars, restarts>>

\* updateLastHeartbeatTime writes its copy back if it has the condition.
HeartbeatUpdates ==
  /\ held["heartbeat"] # NoNode
  /\ IF held["heartbeat"].cond # NoCondition
     THEN UpdateStatus("heartbeat", held["heartbeat"].cond)
     ELSE DropNode("heartbeat")
  /\ UNCHANGED <<boot, up, reset, xidVars, restarts>>

HeartbeatFails ==
  /\ held["heartbeat"] # NoNode
  /\ DropNode("heartbeat")
  /\ UNCHANGED <<boot, up, reset, xidVars, restarts>>

-----------------------------------------------------------------------------
(***************************************************************************)
(* The kubelet and the machine.                                            *)
(***************************************************************************)

\* The kubelet patches the status every now and then: a new version of the
\* node, with the boot ID of the machine.
KubeletReports ==
  /\ nodeBoot' = boot
  /\ latest' = {}
  /\ UNCHANGED <<cond, boot, up, held, reset, xidVars, restarts>>

ProcessGone ==
  /\ up' = FALSE
  /\ held' = [g \in Goroutine |-> NoNode]
  /\ latest' = {}
  /\ xid' = NoXid
  /\ UNCHANGED <<nodeBoot, cond, reset>>

PluginDies ==
  /\ up
  /\ restarts < MaxRestarts
  /\ ProcessGone
  /\ restarts' = restarts + 1
  /\ UNCHANGED <<boot, caught, recorded>>

\* hc.Start, of a new process.
PluginStarts ==
  /\ ~up
  /\ KubeletReportsFirst => nodeBoot = boot
  /\ up' = TRUE
  /\ reset' = "first"
  /\ UNCHANGED <<nodeBoot, cond, boot, held, latest, xidVars, restarts>>

Reboot ==
  /\ boot < MaxBoots
  /\ boot' = boot + 1
  /\ ProcessGone
  /\ caught' = {}
  /\ recorded' = {}
  /\ UNCHANGED restarts

-----------------------------------------------------------------------------
Reset     == ResetGets \/ ResetGetFails \/ ResetUpdates \/ ResetUpdateFails
               \/ ResetTimesOut
Monitor   == (\E x \in Xid : CatchXid(x)) \/ MonitorGets \/ MonitorUpdates
               \/ MonitorFails
Heartbeat == HeartbeatGets \/ HeartbeatUpdates \/ HeartbeatFails
Machine   == KubeletReports \/ PluginDies \/ PluginStarts \/ Reboot

Next == Reset \/ Monitor \/ Heartbeat \/ Machine

\* The reset goroutine runs, its two minutes pass, and the kubelet reports.
Fairness ==
  /\ WF_vars(ResetGets) /\ WF_vars(ResetUpdates \/ ResetUpdateFails)
  /\ SF_vars(ResetTimesOut)
  /\ WF_vars(PluginStarts) /\ WF_vars(KubeletReports)

Spec     == Init /\ [][Next]_vars
FairSpec == Spec /\ Fairness

-----------------------------------------------------------------------------
(***************************************************************************)
(* Properties.                                                             *)
(***************************************************************************)

\* Get, change and UpdateStatus of three goroutines, a kubelet that writes
\* in between and restarts at any point come down to atomic operations on
\* the condition as it is: no update undoes another.
ImplementsNodeCondition == Register!Spec

\* A condition that carries the ID of this boot lists Xids of this boot only:
\* what an earlier boot has seen cannot outlive the reboot that fixes it.
NoXidSurvivesReboot ==
  cond # NoCondition /\ cond.boot = boot => cond.xids \subseteq caught

\* An outdated condition is removed after a start unless the reset times out.
OutdatedConditionIsRemoved ==
  up /\ Outdated(cond, nodeBoot) ~>
    ~Outdated(cond, nodeBoot) \/ ~up \/ reset = "timeout"

\* "If the bootId stay unchanged, consider a pure gpu-device-plugin restart":
\* an Xid recorded in this boot stays on the condition.
XidsOfThisBootAreKept ==
  recorded # {} => cond # NoCondition /\ recorded \subseteq cond.xids

\* The inductive strengthening of the above.
XidInv ==
  /\ nodeBoot <= boot
  /\ cond # NoCondition => cond.boot <= nodeBoot
  /\ ~up => held = [g \in Goroutine |-> NoNode] /\ xid = NoXid
  /\ \A g \in latest : held[g] = [nodeBoot |-> nodeBoot, cond |-> cond]
  /\ held["monitor"] # NoNode => xid # NoXid
  /\ xid # NoXid => xid \in caught
  /\ NoXidSurvivesReboot

IInv == TypeOK /\ XidInv
=============================================================================

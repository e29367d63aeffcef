---------------------------- MODULE NodeCondition ----------------------------
(***************************************************************************)
(* What the health checker promises of the condition XidCriticalError of   *)
(* its node: every change of it is one of the atomic operations below,     *)
(* applied to the condition as it is at that moment.  Nothing recorded is  *)
(* ever lost to a concurrent update.                                       *)
(***************************************************************************)
EXTENDS Integers

CONSTANTS Xid, NoCondition

VARIABLES
  nodeBoot,     \* the boot ID that the node reports, a number here
  cond          \* NoCondition, or the boot it was added in and its Xids

vars == <<nodeBoot, cond>>

\* condition.Message and the keys of the JSON object in condition.Reason.
Condition == [boot : Nat, xids : SUBSET Xid]

\* A condition that a reboot has settled.
Outdated(c, boot) == c # NoCondition /\ c.boot # boot

WithXid(c, boot, x) ==
  IF c = NoCondition THEN [boot |-> boot, xids |-> {x}]
                     ELSE [c EXCEPT !.xids = @ \cup {x}]

Init == nodeBoot = 1 /\ cond = NoCondition

Report == nodeBoot' \in Nat /\ nodeBoot' > nodeBoot /\ UNCHANGED cond

Record(x) == cond' = WithXid(cond, nodeBoot, x) /\ UNCHANGED nodeBoot

Remove == Outdated(cond, nodeBoot) /\ cond' = NoCondition /\ UNCHANGED nodeBoot

Next ==
  \/ Report
  \/ \E x \in Xid : Record(x)
  \/ Remove

Spec == Init /\ [][Next]_vars
=============================================================================

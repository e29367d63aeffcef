--------------------------- MODULE MCDevicePlugin ---------------------------
(***************************************************************************)
(* Small nodes for TLC: two GPUs, of which the second may be added later,  *)
(* and with MIG one partition on each.                                     *)
(***************************************************************************)
EXTENDS DevicePlugin

CONSTANTS g1, g2, p1, p2

MCParent == [p \in Partition |-> IF p = p1 THEN g1 ELSE g2]
NoParent == [p \in Partition |-> g1]
=============================================================================

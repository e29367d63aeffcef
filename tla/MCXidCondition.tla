--------------------------- MODULE MCXidCondition ----------------------------
(***************************************************************************)
(* Two monitored Xids, two boots.                                          *)
(***************************************************************************)
EXTENDS XidCondition

CONSTANTS x1, x2

=============================================================================

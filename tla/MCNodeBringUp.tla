---------------------------- MODULE MCNodeBringUp ----------------------------
(***************************************************************************)
(* Three kernels, the first two of which have one x.y in common.           *)
(***************************************************************************)
EXTENDS NodeBringUp

MCRelease == [k \in Kernel |-> IF k = 2 THEN 1 ELSE k]
=============================================================================

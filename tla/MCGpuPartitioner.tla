-------------------------- MODULE MCGpuPartitioner ---------------------------
(***************************************************************************)
(* Two GPUs; four sizes of which the GPUs hold two, two, one and one, like *)
(* 3g.40gb, 2g.48gb+gfx, whose name cannot be parsed, 4g.40gb, which is    *)
(* not in the manager's table, and 7g.80gb.                                *)
(***************************************************************************)
EXTENDS GpuPartitioner

MCMaxCount        == [s \in Size |-> IF s \in {"4g", "7g"} THEN 1 ELSE 2]
MCManagerMaxCount == [s \in Size |-> IF s = "4g" THEN 0 ELSE MCMaxCount[s]]
=============================================================================

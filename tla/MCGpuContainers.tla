--------------------------- MODULE MCGpuContainers ---------------------------
(***************************************************************************)
(* Whole GPUs, GPUs shared by three clients, MIG, and configurations that  *)
(* are not valid; two containers, one of which has three annotations.      *)
(***************************************************************************)
EXTENDS GpuContainers

CONSTANTS c1, c2

MCRawConfigs ==
  {[partitioned |-> FALSE, maxTimeShared |-> t, strategy |-> s, maxShared |-> n] :
     t \in {0, 1}, s \in {"mps", "other"}, n \in {0, 3}}
  \cup {[NoConfig EXCEPT !.partitioned = TRUE]}

MCAnnotation ==
  (c1 :> <<[path |-> "a", mode |-> 1], [path |-> "b", mode |-> 1], [path |-> "a", mode |-> 2]>>)
    @@ (c2 :> <<>>)
=============================================================================

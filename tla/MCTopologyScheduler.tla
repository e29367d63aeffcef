------------------------- MODULE MCTopologyScheduler -------------------------
(***************************************************************************)
(* A job of two pods that has a label, a job of one pod that another       *)
(* extractor knows, and a pod without a job and with another gate, which   *)
(* may have no labels at all.  One of the first two may not tolerate the   *)
(* taint of a node.                                                        *)
(***************************************************************************)
EXTENDS TopologyScheduler

CONSTANTS n1, n2, a, b, none, gate1, gate2, taint

MCGateOf   == <<gate1, gate1, gate1, gate2>>
MCName     == << <<a, a, none, none>>, <<none, none, b, none>> >>
MCCreated  == <<2, 2, 1, 3>>
MCNeed     == <<2, 2, 1, 1>>
MCCapacity == [n \in Node |-> 2]
MCTaints   == [n \in Node |-> IF n = n2 THEN {taint} ELSE {}]

Tolerant == [labelled |-> Pod, tolerations |-> [p \in Pod |-> {taint}]]

ASSUME MCJobsAreApart == NamesAgree /\ ListedTogether

MCSpecs ==
  {Tolerant, [Tolerant EXCEPT !.labelled = {1, 2, 3}],
   [Tolerant EXCEPT !.tolerations[2] = {}]}
=============================================================================

--------------------------- MODULE MCPodAssignment ---------------------------
(***************************************************************************)
(* A node without topology labels, and four in three racks of two blocks.  *)
(* The other table has all its nodes labelled.                             *)
(***************************************************************************)
EXTENDS PodAssignment

MCKey    == [n \in Node |->
               <<<<>>, <<1, 1, 1>>, <<1, 2, 2>>, <<1, 2, 3>>, <<2, 3, 4>>>>[n + 1]]
Labelled == [n \in Node |-> <<1, 1 + n \div 2, n>>]
=============================================================================

------------------------ MODULE PodAssignment_proofs -------------------------
(***************************************************************************)
(* Theorems about PodAssignment, for jobs of any size and any number of    *)
(* nodes.                                                                  *)
(***************************************************************************)
EXTENDS PodAssignment, FiniteFolds

\* The pods are counted from 0 to the last one.
LEMMA Pods == /\ NumPods \in Nat /\ NumPods > 0 /\ NumNodes \in Nat
              /\ Last \in Pod /\ Last = NumPods - 1
              /\ \A p \in Pod : p \in Int /\ 0 <= p /\ p <= Last
              /\ \A p \in Int : 0 <= p /\ p <= Last => p \in Pod
BY AssignmentAssumption DEF Pod, Last

-----------------------------------------------------------------------------
(***************************************************************************)
(* Placement: the order of the places, and what best holds.                *)
(***************************************************************************)

\* The first assignment puts the pods side by side before node 0.
LEMMA InitInv == Init => PlacementInv
<1> SUFFICES ASSUME Init PROVE PlacementInv
  OBVIOUS
<1>1. \A p \in Pod : assignment[p] = p - NumPods
  BY DEF Init, FirstAssignment
<1>2. TypeOK
  BY Pods DEF Init, TypeOK, FirstAssignment
<1>3. \A p, q \in Pod : p < q => assignment[p] < assignment[q]
  BY <1>1, Pods
<1>4. assignment[Last] = -1
  BY <1>1, Pods
<1>5. /\ i = Last /\ allOk /\ pc = "search"
      /\ \A p \in Pod : ~(p > i)
  BY Pods DEF Init
<1>6. PlacesInv
  BY <1>3, <1>4, <1>5, Pods DEF PlacesInv, Complete
<1>7. BestIsUsable
  BY DEF Init, BestIsUsable
<1> QED  BY <1>2, <1>6, <1>7 DEF PlacementInv

\* A step of the inner loop moves pod i into the room before the next one.
LEMMA MoveKeepsOrder ==
  ASSUME TypeOK, PlacesInv, Move
  PROVE  /\ i \in Pod /\ assignment' \in [Pod -> Int] /\ Next1 \in Int
         /\ assignment'[i] = Next1
         /\ \A p \in Pod : p # i => assignment'[p] = assignment[p]
         /\ \A p, q \in Pod : p < q => assignment'[p] < assignment'[q]
         /\ assignment'[Last] <= NumNodes
         /\ Next1 # NumNodes => assignment'[Last] < NumNodes
<1>1. i \in Pod
  BY Pods DEF TypeOK, PlacesInv, Move
<1>2. assignment' \in [Pod -> Int] /\ Next1 \in Int
  BY <1>1 DEF TypeOK, Move, Next1
<1>3. /\ assignment'[i] = Next1
      /\ \A p \in Pod : p # i => assignment'[p] = assignment[p]
  BY <1>1 DEF TypeOK, Move
<1>4. \A p \in Pod : assignment[p] \in Int
  BY DEF TypeOK
<1>5. \A q \in Pod : i < q => Next1 < assignment[q]
  <2> SUFFICES ASSUME NEW q \in Pod, i < q PROVE Next1 < assignment[q]
    OBVIOUS
  <2>1. i + 1 \in Pod /\ i < Last
    BY <1>1, Pods
  <2>2. assignment[i] < assignment[i + 1] - 1
    BY <2>1 DEF PlacesInv, Move
  <2>3. assignment[i + 1] <= assignment[q]
    <3>1. CASE q = i + 1
      BY <1>4, <3>1
    <3>2. CASE q # i + 1
      <4>1. i + 1 < q
        BY <1>1, <3>2, Pods
      <4> QED  BY <1>4, <2>1, <4>1 DEF PlacesInv
    <3> QED  BY <3>1, <3>2
  <2> QED  BY <1>1, <1>4, <2>1, <2>2, <2>3 DEF Next1
<1>6. \A p \in Pod : p < i => assignment[p] < Next1
  BY <1>1, <1>4 DEF PlacesInv, Next1
<1>7. \A p, q \in Pod : p < q => assignment'[p] < assignment'[q]
  <2> SUFFICES ASSUME NEW p \in Pod, NEW q \in Pod, p < q
               PROVE  assignment'[p] < assignment'[q]
    OBVIOUS
  <2>1. CASE p = i
    BY <1>3, <1>5, <2>1, Pods
  <2>2. CASE q = i
    BY <1>3, <1>6, <2>2, Pods
  <2>3. CASE p # i /\ q # i
    BY <1>3, <2>3 DEF PlacesInv
  <2> QED  BY <2>1, <2>2, <2>3
<1>8. assignment[Last] < NumNodes
  BY DEF PlacesInv, Move
<1>9. CASE i = Last
  <2>1. assignment'[Last] = assignment[Last] + 1 /\ assignment'[Last] = Next1
    BY <1>3, <1>9 DEF Next1
  <2>2. assignment[Last] \in Int /\ NumNodes \in Int
    BY <1>4, Pods
  <2>3. assignment'[Last] <= NumNodes /\ (Next1 # NumNodes => assignment'[Last] < NumNodes)
    BY <1>8, <2>1, <2>2
  <2> QED  BY <1>1, <1>2, <1>3, <1>7, <2>3
<1>10. CASE i # Last
  <2>1. assignment'[Last] = assignment[Last]
    BY <1>3, <1>10, Pods
  <2> QED  BY <1>1, <1>2, <1>3, <1>4, <1>7, <1>8, <2>1, Pods
<1> QED  BY <1>9, <1>10

\* fits never changes, so best stays usable while it is not replaced.
LEMMA BestIsKept ==
  ASSUME BestIsUsable, UNCHANGED <<fits, best>>
  PROVE  BestIsUsable'
BY DEF BestIsUsable, Usable

\* Only the last pod can run out of nodes.
LEMMA NoMoreNodesIsLast ==
  ASSUME TypeOK, PlacesInv, Move, Next1 = NumNodes
  PROVE  i = Last
<1> SUFFICES ASSUME i # Last PROVE FALSE
  OBVIOUS
<1>1. i \in Pod
  BY MoveKeepsOrder
<1>2. Last \in Pod /\ i < Last /\ NumNodes \in Int
  BY <1>1, Pods
<1>3. assignment'[i] < assignment'[Last]
  BY <1>1, <1>2, MoveKeepsOrder
<1>4. assignment'[i] = NumNodes /\ assignment'[Last] <= NumNodes
  BY MoveKeepsOrder
<1>5. assignment'[Last] \in Int
  BY <1>2, MoveKeepsOrder
<1> QED  BY <1>2, <1>3, <1>4, <1>5

\* This ends the search.
LEMMA NoMoreNodesKeeps ==
  ASSUME PlacementInv, NoMoreNodes
  PROVE  PlacementInv'
<1>1. TypeOK /\ PlacesInv /\ Move
  BY DEF PlacementInv, NoMoreNodes
<1>2. TypeOK'
  BY <1>1, MoveKeepsOrder DEF TypeOK, NoMoreNodes, Move
<1>3. i = Last
  BY <1>1, NoMoreNodesIsLast DEF NoMoreNodes
<1>4. assignment'[Last] = NumNodes
  BY <1>1, <1>3, MoveKeepsOrder DEF NoMoreNodes
<1>5. \A p \in Pod : ~(p > i')
  BY <1>3, Pods DEF NoMoreNodes
<1>6. pc' = "check" /\ allOk' /\ i' = i
  BY <1>1 DEF NoMoreNodes, PlacesInv, Move
<1>7. PlacesInv'
  BY <1>1, <1>4, <1>5, <1>6, MoveKeepsOrder DEF PlacesInv, Complete
<1>8. BestIsUsable'
  BY <1>1, BestIsKept DEF PlacementInv, Move
<1> QED  BY <1>2, <1>7, <1>8 DEF PlacementInv

\* The pods behind the one that moves stay on their nodes.
LEMMA OthersStay ==
  ASSUME TypeOK, PlacesInv, Move, NEW p \in Pod, p > i
  PROVE  CanSchedule(p, assignment[p])'
<1>1. assignment'[p] = assignment[p] /\ fits' = fits
  BY MoveKeepsOrder, Pods DEF Move, TypeOK
<1>2. CanSchedule(p, assignment[p])
  BY DEF PlacesInv, Move
<1> QED  BY <1>1, <1>2 DEF CanSchedule

\* The pod before the one that takes a node has room: it was placed before
\* the node that this one has left.
LEMMA TakeKeeps ==
  ASSUME PlacementInv, Take
  PROVE  PlacementInv'
<1>1. TypeOK /\ PlacesInv /\ Move /\ Next1 # NumNodes /\ i' = i - 1
  BY DEF PlacementInv, Take
<1>2. i \in Pod /\ i \in Int /\ 0 <= i /\ i <= Last /\ Last \in Int
  BY <1>1, MoveKeepsOrder, Pods
<1>3. TypeOK'
  BY <1>1, <1>2, MoveKeepsOrder DEF TypeOK, Take, Move
<1>4. /\ \A p, q \in Pod : p < q => assignment'[p] < assignment'[q]
      /\ assignment'[Last] <= NumNodes
      /\ assignment'[Last] < NumNodes
  BY <1>1, MoveKeepsOrder
<1>5. allOk' /\ (pc' = "search" => i' >= 0)
  BY <1>1, <1>2 DEF Take, PlacesInv, Move
<1>6. ASSUME pc' = "search"
      PROVE  assignment'[i'] < assignment'[i' + 1] - 1
  <2>1. i' \in Pod /\ i' < i /\ i' # i /\ i' + 1 = i
    BY <1>1, <1>2, <1>5, <1>6, Pods
  <2>2. assignment[i'] < assignment[i]
    BY <1>1, <1>2, <2>1 DEF PlacesInv
  <2>3. assignment'[i'] = assignment[i'] /\ assignment'[i' + 1] = assignment[i] + 1
    BY <1>1, <2>1, MoveKeepsOrder DEF Next1
  <2>4. assignment[i'] \in Int /\ assignment[i] \in Int
    BY <1>1, <1>2, <2>1 DEF TypeOK
  <2> QED  BY <2>2, <2>3, <2>4
<1>7. ASSUME NEW p \in Pod, p > i'
      PROVE  CanSchedule(p, assignment[p])'
  <2>1. CASE p > i
    BY <1>1, <2>1, OthersStay
  <2>2. CASE p = i
    <3>1. CanSchedule(i, Next1) /\ fits' = fits
      BY DEF Take, Move
    <3>2. assignment'[p] = Next1
      BY <1>1, <2>2, MoveKeepsOrder
    <3> QED  BY <2>2, <3>1, <3>2 DEF CanSchedule
  <2> QED  BY <1>1, <1>2, <1>7, <2>1, <2>2, Pods
<1>8. pc' = "check" => i' = -1
  BY <1>1, <1>2 DEF Take
<1>9. PlacesInv'
  BY <1>4, <1>5, <1>6, <1>7, <1>8 DEF PlacesInv, Complete
<1>10. BestIsUsable'
  BY <1>1, BestIsKept DEF PlacementInv, Move
<1> QED  BY <1>3, <1>9, <1>10 DEF PlacementInv

\* A pod that gives up leaves allOk false, and a new round is started.
LEMMA GiveUpKeeps ==
  ASSUME PlacementInv, GiveUp
  PROVE  PlacementInv'
<1>1. TypeOK /\ PlacesInv /\ Move /\ i' = i
  BY DEF PlacementInv, GiveUp
<1>2. TypeOK'
  BY <1>1, MoveKeepsOrder DEF TypeOK, GiveUp, Move
<1>3. \A p \in Pod : p > i' => CanSchedule(p, assignment[p])'
  BY <1>1, OthersStay
<1>4. pc' = "check" /\ allOk' = FALSE /\ i' >= 0
  BY <1>1 DEF GiveUp, PlacesInv, Move
<1>5. PlacesInv'
  BY <1>1, <1>3, <1>4, MoveKeepsOrder DEF PlacesInv, Complete
<1>6. BestIsUsable'
  BY <1>1, BestIsKept DEF PlacementInv, Move
<1> QED  BY <1>2, <1>5, <1>6 DEF PlacementInv

\* A pod that moves on has not come up against the next one.
LEMMA MoveOnKeeps ==
  ASSUME PlacementInv, MoveOn
  PROVE  PlacementInv'
<1>1. TypeOK /\ PlacesInv /\ Move /\ Next1 # NumNodes /\ ~Touches
      /\ i' = i /\ allOk' = allOk /\ pc' = pc /\ pc = "search"
  BY DEF PlacementInv, MoveOn, Move
<1>2. TypeOK'
  BY <1>1, MoveKeepsOrder DEF TypeOK, Move
<1>3. ASSUME i' < Last
      PROVE  assignment'[i'] < assignment'[i' + 1] - 1
  <2>0. i \in Pod /\ i < Last
    BY <1>1, <1>3, MoveKeepsOrder
  <2>1. i \in Pod /\ i + 1 \in Pod /\ i + 1 # i
    BY <2>0, Pods
  <2>2. Next1 # assignment[i + 1] - 1
    BY <1>1, <1>3 DEF Touches
  <2>3. assignment[i] < assignment[i + 1] - 1
    BY <1>1, <1>3 DEF PlacesInv
  <2>4. assignment'[i] = Next1 /\ assignment'[i + 1] = assignment[i + 1]
    BY <1>1, <2>1, MoveKeepsOrder
  <2>5. assignment[i] \in Int /\ assignment[i + 1] \in Int
    BY <1>1, <2>1 DEF TypeOK
  <2> QED  BY <1>1, <2>2, <2>3, <2>4, <2>5 DEF Next1
<1>4. \A p \in Pod : p > i' => CanSchedule(p, assignment[p])'
  BY <1>1, OthersStay
<1>5. i' >= 0 /\ allOk'
  BY <1>1 DEF PlacesInv
<1>6. /\ \A p, q \in Pod : p < q => assignment'[p] < assignment'[q]
      /\ assignment'[Last] <= NumNodes
      /\ assignment'[Last] < NumNodes
  BY <1>1, MoveKeepsOrder
<1>7. PlacesInv'
  BY <1>1, <1>3, <1>4, <1>5, <1>6 DEF PlacesInv, Complete
<1>8. BestIsUsable'
  BY <1>1, BestIsKept DEF PlacementInv, Move
<1> QED  BY <1>2, <1>7, <1>8 DEF PlacementInv

\* A new round starts with the last pod, which still has nodes before it.
LEMMA StartAgainKeeps ==
  ASSUME TypeOK, PlacesInv, pc = "check", assignment[Last] # NumNodes, StartAgain
  PROVE  PlacesInv'
<1>1. assignment[Last] < NumNodes
  BY Pods DEF TypeOK, PlacesInv
<1>2. /\ i' = Last /\ allOk' /\ pc' = "search"
      /\ assignment' = assignment /\ fits' = fits
  BY DEF StartAgain
<1>3. i' >= 0 /\ ~(i' < Last) /\ \A p \in Pod : ~(p > i')
  BY <1>2, Pods
<1> QED  BY <1>1, <1>2, <1>3 DEF PlacesInv, Complete

\* A complete assignment is usable.
LEMMA CompleteIsUsable ==
  ASSUME TypeOK, PlacesInv, Complete
  PROVE  Usable(assignment)
<1>1. \A p \in Pod : p > i
  BY Pods DEF PlacesInv
<1>2. \A p \in Pod : CanSchedule(p, assignment[p])
  BY <1>1 DEF PlacesInv, Complete
<1>3. \A p \in Pod : <<p, assignment[p]>> \in fits
  BY <1>2 DEF CanSchedule
<1>4. \A p \in Pod : assignment[p] \in Node
  BY <1>3 DEF TypeOK
<1> QED  BY <1>3, <1>4 DEF Usable, PlacesInv

\* What is evaluated may become the best, and the next round starts.
LEMMA EvaluateKeeps ==
  ASSUME PlacementInv, Evaluate
  PROVE  PlacementInv'
<1>1. TypeOK /\ PlacesInv /\ Complete /\ StartAgain /\ fits' = fits
  BY DEF PlacementInv, Evaluate, StartAgain
<1>2. Usable(assignment)
  BY <1>1, CompleteIsUsable
<1>3. assignment \in [Pod -> Node]
  BY <1>1, <1>2 DEF Usable, TypeOK
<1>4. best' = assignment \/ best' = best
  BY DEF Evaluate
<1>5. TypeOK'
  <2>1. i' \in -1 .. Last
    BY <1>1, Pods DEF StartAgain
  <2> QED  BY <1>1, <1>3, <1>4, <2>1 DEF TypeOK, StartAgain
<1>6. PlacesInv'
  BY <1>1, StartAgainKeeps DEF Complete
<1>7. BestIsUsable'
  <2>1. CASE best' = assignment
    BY <1>1, <1>2, <2>1 DEF BestIsUsable, Usable
  <2>2. CASE best' = best
    BY <1>1, <2>2, BestIsKept DEF PlacementInv
  <2> QED  BY <1>4, <2>1, <2>2
<1> QED  BY <1>5, <1>6, <1>7 DEF PlacementInv

\* So does the next one after a round that failed.
LEMMA RetryKeeps ==
  ASSUME PlacementInv, Retry
  PROVE  PlacementInv'
<1>1. TypeOK /\ PlacesInv /\ StartAgain /\ fits' = fits /\ best' = best
  BY DEF PlacementInv, Retry, StartAgain
<1>2. TypeOK'
  <2>1. i' \in -1 .. Last
    BY <1>1, Pods DEF StartAgain
  <2> QED  BY <1>1, <2>1 DEF TypeOK, StartAgain
<1>3. PlacesInv'
  BY <1>1, StartAgainKeeps DEF Retry
<1>4. BestIsUsable'
  BY <1>1, BestIsKept DEF PlacementInv
<1> QED  BY <1>2, <1>3, <1>4 DEF PlacementInv

\* Nothing but pc changes when the search ends.
LEMMA EndKeeps ==
  ASSUME PlacementInv, Return \/ Raise
  PROVE  PlacementInv'
<1>1. /\ UNCHANGED <<fits, assignment, i, allOk, best>>
      /\ pc' \in {"done", "raised"}
  BY DEF Return, Raise
<1>2. TypeOK'
  BY <1>1 DEF PlacementInv, TypeOK
<1>3. PlacesInv'
  BY <1>1 DEF PlacementInv, PlacesInv, Complete
<1>4. BestIsUsable'
  BY <1>1, BestIsKept DEF PlacementInv
<1> QED  BY <1>2, <1>3, <1>4 DEF PlacementInv

-----------------------------------------------------------------------------
(***************************************************************************)
(* Pods that fit on the same nodes: the nodes that are free before them.   *)
(***************************************************************************)

\* What pod 0 fits on, they all do.
LEMMA FitsAlike ==
  ASSUME TypeOK, Identical
  PROVE  /\ FitNodes \in SUBSET Node
         /\ \A p \in Pod, n \in Int : CanSchedule(p, n) <=> n \in FitNodes
         /\ \A p \in Pod, n \in FitNodes : <<p, n>> \in fits
<1>1. 0 \in Pod /\ FitNodes \in SUBSET Node /\ \A n \in Node : n \in Int /\ n >= 0
  BY Pods DEF FitNodes, Node
<1>2. \A p \in Pod, n \in Node : <<p, n>> \in fits <=> <<0, n>> \in fits
  BY <1>1 DEF Identical
<1>3. \A p \in Pod, n \in Int : <<p, n>> \in fits => n \in Node
  BY DEF TypeOK
<1> QED  BY <1>1, <1>2, <1>3 DEF FitNodes, CanSchedule

\* fits never changes, nor then do these nodes.
LEMMA FitsStay ==
  ASSUME fits' = fits
  PROVE  FitNodes' = FitNodes /\ (Identical <=> Identical')
BY DEF FitNodes, Identical

\* A pod that moves leaves its node free before it, if it was on one, and the
\* one it comes to is no longer free before the next pod.
LEMMA MoveGaps ==
  ASSUME TypeOK, PlacesInv, Move, Identical, NEW j \in Pod, j = i
  PROVE  /\ \A p \in Pod : p # j /\ p # j + 1 => Gap(p)' = Gap(p)
         /\ Gap(j)' = Gap(j) \cup (IF OnFit(j) THEN {assignment[j]} ELSE {})
         /\ j < Last => Gap(j + 1)' = Gap(j + 1) \ {Next1}
         /\ j < Last /\ Next1 \in FitNodes => Next1 \in Gap(j + 1)
         /\ j < Last /\ Touches => Gap(j + 1) \in SUBSET {Next1}
         /\ \A p \in Pod : p # j => (OnFit(p)' <=> OnFit(p))
         /\ OnFit(j)' <=> Next1 \in FitNodes
<1>1. /\ j \in Pod /\ j = i /\ Next1 = assignment[j] + 1
      /\ assignment'[j] = Next1
      /\ \A p \in Pod : p # j => assignment'[p] = assignment[p]
      /\ \A p \in Pod : assignment[p] \in Int /\ assignment'[p] \in Int
  BY MoveKeepsOrder DEF TypeOK, Next1
<1>2. FitNodes' = FitNodes /\ \A n \in FitNodes : n \in Int
  BY FitsAlike, FitsStay DEF Move, Node
<1>3. ASSUME NEW p \in Pod, p # j, p # j + 1 PROVE Gap(p)' = Gap(p)
  <2>1. assignment'[p] = assignment[p]
    BY <1>1, <1>3
  <2>2. p > 0 => assignment'[p - 1] = assignment[p - 1]
    BY <1>1, <1>3, Pods
  <2> QED  BY <1>2, <2>1, <2>2 DEF Gap
<1>4. Gap(j)' = Gap(j) \cup (IF OnFit(j) THEN {assignment[j]} ELSE {})
  <2>1. j > 0 => /\ assignment'[j - 1] = assignment[j - 1]
                 /\ assignment[j - 1] < assignment[j] /\ assignment[j - 1] \in Int
    BY <1>1, Pods DEF PlacesInv
  <2>2. \A n \in FitNodes : n < assignment'[j] <=> n < assignment[j] \/ n = assignment[j]
    BY <1>1, <1>2
  <2> QED  BY <1>1, <1>2, <2>1, <2>2 DEF Gap, OnFit
<1>5. ASSUME j < Last
      PROVE  /\ Gap(j + 1)' = Gap(j + 1) \ {Next1}
             /\ Next1 \in FitNodes => Next1 \in Gap(j + 1)
             /\ Touches => Gap(j + 1) \in SUBSET {Next1}
  <2>1. /\ j + 1 \in Pod /\ j + 1 # j /\ j + 1 > 0 /\ (j + 1) - 1 = j
        /\ assignment'[j + 1] = assignment[j + 1]
        /\ assignment[j] \in Int /\ assignment[j + 1] \in Int
    BY <1>1, <1>5, Pods
  <2>2. assignment[j] < assignment[j + 1] - 1
    BY <1>5 DEF PlacesInv, Move
  <2>3. \A n : n \in Gap(j + 1) <=>
               n \in FitNodes /\ assignment[j] < n /\ n < assignment[j + 1]
    BY <2>1 DEF Gap
  <2>4. \A n : n \in Gap(j + 1)' <=>
               n \in FitNodes /\ Next1 < n /\ n < assignment[j + 1]
    BY <1>1, <1>2, <2>1 DEF Gap
  <2>5. Gap(j + 1)' = Gap(j + 1) \ {Next1}
    BY <1>1, <1>2, <2>1, <2>3, <2>4
  <2>6. Touches => Gap(j + 1) \in SUBSET {Next1}
    BY <1>1, <1>2, <2>1, <2>3 DEF Touches
  <2> QED  BY <1>1, <2>1, <2>2, <2>3, <2>5, <2>6
<1>6. /\ \A p \in Pod : p # j => (OnFit(p)' <=> OnFit(p))
      /\ OnFit(j)' <=> Next1 \in FitNodes
  BY <1>1, <1>2 DEF OnFit
<1> QED  BY <1>3, <1>4, <1>5, <1>6

\* The pod that takes a node leaves its own to the pod before it.
LEMMA TakeSearches ==
  ASSUME PlacementInv, SearchInv, Take, Identical
  PROVE  GapsInv' /\ RoundsInv'
<1>1. TypeOK /\ PlacesInv /\ Move /\ GapsInv /\ RoundsInv /\ pc = "search" /\ best' = best
  BY DEF PlacementInv, SearchInv, Take, Move
<1>2. PICK j \in Pod : j = i
  BY <1>1, MoveKeepsOrder
<1>3. /\ i' = j - 1 /\ Next1 \in FitNodes /\ allOk' = allOk
      /\ pc' = IF j = 0 THEN "check" ELSE "search"
  BY <1>1, <1>2, FitsAlike, MoveKeepsOrder DEF Take
<1>4. /\ \A p \in Pod : p # j /\ p # j + 1 => Gap(p)' = Gap(p)
      /\ Gap(j)' = Gap(j) \cup (IF OnFit(j) THEN {assignment[j]} ELSE {})
      /\ j < Last => Gap(j + 1)' = Gap(j + 1) \ {Next1} /\ Next1 \in Gap(j + 1)
      /\ \A p \in Pod : p # j => (OnFit(p)' <=> OnFit(p))
      /\ OnFit(j)'
  BY <1>1, <1>2, <1>3, MoveGaps
<1>5. \A p \in Pod : p > j => OnFit(p)
  BY <1>1, <1>2, FitsAlike DEF PlacesInv, TypeOK, OnFit
<1>6. ASSUME NEW p \in 1 .. Last
      PROVE  /\ p \in Pod /\ p - 1 \in Pod /\ p \in Int
             /\ Gap(p) # {} => p \in {j, j + 1}
             /\ \A m, n \in Gap(p) : m = n
             /\ OnFit(p - 1) => OnFit(p) \/ (p = j /\ Gap(p) # {})
             /\ p = j /\ OnFit(p) => Gap(p) = {}
             /\ p = j + 1 /\ (OnFit(j) \/ Gap(j) # {}) => Gap(p) # {}
  <2>1. assignment[Last] # NumNodes
    BY <1>1, Pods DEF TypeOK, PlacesInv
  <2> QED  BY <1>1, <1>2, <2>1, Pods DEF GapsInv
<1>7. /\ best = NoAssignment => Gap(0) = {} /\ ~OnFit(0)
      /\ best # NoAssignment =>
           allOk /\ \A p \in 0 .. j : OnFit(p) \/ (p = j /\ Gap(p) # {})
  BY <1>1, <1>2, Pods DEF RoundsInv
<1>8. ASSUME j < Last PROVE Gap(j + 1)' = {}
  <2>1. j + 1 \in 1 .. Last
    BY <1>8, Pods
  <2>2. \A m, n \in Gap(j + 1) : m = n
    BY <1>6, <2>1
  <2> QED  BY <1>4, <1>8, <2>2
<1>9. ASSUME NEW p \in 1 .. Last
      PROVE  /\ Gap(p)' # {} => p = j
             /\ \A m, n \in Gap(p)' : m = n
             /\ OnFit(p - 1)' => OnFit(p)'
             /\ p = j - 1 => Gap(p)' = {}
             /\ p = j /\ (OnFit(j - 1)' \/ Gap(j - 1)' # {}) => Gap(p)' # {}
  <2>1. p \in Pod /\ p - 1 \in Pod /\ p \in Int
    BY <1>6
  <2>2. CASE p < j
    <3>1. Gap(p) = {} /\ Gap(p)' = {}
      BY <1>4, <1>6, <2>1, <2>2, Pods
    <3>2. OnFit(p - 1)' => OnFit(p)'
      BY <1>4, <1>6, <2>1, <2>2, Pods
    <3> QED  BY <2>2, <3>1, <3>2, Pods
  <2>3. CASE p = j
    <3>1. OnFit(p)' /\ \A m, n \in Gap(p)' : m = n
      BY <1>4, <1>6, <2>3
    <3>2. ASSUME OnFit(j - 1)' \/ Gap(j - 1)' # {} PROVE Gap(j)' # {}
      <4>1. OnFit(j - 1) \/ Gap(j - 1) # {}
        BY <1>4, <2>1, <2>3, <3>2, Pods
      <4>2. OnFit(j) \/ Gap(j) # {}
        <5>1. CASE OnFit(j - 1)
          BY <1>6, <2>3, <5>1
        <5>2. CASE Gap(j - 1) # {}
          <6>1. j - 1 = 0
            BY <1>6, <2>1, <2>3, <5>2, Pods
          <6> QED  BY <1>7, <2>1, <2>3, <5>2, <6>1, Pods
        <5> QED  BY <4>1, <5>1, <5>2
      <4> QED  BY <1>4, <4>2
    <3> QED  BY <2>1, <2>3, <3>1, <3>2, Pods
  <2>4. CASE p > j
    <3>1. OnFit(p)'
      BY <1>4, <1>5, <2>1, <2>4, Pods
    <3>2. Gap(p)' = {}
      BY <1>4, <1>6, <1>8, <2>1, <2>4, Pods
    <3> QED  BY <2>1, <2>4, <3>1, <3>2, Pods
  <2> QED  BY <2>1, <2>2, <2>3, <2>4, Pods
<1>10. GapsInv'
  BY <1>3, <1>9, Pods DEF GapsInv
<1>11. RoundsInv'
  <2>1. ASSUME best = NoAssignment PROVE Gap(0)' = {} /\ (j - 1 >= 0 => ~OnFit(0)')
    BY <1>4, <1>7, <2>1, Pods
  <2>2. ASSUME best # NoAssignment, NEW p \in 0 .. j - 1 PROVE OnFit(p)'
    BY <1>4, <1>7, <2>2, Pods
  <2> QED  BY <1>1, <1>3, <1>7, <2>1, <2>2 DEF RoundsInv
<1> QED  BY <1>10, <1>11

\* The pod that moves on leaves its own to itself, and the last one does so
\* when it runs out of nodes.
LEMMA MoveOnSearches ==
  ASSUME PlacementInv, SearchInv, MoveOn \/ NoMoreNodes, Identical
  PROVE  GapsInv' /\ RoundsInv'
<1>1. TypeOK /\ PlacesInv /\ Move /\ GapsInv /\ RoundsInv /\ pc = "search"
      /\ best' = best /\ i' = i /\ allOk' = allOk
  BY DEF PlacementInv, SearchInv, MoveOn, NoMoreNodes, Move
<1>2. PICK j \in Pod : j = i
  BY <1>1, MoveKeepsOrder
<1>3. /\ Next1 \notin FitNodes
      /\ \/ pc' = "search" /\ (j < Last => Next1 # assignment[j + 1] - 1)
         \/ j = Last /\ assignment'[Last] = NumNodes
  <2>1. CASE MoveOn
    BY <1>1, <1>2, <2>1, FitsAlike, MoveKeepsOrder DEF MoveOn, Move, Touches
  <2>2. CASE NoMoreNodes
    <3>1. Next1 \notin FitNodes /\ assignment'[j] = NumNodes
      BY <1>1, <1>2, <2>2, FitsAlike, Pods, MoveKeepsOrder DEF NoMoreNodes, Node
    <3>2. j = Last
      BY <1>1, <1>2, <2>2, NoMoreNodesIsLast DEF NoMoreNodes
    <3> QED  BY <3>1, <3>2
  <2> QED  BY <2>1, <2>2
<1>4. /\ \A p \in Pod : p # j /\ p # j + 1 => Gap(p)' = Gap(p)
      /\ Gap(j)' = Gap(j) \cup (IF OnFit(j) THEN {assignment[j]} ELSE {})
      /\ j < Last => Gap(j + 1)' = Gap(j + 1) \ {Next1}
      /\ \A p \in Pod : p # j => (OnFit(p)' <=> OnFit(p))
      /\ ~OnFit(j)'
  BY <1>1, <1>2, <1>3, MoveGaps
<1>5. \A p \in Pod : p # j => Gap(p)' = Gap(p)
  <2>1. ASSUME NEW p \in Pod, p = j + 1 PROVE Gap(p)' = Gap(p)
    <3>1. Next1 \notin Gap(p)
      BY <1>3 DEF Gap
    <3> QED  BY <1>4, <2>1, <3>1, Pods
  <2> QED  BY <1>4, <2>1
<1>6. \A p \in Pod : p > j => OnFit(p)
  BY <1>1, <1>2, FitsAlike DEF PlacesInv, TypeOK, OnFit
<1>7. ASSUME NEW p \in 1 .. Last
      PROVE  /\ p \in Pod /\ p - 1 \in Pod /\ p \in Int
             /\ Gap(p) # {} => p \in {j, j + 1}
             /\ \A m, n \in Gap(p) : m = n
             /\ OnFit(p - 1) => OnFit(p) \/ (p = j /\ Gap(p) # {})
             /\ p = j /\ OnFit(p) => Gap(p) = {}
             /\ p = j + 1 /\ (OnFit(j) \/ Gap(j) # {}) => Gap(p) # {}
  <2>1. assignment[Last] # NumNodes
    BY <1>1, Pods DEF TypeOK, PlacesInv
  <2> QED  BY <1>1, <1>2, <2>1, Pods DEF GapsInv
<1>8. /\ best = NoAssignment => Gap(0) = {} /\ ~OnFit(0)
      /\ best # NoAssignment =>
           allOk /\ \A p \in 0 .. j : OnFit(p) \/ (p = j /\ Gap(p) # {})
  BY <1>1, <1>2, Pods DEF RoundsInv
<1>9. Gap(j)' # {} <=> OnFit(j) \/ Gap(j) # {}
  BY <1>4
<1>10. ASSUME NEW p \in 1 .. Last
       PROVE  /\ Gap(p)' # {} => p \in {j, j + 1}
              /\ \A m, n \in Gap(p)' : m = n
              /\ OnFit(p - 1)' => OnFit(p)' \/ (p = j /\ Gap(p)' # {})
              /\ p = j /\ OnFit(p)' => Gap(p)' = {}
              /\ p = j + 1 /\ (OnFit(j)' \/ Gap(j)' # {}) => Gap(p)' # {}
  <2>1. p \in Pod /\ p - 1 \in Pod /\ p \in Int
    BY <1>7
  <2>2. CASE p = j
    BY <1>4, <1>7, <1>9, <2>1, <2>2, Pods
  <2>3. CASE p # j
    <3>1. Gap(p)' = Gap(p) /\ (OnFit(p)' <=> OnFit(p))
      BY <1>4, <1>5, <2>1, <2>3
    <3>2. OnFit(p - 1)' => OnFit(p - 1)
      BY <1>4, <2>1
    <3> QED  BY <1>4, <1>7, <1>9, <2>3, <3>1, <3>2
  <2> QED  BY <2>2, <2>3
<1>11. GapsInv'
  <2>1. ASSUME j = Last, NEW p \in 1 .. Last, p \in {j, j + 1} PROVE p = Last
    BY <2>1, Pods
  <2> QED  BY <1>1, <1>2, <1>3, <1>10, <2>1, Pods DEF GapsInv
<1>12. RoundsInv'
  <2>1. ASSUME best = NoAssignment PROVE Gap(0)' = {} /\ ~OnFit(0)'
    BY <1>4, <1>5, <1>8, <2>1, Pods
  <2>2. ASSUME best # NoAssignment, NEW p \in 0 .. j
        PROVE  OnFit(p)' \/ (p = j /\ Gap(p)' # {})
    <3>1. OnFit(p) \/ (p = j /\ Gap(p) # {})
      BY <1>8, <2>2
    <3>2. p \in Pod
      BY Pods
    <3> QED  BY <1>4, <1>9, <3>1, <3>2
  <2> QED  BY <1>1, <1>2, <1>8, <2>1, <2>2 DEF RoundsInv
<1> QED  BY <1>11, <1>12

\* When a pod gives up, neither it nor the pod before it has seen a node; so
\* it does so only while there is no assignment.
LEMMA GiveUpSearches ==
  ASSUME PlacementInv, SearchInv, GiveUp, Identical
  PROVE  GapsInv' /\ RoundsInv'
<1>1. TypeOK /\ PlacesInv /\ Move /\ GapsInv /\ RoundsInv /\ pc = "search"
      /\ best' = best /\ i' = i /\ Touches
  BY DEF PlacementInv, SearchInv, GiveUp, Move
<1>2. PICK j \in Pod : j = i
  BY <1>1, MoveKeepsOrder
<1>3. Next1 \notin FitNodes /\ j < Last
  BY <1>1, <1>2, FitsAlike, MoveKeepsOrder DEF GiveUp, Move, Touches
<1>4. /\ \A p \in Pod : p # j /\ p # j + 1 => Gap(p)' = Gap(p)
      /\ Gap(j)' = Gap(j) \cup (IF OnFit(j) THEN {assignment[j]} ELSE {})
      /\ Gap(j + 1)' = Gap(j + 1) \ {Next1} /\ Gap(j + 1) \in SUBSET {Next1}
      /\ \A p \in Pod : p # j => (OnFit(p)' <=> OnFit(p))
      /\ ~OnFit(j)'
  BY <1>1, <1>2, <1>3, MoveGaps
<1>5. \A p \in Pod : p > j => OnFit(p)
  BY <1>1, <1>2, FitsAlike DEF PlacesInv, TypeOK, OnFit
<1>6. ASSUME NEW p \in 1 .. Last
      PROVE  /\ p \in Pod /\ p - 1 \in Pod /\ p \in Int
             /\ Gap(p) # {} => p \in {j, j + 1}
             /\ OnFit(p - 1) => OnFit(p) \/ (p = j /\ Gap(p) # {})
             /\ p = j + 1 /\ (OnFit(j) \/ Gap(j) # {}) => Gap(p) # {}
  <2>1. assignment[Last] # NumNodes
    BY <1>1, Pods DEF TypeOK, PlacesInv
  <2> QED  BY <1>1, <1>2, <2>1, Pods DEF GapsInv
<1>7. Gap(j + 1) = {} /\ Gap(j + 1)' = {} /\ j + 1 \in 1 .. Last
  <2>1. Next1 \notin Gap(j + 1)
    BY <1>3 DEF Gap
  <2> QED  BY <1>3, <1>4, <2>1, Pods
<1>8. ~OnFit(j) /\ Gap(j) = {} /\ Gap(j)' = {}
  BY <1>4, <1>6, <1>7
<1>9. best = NoAssignment /\ Gap(0) = {} /\ ~OnFit(0)
  BY <1>1, <1>2, <1>8, Pods DEF RoundsInv
<1>10. ASSUME NEW p \in 1 .. Last PROVE Gap(p)' = {} /\ (OnFit(p - 1)' => OnFit(p)')
  <2>1. p \in Pod /\ p - 1 \in Pod /\ p \in Int
    BY <1>6
  <2>2. Gap(p)' = {}
    BY <1>4, <1>6, <1>7, <1>8, <2>1
  <2>3. OnFit(p - 1)' => OnFit(p - 1)
    BY <1>4, <2>1
  <2>4. OnFit(p - 1) => OnFit(p)' 
    <3>1. CASE p = j
      BY <1>6, <1>8, <3>1
    <3>2. CASE p # j
      BY <1>4, <1>6, <2>1, <3>2
    <3> QED  BY <3>1, <3>2
  <2> QED  BY <2>2, <2>3, <2>4
<1>11. GapsInv'
  <2>1. Gap(j)' = {} /\ ~OnFit(j)'
    BY <1>4, <1>8
  <2> QED  BY <1>1, <1>2, <1>10, <2>1 DEF GapsInv
<1>12. RoundsInv'
  <2>1. Gap(0)' = {} /\ ~OnFit(0)'
    BY <1>4, <1>7, <1>8, <1>9, Pods
  <2> QED  BY <1>1, <1>9, <2>1 DEF RoundsInv
<1> QED  BY <1>11, <1>12

\* Before the first round all the pods are before all the nodes.
LEMMA InitSearches ==
  ASSUME Init, Identical
  PROVE  GapsInv /\ RoundsInv
<1>1. TypeOK /\ \A p \in Pod : assignment[p] = p - NumPods
  BY InitInv DEF PlacementInv, Init, FirstAssignment
<1>2. \A p \in Pod : assignment[p] \in Int /\ assignment[p] < 0
  BY <1>1, Pods
<1>3. \A n \in FitNodes : n \in Int /\ n >= 0
  BY <1>1, FitsAlike DEF Node
<1>4. \A p \in Pod : Gap(p) = {} /\ ~OnFit(p)
  BY <1>2, <1>3 DEF Gap, OnFit
<1>5. \A p \in 1 .. Last : p \in Pod /\ p - 1 \in Pod
  BY Pods
<1>6. i \in Pod /\ 0 \in Pod /\ best = NoAssignment
  BY Pods DEF Init
<1> QED  BY <1>4, <1>5, <1>6 DEF GapsInv, RoundsInv

\* Between two rounds no node is free between two pods.
LEMMA NoGapsBetweenRounds ==
  ASSUME PlacementInv, SearchInv, Identical, pc = "check", assignment[Last] # NumNodes
  PROVE  \A p \in 1 .. Last : Gap(p) = {}
BY DEF SearchInv, GapsInv

\* A new round starts from the places where the last one ended.
LEMMA StartAgainSearches ==
  ASSUME PlacementInv, SearchInv, Retry \/ Evaluate, Identical
  PROVE  GapsInv' /\ RoundsInv'
<1>1. /\ TypeOK /\ PlacesInv /\ GapsInv /\ RoundsInv /\ pc = "check"
      /\ assignment[Last] # NumNodes
      /\ i' = Last /\ allOk' /\ UNCHANGED <<fits, assignment>>
  BY DEF PlacementInv, SearchInv, Retry, Evaluate, Complete, StartAgain
<1>2. \A p \in 1 .. Last : p \in Pod /\ Gap(p) = {}
  BY <1>1, NoGapsBetweenRounds, Pods
<1>3. /\ \A p \in Pod : Gap(p)' = Gap(p) /\ (OnFit(p)' <=> OnFit(p))
      /\ Last \in Nat
  BY <1>1, FitsStay, Pods DEF Gap, OnFit
<1>4. CASE Retry
  <2>1. ~allOk /\ best' = best
    BY <1>4 DEF Retry
  <2>2. best = NoAssignment /\ Gap(0) = {} /\ ~OnFit(0) /\ 0 \in Pod
    BY <1>1, <2>1, Pods DEF RoundsInv, PlacesInv
  <2>3. RoundsInv'
    BY <1>3, <2>1, <2>2 DEF RoundsInv
  <2>4. \A p \in 1 .. Last : OnFit(p - 1) => OnFit(p)
    BY <1>1, <1>2 DEF GapsInv
  <2>5. \A p \in 1 .. Last : Gap(p)' = {} /\ (OnFit(p - 1)' => OnFit(p)')
    BY <1>2, <1>3, <2>4, Pods
  <2> QED  BY <1>1, <1>3, <2>3, <2>5 DEF GapsInv
<1>5. CASE Evaluate
  <2>1. Complete /\ (best' = assignment \/ (best' = best /\ best # NoAssignment))
    BY <1>5 DEF Evaluate
  <2>2. \A p \in Pod : p > i
    BY <1>1, <2>1, Pods DEF PlacesInv
  <2>3. \A p \in Pod : OnFit(p)
    BY <1>1, <2>2, FitsAlike DEF PlacesInv, OnFit, TypeOK
  <2>4. best' # NoAssignment
    <3>1. assignment # NoAssignment
      <4>1. DOMAIN assignment = Pod /\ DOMAIN NoAssignment = 1 .. 0 /\ 0 \in Pod
        BY <1>1, Pods DEF TypeOK, NoAssignment
      <4> QED  BY <4>1
    <3> QED  BY <2>1, <3>1
  <2>5. RoundsInv'
    <3>1. \A p \in 0 .. Last : OnFit(p)'
      BY <1>3, <2>3, Pods
    <3> QED  BY <1>1, <2>4, <3>1 DEF RoundsInv
  <2>6. \A p \in 1 .. Last : Gap(p)' = {} /\ OnFit(p)'
    BY <1>2, <1>3, <2>3
  <2> QED  BY <1>1, <1>3, <2>5, <2>6 DEF GapsInv
<1> QED  BY <1>4, <1>5

-----------------------------------------------------------------------------
(***************************************************************************)
(* What the search has passed by.                                          *)
(***************************************************************************)

\* An assignment takes nodes that they all fit on, in their order.
LEMMA AssignmentsFit ==
  ASSUME Identical, NEW a \in Assignments
  PROVE  /\ \A p \in Pod : a[p] \in FitNodes /\ a[p] \in Int
         /\ \A p, q \in Pod : p < q => a[p] < a[q]
         /\ a \in [Pod -> Node]
<1>1. /\ a \in [Pod -> Node] /\ 0 \in Pod
      /\ \A p \in Pod : a[p] \in Node /\ <<p, a[p]>> \in fits
      /\ \A p, q \in Pod : p < q => a[p] < a[q]
  BY Pods DEF Assignments, Usable
<1>2. \A p \in Pod : <<0, a[p]>> \in fits
  BY <1>1 DEF Identical
<1>3. \A n \in Node : n \in Int
  BY DEF Node
<1> QED  BY <1>1, <1>2, <1>3 DEF FitNodes

\* If pod 0 has seen no node and none is free before the pods up to pod k, the
\* places of every assignment are still before these pods.
LEMMA PlacesAreAhead ==
  ASSUME TypeOK, Identical, NEW a \in Assignments, NEW k \in Pod,
         \A p \in 0 .. k : Gap(p) = {}, ~OnFit(0)
  PROVE  assignment[k] < a[k]
<1>1. /\ \A p \in Pod : a[p] \in FitNodes /\ a[p] \in Int /\ assignment[p] \in Int
      /\ \A p, q \in Pod : p < q => a[p] < a[q]
  BY AssignmentsFit DEF TypeOK
<1> DEFINE P == {p \in Nat : p <= k => assignment[p] < a[p]}
<1>2. 0 \in P
  <2>1. /\ 0 \in Pod /\ 0 \in 0 .. k
    BY Pods
  <2>2. a[0] \notin Gap(0) /\ a[0] # assignment[0] /\ a[0] \in FitNodes
    BY <1>1, <2>1 DEF OnFit
  <2>3. ~(a[0] < assignment[0])
    BY <2>2 DEF Gap
  <2> QED  BY <1>1, <2>1, <2>2, <2>3
<1>3. ASSUME NEW p \in P PROVE p + 1 \in P
  <2> SUFFICES ASSUME p + 1 <= k PROVE assignment[p + 1] < a[p + 1]
    OBVIOUS
  <2>1. /\ p \in Pod /\ p + 1 \in Pod /\ p + 1 \in 0 .. k
        /\ p < p + 1 /\ p + 1 > 0 /\ (p + 1) - 1 = p /\ p <= k
    BY Pods
  <2>2. assignment[p] < a[p] /\ a[p] < a[p + 1]
    BY <1>1, <2>1
  <2>3. a[p] \notin Gap(p + 1) /\ a[p] \in FitNodes
    BY <1>1, <2>1
  <2>4. ~(a[p] < assignment[p + 1])
    BY <2>1, <2>2, <2>3 DEF Gap
  <2> QED  BY <1>1, <2>1, <2>2, <2>4
<1>4. P = Nat
  <2>1. P \in SUBSET Nat
    BY Zenon
  <2> HIDE DEF P
  <2> QED  BY <1>2, <1>3, <2>1, SetInduction
<1> QED  BY <1>4, Pods

\* The search only ends without an assignment if there is none.
LEMMA NothingIsPassedBy ==
  ASSUME PlacementInv, SearchInv, Return, Identical, best = NoAssignment
  PROVE  Assignments = {}
<1> SUFFICES ASSUME NEW a \in Assignments PROVE FALSE
  OBVIOUS
<1>1. /\ TypeOK /\ PlacesInv /\ GapsInv /\ RoundsInv /\ pc = "check"
      /\ assignment[Last] = NumNodes
  BY DEF PlacementInv, SearchInv, Return
<1>2. \A n \in FitNodes : n \in Int /\ n < NumNodes
  BY <1>1, FitsAlike, Pods DEF Node
<1>3. i = Last
  <2>1. CASE i < Last
    <3>1. CanSchedule(Last, NumNodes)
      BY <1>1, <2>1, Pods DEF PlacesInv
    <3> QED  BY <1>1, <1>2, <3>1, FitsAlike, Pods
  <2> QED  BY <1>1, <2>1, Pods DEF TypeOK
<1>4. Gap(0) = {} /\ ~OnFit(0)
  BY <1>1, <1>3, Pods DEF RoundsInv
<1>5. /\ \A p \in Pod : a[p] \in FitNodes /\ a[p] \in Int /\ assignment[p] \in Int
      /\ \A p, q \in Pod : p < q => a[p] < a[q]
  BY <1>1, AssignmentsFit DEF TypeOK
<1>6. CASE Last = 0
  <2>1. a[0] \in Gap(0)
    BY <1>1, <1>2, <1>5, <1>6, Pods DEF Gap
  <2> QED  BY <1>4, <2>1
<1>7. CASE Last > 0
  <2>1. Last - 1 \in Pod /\ Last \in 1 .. Last /\ Last \in Pod
    BY <1>7, Pods
  <2>2. \A p \in 0 .. Last - 1 : Gap(p) = {}
    BY <1>1, <1>3, <1>4, <2>1, Pods DEF GapsInv
  <2>3. assignment[Last - 1] < a[Last - 1]
    BY <1>1, <1>4, <2>1, <2>2, PlacesAreAhead
  <2>4. a[Last - 1] < a[Last]
    BY <1>5, <1>7, <2>1, Pods
  <2>5. a[Last - 1] \in Gap(Last) /\ a[Last] \in Gap(Last)
    BY <1>1, <1>2, <1>5, <2>1, <2>3, <2>4, Pods DEF Gap
  <2>6. a[Last - 1] = a[Last]
    BY <1>1, <2>1, <2>5 DEF GapsInv
  <2> QED  BY <1>5, <2>1, <2>4, <2>6
<1> QED  BY <1>6, <1>7, Pods

-----------------------------------------------------------------------------
(***************************************************************************)
(* Distances.                                                              *)
(***************************************************************************)

\* node_topology_distance of nodes with labels.
LEMMA DistanceIs ==
  ASSUME NEW m \in Node, NEW n \in Node, Key[m] # <<>>, Key[n] # <<>>
  PROVE  Distance(m, n) = IF Key[m][1] # Key[n][1] THEN 1000000
                          ELSE IF Key[m][2] # Key[n][2] THEN 10000
                          ELSE IF Key[m][3] # Key[n][3] THEN 100 ELSE 0
<1>1. PICK k \in Nat \X Nat \X Nat : k = Key[m]
  BY AssignmentAssumption
<1>2. PICK l \in Nat \X Nat \X Nat : l = Key[n]
  BY AssignmentAssumption
<1>3. DOMAIN Key[m] = 1 .. 3
  BY <1>1
<1> DEFINE differ == {a \in DOMAIN Key[m] : Key[m][a] # Key[n][a]}
           Least(c) == c \in differ /\ \A d \in differ : c <= d
           least == CHOOSE c \in differ : \A d \in differ : c <= d
<1>4. Distance(m, n) = IF differ = {} THEN 0 ELSE Weight[least]
  BY Zenon DEF Distance
<1>5. \A c \in differ : c = 1 \/ c = 2 \/ c = 3
  BY <1>3
<1>6. ASSUME NEW c \in 1 .. 3, Least(c) PROVE least = c
  <2>1. least \in differ /\ \A d \in differ : least <= d
    <3> HIDE DEF differ
    <3> QED  BY <1>6, Zenon
  <2> HIDE DEF least
  <2>2. least \in Int /\ least <= c /\ c <= least
    BY <1>3, <1>6, <2>1
  <2> QED  BY <2>2
<1>7. Weight[1] = 1000000 /\ Weight[2] = 10000 /\ Weight[3] = 100
  BY DEF Weight
<1> HIDE DEF least
<1>8. CASE Key[m][1] # Key[n][1]
  <2>1. Least(1)
    BY <1>3, <1>5, <1>8
  <2> QED  BY <1>4, <1>6, <1>7, <1>8, <2>1
<1>9. CASE Key[m][1] = Key[n][1] /\ Key[m][2] # Key[n][2]
  <2>1. Least(2)
    BY <1>3, <1>5, <1>9
  <2> QED  BY <1>4, <1>6, <1>7, <1>9, <2>1
<1>10. CASE Key[m][1] = Key[n][1] /\ Key[m][2] = Key[n][2] /\ Key[m][3] # Key[n][3]
  <2>1. Least(3)
    BY <1>3, <1>5, <1>10
  <2> QED  BY <1>4, <1>6, <1>7, <1>10, <2>1
<1>11. CASE Key[m][1] = Key[n][1] /\ Key[m][2] = Key[n][2] /\ Key[m][3] = Key[n][3]
  <2>1. differ = {}
    BY <1>5, <1>11
  <2> QED  BY <1>4, <1>11, <2>1
<1> QED  BY <1>8, <1>9, <1>10, <1>11

\* Nothing differs from a node without labels.
LEMMA UnlabelledIsNear ==
  ASSUME NEW m, NEW n, Key[m] = <<>>
  PROVE  Distance(m, n) = 0
<1>1. DOMAIN Key[m] = {}
  OBVIOUS
<1> QED  BY <1>1 DEF Distance

\* Distances are numbers.
LEMMA DistanceType ==
  ASSUME NEW m \in Node, NEW n \in Node
  PROVE  Distance(m, n) \in Nat
<1>1. CASE Key[m] = <<>>
  BY <1>1, UnlabelledIsNear
<1>2. CASE Key[m] # <<>>
  <2> DEFINE differ == {l \in DOMAIN Key[m] : Key[m][l] # Key[n][l]}
             least == CHOOSE c \in differ : \A d \in differ : c <= d
  <2>1. PICK k \in Nat \X Nat \X Nat : k = Key[m]
    BY <1>2, AssignmentAssumption
  <2>2. differ \in SUBSET (1 .. 3)
    BY <2>1
  <2>3. Distance(m, n) = IF differ = {} THEN 0 ELSE Weight[least]
    BY Zenon DEF Distance
  <2>4. differ # {} => least \in 1 .. 3
    <3> HIDE DEF differ
    <3>1. differ # {} => \E c \in differ : \A d \in differ : c <= d
      <4>1. differ \in SUBSET Nat
        BY <2>2
      <4> QED  BY <4>1, LeastNumber
    <3>2. differ # {} => least \in differ
      BY <3>1, Zenon
    <3> QED  BY <2>2, <3>2
  <2>5. \A c \in 1 .. 3 : Weight[c] \in Nat
    BY DEF Weight
  <2> HIDE DEF least, differ
  <2> QED  BY <2>3, <2>4, <2>5
<1> QED  BY <1>1, <1>2

\* Of three nodes in the order of their keys, the outer two are the farthest
\* apart, and all have labels if the last two do.
LEMMA NearerIsBetween ==
  ASSUME NEW m \in Node, NEW n \in Node, NEW k \in Node, m <= n, n <= k,
         Key[k] # <<>> => Key[m] # <<>>
  PROVE  /\ Distance(k, n) <= Distance(k, m)
         /\ Distance(n, m) <= Distance(k, m)
<1>1. /\ m = n \/ KeysBefore(Key[m], Key[n])
      /\ n = k \/ KeysBefore(Key[n], Key[k])
  BY AssignmentAssumption DEF Node
<1>2. CASE Key[k] = <<>>
  <2>1. Key[n] = <<>>
    BY <1>1, <1>2 DEF KeysBefore
  <2> QED  BY <1>2, <2>1, UnlabelledIsNear
<1>3. CASE Key[k] # <<>>
  <2>1. Key[m] # <<>> /\ Key[n] # <<>>
    BY <1>1, <1>3 DEF KeysBefore
  <2>2. PICK x \in Nat \X Nat \X Nat : x = Key[m]
    BY <2>1, AssignmentAssumption
  <2>3. PICK y \in Nat \X Nat \X Nat : y = Key[n]
    BY <2>1, AssignmentAssumption
  <2>4. PICK z \in Nat \X Nat \X Nat : z = Key[k]
    BY <1>3, AssignmentAssumption
  <2>5. /\ x[1] <= y[1] /\ y[1] <= z[1]
        /\ (x[2] > y[2] => x[1] < y[1]) /\ (y[2] > z[2] => y[1] < z[1])
        /\ (x[3] > y[3] => x[1] < y[1] \/ x[2] < y[2])
        /\ (y[3] > z[3] => y[1] < z[1] \/ y[2] < z[2])
    BY <1>1, <2>1, <1>3, <2>2, <2>3, <2>4 DEF KeysBefore
  <2>6. /\ Distance(k, n) = IF z[1] # y[1] THEN 1000000 ELSE IF z[2] # y[2] THEN 10000
                            ELSE IF z[3] # y[3] THEN 100 ELSE 0
        /\ Distance(n, m) = IF y[1] # x[1] THEN 1000000 ELSE IF y[2] # x[2] THEN 10000
                            ELSE IF y[3] # x[3] THEN 100 ELSE 0
        /\ Distance(k, m) = IF z[1] # x[1] THEN 1000000 ELSE IF z[2] # x[2] THEN 10000
                            ELSE IF z[3] # x[3] THEN 100 ELSE 0
    BY <1>3, <2>1, <2>2, <2>3, <2>4, DistanceIs
  <2> QED  BY <2>5, <2>6
<1> QED  BY <1>2, <1>3

\* The distances of up to three pods add up.
LEMMA TotalIs ==
  ASSUME NumPods <= 3, NEW a \in [Pod -> Node]
  PROVE  /\ TotalDistance(a) \in Nat
         /\ Last = 0 => TotalDistance(a) = 0
         /\ Last = 1 => TotalDistance(a) = Distance(a[1], a[0])
         /\ Last = 2 => TotalDistance(a) = Distance(a[1], a[0]) + Distance(a[2], a[1])
<1> DEFINE Good(g) == g = [p \in Pod |->
                            IF p = 0 THEN 0 ELSE g[p - 1] + Distance(a[p], a[p - 1])]
           first  == Distance(a[1], a[0])
           second == Distance(a[2], a[1])
           h == [p \in Pod |-> IF p = 0 THEN 0 ELSE IF p = 1 THEN first ELSE first + second]
           to == CHOOSE g : Good(g)
<1>1. \A p, q \in Pod : Distance(a[p], a[q]) \in Nat
  BY DistanceType
<1>2. Good(h)
  <2>1. ASSUME NEW p \in Pod
        PROVE  h[p] = IF p = 0 THEN 0 ELSE h[p - 1] + Distance(a[p], a[p - 1])
    <3>1. 0 \in Pod /\ (p = 0 \/ p = 1 \/ p = 2) /\ (p = 2 => 1 \in Pod)
      BY Pods
    <3>2. CASE p = 0
      BY <3>2
    <3>3. CASE p = 1
      <4>1. first \in Nat /\ h[0] = 0 /\ h[1] = first
        BY <1>1, <3>1, <3>3
      <4> QED  BY <3>3, <4>1
    <3>4. CASE p = 2
      <4>1. first \in Nat /\ second \in Nat /\ h[1] = first /\ h[2] = first + second
        BY <1>1, <3>1, <3>4
      <4> QED  BY <3>4, <4>1
    <3> QED  BY <3>1, <3>2, <3>3, <3>4
  <2>2. h = [p \in Pod |-> h[p]]
    BY Zenon
  <2> HIDE DEF h
  <2> QED  BY <2>1, <2>2
<1>3. TotalDistance(a) = to[Last]
  BY Zenon DEF TotalDistance
<1>4. Good(to)
  <2> HIDE DEF Good
  <2> QED  BY <1>2, Zenon
<1>5. \A p \in Pod : to[p] = IF p = 0 THEN 0 ELSE to[p - 1] + Distance(a[p], a[p - 1])
  <2> HIDE DEF to
  <2> QED  BY <1>4
<1> HIDE DEF to
<1>6. 0 \in Pod /\ to[0] = 0 /\ (Last = 0 \/ Last = 1 \/ Last = 2)
  BY <1>5, Pods
<1>7. CASE Last = 0
  BY <1>3, <1>6, <1>7
<1>8. CASE Last = 1
  <2>1. 1 \in Pod /\ to[1] = 0 + first /\ first \in Nat
    BY <1>1, <1>5, <1>6, <1>8, Pods
  <2> QED  BY <1>3, <1>8, <2>1
<1>9. CASE Last = 2
  <2>1. 1 \in Pod /\ 2 \in Pod /\ first \in Nat /\ second \in Nat
    BY <1>1, <1>6, <1>9, Pods
  <2>2. to[1] = 0 + first /\ to[2] = to[1] + second
    BY <1>5, <1>6, <2>1
  <2> QED  BY <1>3, <1>9, <2>1, <2>2
<1> QED  BY <1>6, <1>7, <1>8, <1>9

-----------------------------------------------------------------------------
(***************************************************************************)
(* Assignments of nodes that follow one another.                           *)
(***************************************************************************)

\* fits never changes, so the windows are the same in every state.
LEMMA WindowsStay ==
  ASSUME fits' = fits
  PROVE  Windows' = Windows
<1>1. Assignments' = Assignments
  BY DEF Assignments, Usable
<1> QED  BY <1>1, FitsStay DEF Windows

\* Places that they all fit on, in the order of the nodes, are an assignment.
LEMMA InOrder ==
  ASSUME TypeOK, Identical, NEW w \in [Pod -> FitNodes],
         \A p, q \in Pod : p < q => w[p] < w[q]
  PROVE  w \in Assignments
<1>1. FitNodes \in SUBSET Node /\ \A p \in Pod : <<p, w[p]>> \in fits
  BY FitsAlike
<1> QED  BY <1>1 DEF Assignments, Usable

\* Between two rounds no other such assignment has the same last node.
LEMMA OneWindowEndsHere ==
  ASSUME PlacementInv, SearchInv, Identical, NumPods <= 3, Complete,
         NEW w \in Windows, w[Last] = assignment[Last]
  PROVE  w = assignment
<1>1. /\ TypeOK /\ PlacesInv /\ pc = "check" /\ assignment[Last] # NumNodes
      /\ w \in Assignments
      /\ \A p \in 1 .. Last, n \in FitNodes : ~(w[p - 1] < n /\ n < w[p])
  BY DEF PlacementInv, Complete, Windows
<1>2. \A p \in 1 .. Last : Gap(p) = {} /\ p \in Pod /\ p - 1 \in Pod /\ p - 1 < p
  BY <1>1, NoGapsBetweenRounds, Pods
<1>3. /\ \A p \in Pod : w[p] \in FitNodes /\ w[p] \in Int
      /\ \A p, q \in Pod : p < q => w[p] < w[q]
      /\ DOMAIN w = Pod
  BY <1>1, AssignmentsFit
<1>4. \A p \in Pod : assignment[p] \in FitNodes /\ assignment[p] \in Int
  <2>1. \A p \in Pod : p > i
    BY <1>1, Pods DEF PlacesInv
  <2> QED  BY <1>1, <2>1, FitsAlike DEF PlacesInv, TypeOK
<1>5. ASSUME NEW p \in 1 .. Last, w[p] = assignment[p]
      PROVE  w[p - 1] = assignment[p - 1]
  <2>1. p \in Pod /\ p - 1 \in Pod /\ p - 1 < p /\ p > 0
    BY <1>2, <1>5
  <2>2. /\ w[p - 1] \in FitNodes /\ w[p - 1] < w[p]
        /\ w[p - 1] \in Int /\ assignment[p - 1] \in Int
    BY <1>3, <1>4, <2>1
  <2>3. assignment[p - 1] \in FitNodes /\ assignment[p - 1] < assignment[p]
    BY <1>1, <1>4, <2>1 DEF PlacesInv
  <2>4. ~(w[p - 1] < assignment[p - 1])
    BY <1>1, <1>5, <2>3
  <2>5. ~(assignment[p - 1] < w[p - 1])
    BY <1>2, <1>5, <2>1, <2>2 DEF Gap
  <2> QED  BY <2>2, <2>4, <2>5
<1>6. \A p \in Pod : w[p] = assignment[p]
  <2>1. Last = 0 \/ Last = 1 \/ Last = 2
    BY Pods
  <2>2. CASE Last = 0
    BY <2>2, Pods
  <2>3. CASE Last = 1
    <3>1. w[0] = assignment[0]
      BY <1>5, <2>3
    <3> QED  BY <2>3, <3>1, Pods
  <2>4. CASE Last = 2
    <3>1. w[1] = assignment[1]
      BY <1>5, <2>4
    <3>2. w[0] = assignment[0]
      BY <1>5, <2>4, <3>1
    <3> QED  BY <2>4, <3>1, <3>2, Pods
  <2> QED  BY <2>1, <2>2, <2>3, <2>4
<1>7. w \in [Pod -> Int] /\ assignment \in [Pod -> Int]
  BY <1>1, <1>3, AssignmentsFit DEF TypeOK
<1> QED  BY <1>6, <1>7

\* A step of the inner loop passes by no node that the last pod fits on
\* without taking it.
LEMMA MoveKeepsWindows ==
  ASSUME PlacementInv, SearchInv, WindowInv,
         NoMoreNodes \/ Take \/ GiveUp \/ MoveOn
  PROVE  WindowInv'
<1> SUFFICES ASSUME Identical, NumPods <= 3, NEW w \in Windows,
                    \/ w[Last] < assignment'[Last]
                    \/ i' = Last /\ w[Last] = assignment'[Last]
             PROVE  best' # NoAssignment /\ TotalDistance(best') <= TotalDistance(w)
  BY FitsStay, WindowsStay DEF WindowInv, NoMoreNodes, Take, GiveUp, MoveOn, Move
<1>1. /\ TypeOK /\ PlacesInv /\ Move /\ pc = "search"
      /\ best' = best /\ (i' = i \/ i' = i - 1)
  BY DEF PlacementInv, NoMoreNodes, Take, GiveUp, MoveOn, Move
<1>2. /\ i \in Pod /\ assignment[Last] \in Int /\ Last \in Pod
      /\ w[Last] \in FitNodes /\ w[Last] \in Int
  <2>1. w \in Assignments
    BY DEF Windows
  <2> QED  BY <1>1, <2>1, MoveKeepsOrder, AssignmentsFit, Pods DEF TypeOK
<1>3. w[Last] < assignment[Last] \/ (i = Last /\ w[Last] = assignment[Last])
  <2>1. CASE i # Last
    <3>1. assignment'[Last] = assignment[Last] /\ i' # Last
      BY <1>1, <1>2, <2>1, MoveKeepsOrder, Pods
    <3> QED  BY <3>1
  <2>2. CASE i = Last
    <3>1. assignment'[Last] = assignment[Last] + 1 /\ Next1 = assignment[Last] + 1
      BY <1>1, <2>2, MoveKeepsOrder DEF Next1
    <3>2. ~(i' = Last /\ w[Last] = assignment'[Last])
      <4>1. i' = i => Next1 \notin FitNodes
        <5>1. CASE Take
          BY <1>2, <5>1, Pods DEF Take
        <5>2. CASE NoMoreNodes
          BY <1>1, <5>2, FitsAlike, Pods DEF NoMoreNodes, Node
        <5>3. CASE GiveUp \/ MoveOn
          BY <1>1, <1>2, <5>3, FitsAlike, MoveKeepsOrder DEF GiveUp, MoveOn
        <5> QED  BY <5>1, <5>2, <5>3
      <4> QED  BY <1>2, <2>2, <3>1, <4>1
    <3> QED  BY <1>2, <2>2, <3>1, <3>2
  <2> QED  BY <2>1, <2>2
<1> QED  BY <1>1, <1>3 DEF WindowInv

\* A new round starts at an assignment that has just been evaluated, or while
\* the places of every assignment are still ahead.
LEMMA StartAgainKeepsWindows ==
  ASSUME PlacementInv, SearchInv, WindowInv, Retry \/ Evaluate
  PROVE  WindowInv'
<1> SUFFICES ASSUME Identical, NumPods <= 3, NEW w \in Windows,
                    w[Last] < assignment[Last] \/ w[Last] = assignment[Last]
             PROVE  best' # NoAssignment /\ TotalDistance(best') <= TotalDistance(w)
  BY FitsStay, WindowsStay DEF WindowInv, Retry, Evaluate, StartAgain
<1>1. /\ TypeOK /\ PlacesInv /\ GapsInv /\ RoundsInv /\ BestIsUsable
      /\ pc = "check" /\ assignment[Last] # NumNodes
  BY DEF PlacementInv, SearchInv, Retry, Evaluate, Complete
<1>2. w \in Assignments /\ w \in [Pod -> Node] /\ w[Last] \in Int /\ assignment[Last] \in Int
  BY <1>1, AssignmentsFit, Pods DEF Windows, TypeOK
<1>3. w[Last] < assignment[Last] =>
        best # NoAssignment /\ TotalDistance(best) <= TotalDistance(w)
  BY <1>1 DEF WindowInv
<1>4. CASE Retry
  <2>1. ~allOk /\ best' = best
    BY <1>4 DEF Retry
  <2>2. best = NoAssignment /\ Gap(0) = {} /\ ~OnFit(0)
    BY <1>1, <2>1 DEF RoundsInv, PlacesInv
  <2>3. \A p \in 0 .. Last : Gap(p) = {}
    BY <1>1, <2>2, NoGapsBetweenRounds, Pods
  <2>4. assignment[Last] < w[Last]
    BY <1>1, <1>2, <2>2, <2>3, PlacesAreAhead, Pods
  <2> QED  BY <1>2, <2>4
<1>5. CASE Evaluate
  <2>1. /\ Complete
        /\ best' = IF best = NoAssignment \/ TotalDistance(assignment) < TotalDistance(best)
                   THEN assignment ELSE best
    BY <1>5 DEF Evaluate
  <2>2. assignment # NoAssignment
    <3>1. DOMAIN assignment = Pod /\ DOMAIN NoAssignment = 1 .. 0 /\ 0 \in Pod
      BY <1>1, Pods DEF TypeOK, NoAssignment
    <3> QED  BY <3>1
  <2>3. assignment \in [Pod -> Node]
    BY <1>1, <2>1, CompleteIsUsable DEF Usable, TypeOK
  <2>4. TotalDistance(w) \in Nat /\ TotalDistance(assignment) \in Nat
    BY <1>2, <2>3, TotalIs
  <2>5. best # NoAssignment => TotalDistance(best) \in Nat
    BY <1>1, TotalIs DEF TypeOK
  <2>6. w[Last] = assignment[Last] => w = assignment
    BY <2>1, OneWindowEndsHere
  <2> QED  BY <1>2, <1>3, <2>1, <2>2, <2>4, <2>5, <2>6
<1> QED  BY <1>4, <1>5

\* Of identical pods there are such nodes that are as close as any.
LEMMA WindowsAreClosest ==
  ASSUME TypeOK, Identical, NumPods <= 3, NEW a \in Assignments, Measurable(a)
  PROVE  \E w \in Windows : TotalDistance(w) <= TotalDistance(a)
<1>1. /\ \A p \in Pod : a[p] \in FitNodes /\ a[p] \in Int
      /\ \A p, q \in Pod : p < q => a[p] < a[q]
      /\ a \in [Pod -> Node]
  BY AssignmentsFit
<1>2. FitNodes \in SUBSET Node /\ FitNodes \in SUBSET Nat /\ FitNodes \in SUBSET (0 .. NumNodes)
  BY FitsAlike, Pods DEF Node
<1>3. 0 \in Pod /\ (Last = 0 \/ Last = 1 \/ Last = 2)
  BY Pods
<1>4. CASE Last = 0
  <2>1. a \in Windows
    BY <1>4 DEF Windows
  <2>2. TotalDistance(a) \in Nat
    BY <1>1, TotalIs
  <2> QED  BY <2>1, <2>2
<1>5. ASSUME Last >= 1
      PROVE  \E b \in FitNodes : /\ a[0] <= b /\ b < a[1]
                                 /\ \A n \in FitNodes : ~(b < n /\ n < a[1])
  <2> DEFINE S == {n \in FitNodes : n < a[1]}
  <2>1. 1 \in Pod /\ a[0] \in S
    BY <1>1, <1>3, <1>5, Pods
  <2>2. S # {} /\ S \in SUBSET (0 .. NumNodes) /\ NumNodes \in Nat
    BY <1>2, <2>1, Pods
  <2>3. PICK b \in S : \A n \in S : n <= b
    <3> HIDE DEF S
    <3> QED  BY <2>2, GreatestNumber
  <2>4. b \in FitNodes /\ b < a[1] /\ a[0] <= b
    BY <2>1, <2>3
  <2>5. ASSUME NEW n \in FitNodes, b < n, n < a[1] PROVE FALSE
    <3>1. n <= b /\ n \in Nat /\ b \in Nat
      BY <1>2, <2>3, <2>4, <2>5
    <3> QED  BY <2>5, <3>1
  <2> QED  BY <2>4, <2>5
<1>6. CASE Last = 1
  <2>1. PICK b \in FitNodes : /\ a[0] <= b /\ b < a[1]
                              /\ \A n \in FitNodes : ~(b < n /\ n < a[1])
    BY <1>5, <1>6
  <2> DEFINE w == [p \in Pod |-> IF p = 0 THEN b ELSE a[1]]
  <2>2. /\ 1 \in Pod /\ w[0] = b /\ w[1] = a[1]
        /\ w \in [Pod -> FitNodes] /\ w \in [Pod -> Node]
        /\ \A p \in Pod : p = 0 \/ p = 1
    BY <1>1, <1>2, <1>3, <1>6, Pods
  <2> HIDE DEF w
  <2>3. w \in Windows
    <3>1. w \in Assignments
      <4>1. \A p, q \in Pod : p < q => p = 0 /\ q = 1
        BY <2>2
      <4>2. \A p, q \in Pod : p < q => w[p] < w[q]
        BY <2>1, <2>2, <4>1
      <4> QED  BY <2>2, <4>2, InOrder
    <3> QED  BY <1>6, <2>1, <2>2, <3>1 DEF Windows
  <2>4. Key[a[1]] # <<>> => Key[a[0]] # <<>>
    BY <1>6 DEF Measurable
  <2>5. Distance(a[1], b) <= Distance(a[1], a[0])
    <3>1. b \in Node /\ a[0] \in Node /\ a[1] \in Node /\ a[0] <= b /\ b <= a[1]
      BY <1>1, <1>2, <1>3, <2>1, <2>2
    <3> QED  BY <2>4, <3>1, NearerIsBetween
  <2>6. /\ TotalDistance(w) = Distance(a[1], b)
        /\ TotalDistance(a) = Distance(a[1], a[0])
    BY <1>1, <1>6, <2>2, TotalIs
  <2> QED  BY <2>3, <2>5, <2>6
<1>7. CASE Last = 2
  <2>1. PICK b \in FitNodes : /\ a[0] <= b /\ b < a[1]
                              /\ \A n \in FitNodes : ~(b < n /\ n < a[1])
    BY <1>5, <1>7
  <2>2. 1 \in Pod /\ 2 \in Pod /\ \A p \in Pod : p = 0 \/ p = 1 \/ p = 2
    BY <1>7, Pods
  <2>3. PICK c \in FitNodes : /\ a[1] < c /\ c <= a[2]
                              /\ \A n \in FitNodes : ~(a[1] < n /\ n < c)
    <3> DEFINE S == {n \in FitNodes : a[1] < n}
    <3>1. a[2] \in S /\ S \in SUBSET Nat
      <4>1. a[1] < a[2] /\ a[2] \in FitNodes
        BY <1>1, <2>2
      <4> QED  BY <1>2, <4>1
    <3>2. PICK c \in S : \A n \in S : c <= n
      <4> HIDE DEF S
      <4> QED  BY <3>1, LeastNumber
    <3> QED  BY <1>2, <3>1, <3>2
  <2> DEFINE w == [p \in Pod |-> IF p = 0 THEN b ELSE IF p = 1 THEN a[1] ELSE c]
  <2>4. /\ w[0] = b /\ w[1] = a[1] /\ w[2] = c
        /\ w \in [Pod -> FitNodes] /\ w \in [Pod -> Node]
    BY <1>1, <1>2, <1>3, <2>2
  <2> HIDE DEF w
  <2>5. /\ b \in Int /\ c \in Int /\ a[0] \in Int /\ a[1] \in Int /\ a[2] \in Int
        /\ b \in Node /\ c \in Node /\ a[0] \in Node /\ a[1] \in Node /\ a[2] \in Node
    BY <1>1, <1>2, <1>3, <2>2
  <2>6. w \in Windows
    <3>1. w \in Assignments
      <4>1. \A p, q \in Pod : p < q =>
              (p = 0 /\ q = 1) \/ (p = 0 /\ q = 2) \/ (p = 1 /\ q = 2)
        BY <2>2
      <4>2. \A p, q \in Pod : p < q => w[p] < w[q]
        BY <2>1, <2>3, <2>4, <2>5, <4>1
      <4> QED  BY <2>4, <4>2, InOrder
    <3>2. \A p \in 1 .. Last : p = 1 \/ p = 2
      BY <1>7
    <3> QED  BY <2>1, <2>3, <2>4, <3>1, <3>2 DEF Windows
  <2>7. /\ Key[a[1]] # <<>> => Key[a[0]] # <<>>
        /\ Key[a[2]] # <<>> => Key[a[1]] # <<>>
    BY <1>7 DEF Measurable
  <2>8. Distance(a[1], b) <= Distance(a[1], a[0])
    BY <2>1, <2>5, <2>7, NearerIsBetween
  <2>9. Distance(c, a[1]) <= Distance(a[2], a[1])
    BY <2>3, <2>5, <2>7, NearerIsBetween
  <2>10. /\ TotalDistance(w) = Distance(a[1], b) + Distance(c, a[1])
         /\ TotalDistance(a) = Distance(a[1], a[0]) + Distance(a[2], a[1])
    BY <1>1, <1>7, <2>4, TotalIs
  <2>11. /\ Distance(a[1], b) \in Nat /\ Distance(c, a[1]) \in Nat
         /\ Distance(a[1], a[0]) \in Nat /\ Distance(a[2], a[1]) \in Nat
    BY <2>5, DistanceType
  <2> QED  BY <2>6, <2>8, <2>9, <2>10, <2>11
<1> QED  BY <1>3, <1>4, <1>6, <1>7

-----------------------------------------------------------------------------
(***************************************************************************)
(* The inductive invariant.                                                *)
(***************************************************************************)

\* At first no pod has come to a node.
LEMMA InitAll == Init => IInv
<1> SUFFICES ASSUME Init PROVE IInv
  OBVIOUS
<1>1. PlacementInv /\ SearchInv
  BY InitInv, InitSearches DEF SearchInv
<1>2. pc = "search" /\ DoneInv /\ IdenticalPodsArePlaced
  BY DEF Init, DoneInv, IdenticalPodsArePlaced
<1>3. WindowInv
  <2> SUFFICES ASSUME Identical, NEW w \in Windows,
                      w[Last] < assignment[Last] \/ w[Last] = assignment[Last]
               PROVE  FALSE
    BY DEF WindowInv
  <2>1. assignment[Last] = -1
    BY Pods DEF Init, FirstAssignment
  <2>2. w[Last] \in Node
    BY Pods, AssignmentsFit DEF Windows
  <2> QED  BY <2>1, <2>2, Pods DEF Node
<1> QED  BY <1>1, <1>2, <1>3 DEF IInv

\* Every step of the loop leaves the gaps in order.
LEMMA SearchKeeps ==
  ASSUME PlacementInv, SearchInv,
         NoMoreNodes \/ Take \/ GiveUp \/ MoveOn \/ Retry \/ Evaluate
  PROVE  SearchInv'
<1>1. Identical <=> Identical'
  BY FitsStay
     DEF NoMoreNodes, Take, GiveUp, MoveOn, Move, Retry, Evaluate, StartAgain
<1> SUFFICES ASSUME Identical PROVE GapsInv' /\ RoundsInv'
  BY <1>1 DEF SearchInv
<1>2. CASE NoMoreNodes \/ MoveOn
  BY <1>2, MoveOnSearches
<1>3. CASE Take
  BY <1>3, TakeSearches
<1>4. CASE GiveUp
  BY <1>4, GiveUpSearches
<1>5. CASE Retry \/ Evaluate
  BY <1>5, StartAgainSearches
<1> QED  BY <1>2, <1>3, <1>4, <1>5

\* While the loop runs there is nothing to say about its result.
LEMMA LoopKeeps ==
  ASSUME IInv, NoMoreNodes \/ Take \/ GiveUp \/ MoveOn \/ Retry \/ Evaluate
  PROVE  IInv'
<1>1. PlacementInv /\ SearchInv /\ WindowInv
  BY DEF IInv
<1>2. PlacementInv'
  BY <1>1, NoMoreNodesKeeps, TakeKeeps, GiveUpKeeps, MoveOnKeeps, RetryKeeps, EvaluateKeeps
<1>3. SearchInv'
  BY <1>1, SearchKeeps
<1>4. WindowInv'
  BY <1>1, MoveKeepsWindows, StartAgainKeepsWindows
<1>5. pc' # "done"
  BY DEF NoMoreNodes, Take, GiveUp, MoveOn, Move, Retry, Evaluate, StartAgain
<1> QED  BY <1>2, <1>3, <1>4, <1>5 DEF IInv, DoneInv, IdenticalPodsArePlaced

\* Nothing but pc changes when the search ends.
LEMMA EndKeepsAll ==
  ASSUME IInv, Return \/ Raise
  PROVE  IInv'
<1>1. /\ UNCHANGED <<fits, assignment, i, allOk, best>> /\ pc # "raised"
      /\ \/ Return /\ pc' = "done" /\ assignment[Last] = NumNodes
         \/ pc' = "raised"
  BY DEF Return, Raise, Complete
<1>2. PlacementInv' /\ SearchInv'
  BY <1>1, EndKeeps DEF IInv, SearchInv
<1>3. Windows' = Windows /\ (Identical <=> Identical')
  BY <1>1, FitsStay, WindowsStay
<1>4. WindowInv'
  BY <1>1, <1>3 DEF IInv, WindowInv
<1>5. DoneInv'
  BY <1>1 DEF DoneInv
<1>6. IdenticalPodsArePlaced'
  <2>1. Assignments' = Assignments
    BY <1>1 DEF Assignments, Usable
  <2> QED  BY <1>1, <1>3, <2>1, NothingIsPassedBy DEF IInv, IdenticalPodsArePlaced
<1> QED  BY <1>2, <1>4, <1>5, <1>6 DEF IInv

-----------------------------------------------------------------------------
(***************************************************************************)
(* Any placement of identical pods can be made one in the order of the     *)
(* nodes.                                                                  *)
(***************************************************************************)

\* Increasing sequences, counted from 0.
Increasing(n, T) ==
  {w \in [0 .. n - 1 -> T] : \A j, k \in 0 .. n - 1 : j < k => w[j] < w[k]}

\* Of n nodes or more, some n can be listed in their order.
LEMMA NodesInOrder ==
  ASSUME NEW n \in Nat, NEW T \in SUBSET Node, n <= Cardinality(T)
  PROVE  Increasing(n, T) # {}
<1> DEFINE P == {m \in Nat : \A S \in SUBSET Node :
                   m <= Cardinality(S) => \E w \in [0 .. m - 1 -> S] :
                     \A j, k \in 0 .. m - 1 : j < k => w[j] < w[k]}
<1>1. IsFiniteSet(Node) /\ Node \in SUBSET (0 .. NumNodes) /\ Node \in SUBSET Int
  BY Pods, FS_Interval DEF Node
<1>2. 0 \in P
  <2> SUFFICES ASSUME NEW S \in SUBSET Node
               PROVE  \E w \in [0 .. 0 - 1 -> S] :
                        \A j, k \in 0 .. 0 - 1 : j < k => w[j] < w[k]
    OBVIOUS
  <2> DEFINE w == [k \in {} |-> 0]
  <2>1. 0 .. 0 - 1 = {}
    OBVIOUS
  <2>2. w \in [{} -> S]
    OBVIOUS
  <2>3. \A j, k \in {} : j < k => w[j] < w[k]
    OBVIOUS
  <2> HIDE DEF w
  <2> QED  BY <2>1, <2>2, <2>3
<1>3. ASSUME NEW m \in P PROVE m + 1 \in P
  <2> SUFFICES ASSUME NEW S \in SUBSET Node, m + 1 <= Cardinality(S)
               PROVE  \E w \in [0 .. (m + 1) - 1 -> S] :
                        \A j, k \in 0 .. (m + 1) - 1 : j < k => w[j] < w[k]
    OBVIOUS
  <2>1. m \in Nat /\ Cardinality(S) \in Nat /\ Cardinality(S) # 0 /\ (m + 1) - 1 = m
    <3>1. m \in Nat
      OBVIOUS
    <3>2. Cardinality(S) \in Nat
      BY <1>1, Smaller
    <3> QED  BY <3>1, <3>2
  <2>2. S # {} /\ S \in SUBSET (0 .. NumNodes) /\ S \in SUBSET Int
    BY <1>1, <2>1, Smaller
  <2>3. PICK last \in S : \A x \in S : x <= last
    BY <2>2, Pods, GreatestNumber
  <2>4. /\ S \ {last} \in SUBSET Node
        /\ Cardinality(S \ {last}) = Cardinality(S) - 1
    BY <1>1, Smaller
  <2>5. m <= Cardinality(S \ {last})
    BY <2>1, <2>4
  <2>6. PICK v \in [0 .. m - 1 -> S \ {last}] :
          \A j, k \in 0 .. m - 1 : j < k => v[j] < v[k]
    BY <2>4, <2>5
  <2> DEFINE w == [k \in 0 .. m |-> IF k = m THEN last ELSE v[k]]
  <2>7. /\ \A k \in 0 .. m : k # m => k \in 0 .. m - 1
        /\ \A j, k \in 0 .. m : j < k => j # m
    BY <2>1
  <2>8. \A k \in 0 .. m : k # m => w[k] = v[k] /\ v[k] \in S /\ v[k] # last
    BY <2>6, <2>7
  <2>9. m \in 0 .. m /\ w[m] = last
    BY <2>1
  <2>10. w \in [0 .. m -> S]
    BY <2>8, <2>9
  <2> HIDE DEF w
  <2>11. ASSUME NEW j \in 0 .. m, NEW k \in 0 .. m, j < k PROVE w[j] < w[k]
    <3>1. j # m /\ w[j] \in S /\ w[j] # last /\ w[j] <= last
      BY <2>3, <2>7, <2>8, <2>11
    <3>2. CASE k = m
      <4>1. w[k] = last /\ last \in Int /\ w[j] \in Int
        BY <2>2, <2>3, <2>9, <3>1, <3>2
      <4> QED  BY <3>1, <4>1
    <3>3. CASE k # m
      <4>1. j \in 0 .. m - 1 /\ k \in 0 .. m - 1 /\ w[j] = v[j] /\ w[k] = v[k]
        BY <2>7, <2>8, <3>1, <3>3
      <4> QED  BY <2>6, <2>11, <4>1
    <3> QED  BY <3>2, <3>3
  <2> QED  BY <2>1, <2>10, <2>11
<1>4. P = Nat
  <2>1. P \in SUBSET Nat
    OBVIOUS
  <2> HIDE DEF P
  <2> QED  BY <1>2, <1>3, <2>1, SetInduction
<1> QED  BY <1>4 DEF Increasing

\* Nodes of their own for identical pods, whatever their order.
LEMMA OrderDoesNotMatter ==
  ASSUME TypeOK, Identical, NEW a \in [Pod -> Node],
         \A p \in Pod : <<p, a[p]>> \in fits,
         \A p, q \in Pod : a[p] = a[q] => p = q
  PROVE  Assignments # {}
<1>0. 0 \in Pod /\ Pod = 0 .. NumPods - 1
  BY Pods DEF Pod
<1>1. \A p \in Pod : a[p] \in FitNodes
  BY <1>0 DEF Identical, FitNodes
<1>2. a \in Injection(Pod, FitNodes)
  BY <1>1 DEF Injection, IsInjective
<1>3. IsFiniteSet(FitNodes) /\ FitNodes \in SUBSET Node
  <2>1. IsFiniteSet(Node)
    BY Pods, FS_Interval DEF Node
  <2> QED  BY <2>1, FS_Subset DEF FitNodes
<1>4. Cardinality(Pod) <= Cardinality(FitNodes)
  BY <1>2, <1>3, FS_Injection
<1>5. Cardinality(Pod) = NumPods
  <2>1. 0 \in Int /\ NumPods - 1 \in Int /\ ~(0 > NumPods - 1)
        /\ (NumPods - 1) - 0 + 1 = NumPods
    BY Pods
  <2> QED  BY <2>1, FS_Interval DEF Pod
<1>6. PICK w \in [Pod -> FitNodes] : \A p, q \in Pod : p < q => w[p] < w[q]
  <2>1. Increasing(NumPods, FitNodes) # {}
    BY <1>3, <1>4, <1>5, Pods, NodesInOrder
  <2> QED  BY <1>0, <2>1 DEF Increasing
<1>7. \A p \in Pod : w[p] \in Node /\ <<p, w[p]>> \in fits
  BY <1>0, <1>6 DEF FitNodes, Identical
<1>8. w \in [Pod -> Node]
  BY <1>6, <1>7
<1> QED  BY <1>6, <1>7, <1>8 DEF Assignments, Usable

-----------------------------------------------------------------------------
(***************************************************************************)
(* The theorems.                                                           *)
(***************************************************************************)

\* Whatever happens, calculate_pods_assignment never lets a pod pass the next
\* one; and of identical pods none passes by a node that they fit on, except
\* for one that the pod behind it can still take.
THEOREM AssignmentInvariance == Spec => []IInv
<1>1. IInv /\ [Next]_vars => IInv'
  <2> SUFFICES ASSUME IInv, [Next]_vars PROVE IInv'
    OBVIOUS
  <2>1. CASE NoMoreNodes \/ Take \/ GiveUp \/ MoveOn \/ Retry \/ Evaluate
    BY <2>1, LoopKeeps
  <2>2. CASE Return \/ Raise
    BY <2>2, EndKeepsAll
  <2>3. CASE UNCHANGED vars
    <3>1. /\ fits' = fits /\ assignment' = assignment /\ i' = i
          /\ allOk' = allOk /\ best' = best /\ pc' = pc
      BY <2>3 DEF vars
    <3>2. TypeOK' /\ PlacesInv'
      BY <3>1 DEF IInv, PlacementInv, TypeOK, PlacesInv, Complete, CanSchedule
    <3>3. BestIsUsable'
      BY <3>1, BestIsKept DEF IInv, PlacementInv
    <3>4. Windows' = Windows /\ (Identical <=> Identical') /\ FitNodes' = FitNodes
      BY <3>1, FitsStay, WindowsStay
    <3>5. SearchInv'
      BY <3>1, <3>4 DEF IInv, SearchInv, GapsInv, RoundsInv, Gap, OnFit
    <3>6. WindowInv'
      BY <3>1, <3>4 DEF IInv, WindowInv
    <3>7. DoneInv' /\ IdenticalPodsArePlaced'
      BY <3>1, <3>4
         DEF IInv, DoneInv, IdenticalPodsArePlaced, Assignments, Usable
    <3> QED  BY <3>2, <3>3, <3>5, <3>6, <3>7 DEF IInv, PlacementInv
  <2> QED  BY <2>1, <2>2, <2>3 DEF Next
<1> QED  BY <1>1, InitAll, PTL DEF Spec

\* What calculate_pods_assignment returns pins each pod to a node that it
\* fits on, and no two pods to one node.
THEOREM PlacementsAreUsable == Spec => []BestIsUsable
<1>1. IInv => BestIsUsable
  BY DEF IInv, PlacementInv
<1> QED  BY <1>1, AssignmentInvariance, PTL

\* Identical pods are placed whenever there are nodes enough that they fit on,
\* however many pods and nodes there are.
THEOREM EnoughNodesAreFound == Spec => []IdenticalPodsArePlaced
<1>1. IInv => IdenticalPodsArePlaced
  BY DEF IInv
<1> QED  BY <1>1, AssignmentInvariance, PTL

\* So a job of identical pods is refused only if there is no way at all to give
\* each of them a node of its own, in whatever order: this is what
\* schedule_pod_with_gate gets of the search, and what TopologyScheduler takes
\* its step SkipJob to mean.
THEOREM RefusedJobsHaveNoPlace ==
  Spec => [](pc = "done" /\ Identical /\ best = NoAssignment =>
               ~\E a \in [Pod -> Node] : /\ \A p \in Pod : <<p, a[p]>> \in fits
                                        /\ \A p, q \in Pod : a[p] = a[q] => p = q)
<1>1. IInv => (pc = "done" /\ Identical /\ best = NoAssignment =>
                 ~\E a \in [Pod -> Node] : /\ \A p \in Pod : <<p, a[p]>> \in fits
                                          /\ \A p, q \in Pod : a[p] = a[q] => p = q)
  <2> SUFFICES ASSUME IInv, pc = "done", Identical, best = NoAssignment,
                      NEW a \in [Pod -> Node], \A p \in Pod : <<p, a[p]>> \in fits,
                      \A p, q \in Pod : a[p] = a[q] => p = q
               PROVE  FALSE
    OBVIOUS
  <2>1. Assignments # {}
    BY OrderDoesNotMatter DEF IInv, PlacementInv
  <2> QED  BY <2>1 DEF IInv, IdenticalPodsArePlaced
<1> QED  BY <1>1, AssignmentInvariance, PTL

\* node_topology_distance raises no IndexError, and so the search is never given
\* up half way, when all nodes have topology labels, or none has.
THEOREM LabelledNodesAreSearched ==
  ASSUME \A m, n \in Node : Key[m] = <<>> => Key[n] = <<>>
  PROVE  Spec => [](pc # "raised")
<1> DEFINE Searched == pc # "raised"
<1>1. Init => Searched
  BY DEF Init
<1>2. IInv /\ Searched /\ [Next]_vars => Searched'
  <2> SUFFICES ASSUME IInv, Raise PROVE FALSE
    BY DEF Next, NoMoreNodes, Take, GiveUp, MoveOn, Move, Return, Retry, Evaluate,
           StartAgain, vars
  <2>1. TypeOK /\ PlacesInv /\ Complete /\ ~Measurable(assignment)
    BY DEF IInv, PlacementInv, Raise
  <2>2. \A p \in Pod : assignment[p] \in Node
    BY <2>1, CompleteIsUsable DEF Usable
  <2>3. PICK p \in 1 .. Last : Key[assignment[p]] # <<>> /\ Key[assignment[p - 1]] = <<>>
    BY <2>1 DEF Measurable
  <2>4. p \in Pod /\ p - 1 \in Pod
    BY Pods
  <2> QED  BY <2>2, <2>3, <2>4
<1> QED  BY <1>1, <1>2, AssignmentInvariance, PTL DEF Spec

\* Up to three identical pods are placed as close together as the topology
\* labels allow, of however many nodes.
THEOREM ThreePodsAreClosest == Spec => []ThreeIdenticalPodsAreClosest
<1>1. IInv => ThreeIdenticalPodsAreClosest
  <2> SUFFICES ASSUME IInv, pc = "done", Identical, NumPods <= 3,
                      NEW a \in Assignments, Measurable(a)
               PROVE  TotalDistance(best) <= TotalDistance(a)
    BY DEF ThreeIdenticalPodsAreClosest
  <2>1. /\ TypeOK /\ WindowInv /\ assignment[Last] = NumNodes
        /\ a \in [Pod -> Node]
    BY AssignmentsFit DEF IInv, PlacementInv, DoneInv
  <2>2. PICK w \in Windows : TotalDistance(w) <= TotalDistance(a)
    BY <2>1, WindowsAreClosest
  <2>3. w \in [Pod -> Node]
    BY AssignmentsFit DEF Windows
  <2>4. w[Last] < assignment[Last]
    BY <2>1, <2>3, Pods DEF Node
  <2>5. best # NoAssignment /\ TotalDistance(best) <= TotalDistance(w)
    BY <2>1, <2>4 DEF WindowInv
  <2>6. best \in [Pod -> Node]
    BY <2>1, <2>5 DEF TypeOK
  <2>7. /\ TotalDistance(best) \in Nat /\ TotalDistance(w) \in Nat
        /\ TotalDistance(a) \in Nat
    BY <2>1, <2>3, <2>6, TotalIs
  <2> QED  BY <2>2, <2>5, <2>7
<1> QED  BY <1>1, AssignmentInvariance, PTL
=============================================================================

---------------------------- MODULE PodAssignment ----------------------------
(***************************************************************************)
(* calculate_pods_assignment of the topology scheduler: its search for the *)
(* nodes of the pods of one job.  The nodes are sorted by their topology   *)
(* keys, the pods by their ranks, and both counted from 0 as the code      *)
(* does.  assignment[i] is the node that pod i has come to; no place in it *)
(* ever moves back.                                                        *)
(***************************************************************************)
EXTENDS Integers, FiniteSets

CONSTANTS
  NumPods,      \* len(sorted_pods)
  NumNodes,     \* len(sorted_nodes)
  Key           \* node_topology_key of every node, <<>> without the labels

Pod  == 0 .. NumPods - 1
Node == 0 .. NumNodes - 1
Last == NumPods - 1

\* Tuples in the order that Python sorts them.
KeysBefore(k, l) ==
  \/ k = <<>>
  \/ /\ l # <<>>
     /\ \A a \in 1 .. 3 : k[a] > l[a] => \E b \in 1 .. a - 1 : k[b] < l[b]

ASSUME AssignmentAssumption ==
  /\ NumPods \in Nat \ {0}
  /\ NumNodes \in Nat
  /\ \A n \in Node : Key[n] = <<>> \/ Key[n] \in Nat \X Nat \X Nat
  /\ \A m, n \in Node : m < n => KeysBefore(Key[m], Key[n])

VARIABLES
  fits,         \* the pods and nodes of which can_schedule is true
  assignment,
  i,            \* the pod whose place is moved
  allOk,
  best,         \* best_assignment, or NoAssignment
  pc            \* "search": inner loop, "check": after it, "done" or "raised"

vars == <<fits, assignment, i, allOk, best, pc>>

NoAssignment == <<>>

TypeOK ==
  /\ fits \in SUBSET (Pod \X Node)
  /\ assignment \in [Pod -> Int]
  /\ i \in -1 .. Last
  /\ allOk \in BOOLEAN
  /\ best \in [Pod -> Node] \cup {NoAssignment}
  /\ pc \in {"search", "check", "done", "raised"}

FirstAssignment == [p \in Pod |-> p - NumPods]

Init ==
  /\ fits \in SUBSET (Pod \X Node)
  /\ assignment = FirstAssignment
  /\ i = Last
  /\ allOk = TRUE
  /\ best = NoAssignment
  /\ pc = "search"

-----------------------------------------------------------------------------
(***************************************************************************)
(* Distances.                                                              *)
(***************************************************************************)

Weight == <<1000000, 10000, 100>>

\* node_topology_distance, by the first label that differs.
Distance(m, n) ==
  LET differ == {l \in DOMAIN Key[m] : Key[m][l] # Key[n][l]} IN
    IF differ = {} THEN 0
    ELSE Weight[CHOOSE l \in differ : \A k \in differ : l <= k]

\* From each pod of the job to the one before it.
TotalDistance(a) ==
  LET to[p \in Pod] == IF p = 0 THEN 0 ELSE to[p - 1] + Distance(a[p], a[p - 1])
  IN  to[Last]

\* node_topology_distance compares a label with one that is not there, an
\* IndexError, when only the pod before is on a node without labels.
Measurable(a) ==
  \A p \in 1 .. Last : Key[a[p]] # <<>> => Key[a[p - 1]] # <<>>

-----------------------------------------------------------------------------
(***************************************************************************)
(* The inner loop: pod i is moved on by one node at a time.                *)
(***************************************************************************)

\* (Mutated: the requests of the first pod stand for all.)
CanScheduleFirstPod(p, n) == n >= 0 /\ <<0, n>> \in fits

\* (Mutated: off by one.)
CanScheduleButFirst(p, n) == n > 0 /\ <<p, n>> \in fits

CanSchedule(p, n) == n >= 0 /\ <<p, n>> \in fits

Next1 == assignment[i] + 1

Move ==
  /\ pc = "search"
  /\ assignment' = [assignment EXCEPT ![i] = Next1]
  /\ UNCHANGED <<fits, best>>

\* (Mutated: off by one.)
TouchesOnTop == i < Last /\ Next1 = assignment[i + 1]

\* The pod has come up against the next one.
Touches == i < Last /\ Next1 = assignment[i + 1] - 1

NoMoreNodes ==
  /\ Move
  /\ Next1 = NumNodes
  /\ pc' = "check"
  /\ UNCHANGED <<i, allOk>>

Take ==
  /\ Move
  /\ Next1 # NumNodes
  /\ CanSchedule(i, Next1)
  /\ i' = i - 1
  /\ pc' = IF i = 0 THEN "check" ELSE "search"
  /\ UNCHANGED allOk

GiveUp ==
  /\ Move
  /\ Next1 # NumNodes
  /\ ~CanSchedule(i, Next1)
  /\ Touches
  /\ allOk' = FALSE
  /\ pc' = "check"
  /\ UNCHANGED i

MoveOn ==
  /\ Move
  /\ Next1 # NumNodes
  /\ ~CanSchedule(i, Next1)
  /\ ~Touches
  /\ UNCHANGED <<i, allOk, pc>>

-----------------------------------------------------------------------------
(***************************************************************************)
(* The rest of the outer loop.                                             *)
(***************************************************************************)

StartAgain ==
  /\ i' = Last
  /\ allOk' = TRUE
  /\ pc' = "search"
  /\ UNCHANGED <<fits, assignment>>

Return ==
  /\ pc = "check"
  /\ assignment[Last] = NumNodes
  /\ pc' = "done"
  /\ UNCHANGED <<fits, assignment, i, allOk, best>>

\* (Mutated: all the places are set back.)
RetryFromScratch ==
  /\ pc = "check"
  /\ assignment[Last] # NumNodes
  /\ ~allOk
  /\ i' = Last
  /\ allOk' = TRUE
  /\ pc' = "search"
  /\ assignment' = FirstAssignment
  /\ UNCHANGED <<fits, best>>

Retry ==
  /\ pc = "check"
  /\ assignment[Last] # NumNodes
  /\ ~allOk
  /\ StartAgain
  /\ UNCHANGED best

Complete == pc = "check" /\ assignment[Last] # NumNodes /\ allOk

\* The distance of some pod to the one before it raises: schedule_pod_with_gate
\* catches the exception and goes on with the next job.
Raise ==
  /\ Complete
  /\ ~Measurable(assignment)
  /\ pc' = "raised"
  /\ UNCHANGED <<fits, assignment, i, allOk, best>>

\* (Mutated: the last assignment is kept, not the best.)
EvaluateLast ==
  /\ Complete
  /\ Measurable(assignment)
  /\ best' = assignment
  /\ StartAgain

Evaluate ==
  /\ Complete
  /\ Measurable(assignment)
  /\ best' = IF best = NoAssignment \/ TotalDistance(assignment) < TotalDistance(best)
             THEN assignment ELSE best
  /\ StartAgain

Next ==
  \/ NoMoreNodes \/ Take \/ GiveUp \/ MoveOn
  \/ Return \/ Retry \/ Raise \/ Evaluate

\* The loop runs.
Spec     == Init /\ [][Next]_vars
FairSpec == Spec /\ WF_vars(Next)

-----------------------------------------------------------------------------
(***************************************************************************)
(* Properties.                                                             *)
(***************************************************************************)

\* Assignments that the search looks for: a node for every pod, in the order
\* of the nodes, and so never one node for two pods.
Usable(a) ==
  /\ \A p \in Pod : a[p] \in Node /\ <<p, a[p]>> \in fits
  /\ \A p, q \in Pod : p < q => a[p] < a[q]

Assignments == {a \in [Pod -> Node] : Usable(a)}

\* schedule_pod_with_gate pins every pod to a node of its own that it fits on.
BestIsUsable == best # NoAssignment => Usable(best)

Identical == \A p, q \in Pod, n \in Node : <<p, n>> \in fits => <<q, n>> \in fits

\* Although no place is ever moved back, pods that fit on the same nodes are
\* placed whenever there are enough of these.
IdenticalPodsArePlaced ==
  pc = "done" /\ Identical /\ Assignments # {} => best # NoAssignment

\* Up to three of them are placed as close together as can be; of four,
\* two pairs in two racks with a third rack between them are not found.
ThreeIdenticalPodsAreClosest ==
  pc = "done" /\ Identical /\ NumPods <= 3 =>
    \A a \in Assignments :
      Measurable(a) => TotalDistance(best) <= TotalDistance(a)

\* The search comes to an end.
SearchEnds == <>(pc \in {"done", "raised"})

\* "Gets the best pod assignment by minimizing the topology distance": "we
\* checked all combinations, return what found so far".
ReturnsTheBest ==
  pc = "done" =>
    \A a \in Assignments :
      Measurable(a) =>
        best # NoAssignment /\ TotalDistance(best) <= TotalDistance(a)

(***************************************************************************)
(* The inductive strengthening of these properties.                        *)
(***************************************************************************)

\* The places increase, pod i has room before the next one, and those behind
\* it are taken.
PlacesInv ==
  /\ \A p, q \in Pod : p < q => assignment[p] < assignment[q]
  /\ assignment[Last] <= NumNodes
  /\ pc = "search" => /\ i >= 0 /\ allOk
                      /\ i < Last => assignment[i] < assignment[i + 1] - 1
                      /\ assignment[Last] < NumNodes
  /\ pc \in {"search", "check"} =>
       \A p \in Pod : p > i => CanSchedule(p, assignment[p])
  /\ ~allOk => i >= 0
  /\ Complete => i = -1

\* Of pods that fit on the same nodes, these are the nodes; those that are free
\* before pod p, back to the pod before it; and whether p is on one.
FitNodes == {n \in Node : <<0, n>> \in fits}

Gap(p) == {n \in FitNodes : (p > 0 => assignment[p - 1] < n) /\ n < assignment[p]}

OnFit(p) == assignment[p] \in FitNodes

\* A round moves each pod on to the next of the nodes, which the pod behind it
\* has just left: one node is free before a pod that moves, if it was on one,
\* and one behind it.
GapsInv ==
  \A p \in 1 .. Last :
    /\ Gap(p) # {} => \/ pc = "search" /\ p \in {i, i + 1}
                      \/ p = Last /\ i = Last /\ assignment[Last] = NumNodes
    /\ \A m, n \in Gap(p) : m = n
    /\ OnFit(p - 1) => OnFit(p) \/ (p = i /\ Gap(p) # {})
    /\ p = i /\ OnFit(p) => Gap(p) = {}
    /\ p = i + 1 /\ i >= 0 /\ (OnFit(i) \/ Gap(i) # {}) => Gap(p) # {}

\* Until there is an assignment pod 0 has seen no node; then no round fails.
RoundsInv ==
  /\ best = NoAssignment => Gap(0) = {} /\ (i >= 0 => ~OnFit(0))
  /\ best # NoAssignment =>
       allOk /\ \A p \in 0 .. i : OnFit(p) \/ (p = i /\ Gap(p) # {})

SearchInv == Identical /\ pc \in {"search", "check"} => GapsInv /\ RoundsInv

\* Assignments to nodes that follow one another, of up to three pods, have been
\* looked at up to where the last pod is.
Windows ==
  {w \in Assignments : \A p \in 1 .. Last, n \in FitNodes : ~(w[p - 1] < n /\ n < w[p])}

WindowInv ==
  Identical /\ NumPods <= 3 /\ pc # "raised" =>
    \A w \in Windows :
      w[Last] < assignment[Last] \/ (i = Last /\ w[Last] = assignment[Last]) =>
        best # NoAssignment /\ TotalDistance(best) <= TotalDistance(w)

DoneInv == pc = "done" => assignment[Last] = NumNodes

PlacementInv == TypeOK /\ PlacesInv /\ BestIsUsable

IInv ==
  PlacementInv /\ SearchInv /\ WindowInv /\ DoneInv /\ IdenticalPodsArePlaced
=============================================================================

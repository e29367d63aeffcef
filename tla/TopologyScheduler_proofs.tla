---------------------- MODULE TopologyScheduler_proofs ----------------------
(***************************************************************************)
(* Theorems about TopologyScheduler, for any number of pods, nodes, gates, *)
(* failures and lost answers.                                              *)
(***************************************************************************)
EXTENDS TopologyScheduler, FiniteFolds

-----------------------------------------------------------------------------
(***************************************************************************)
(* Jobs and assignments.                                                   *)
(***************************************************************************)

\* Jobs are sets of listed pods.
LEMMA JobsAreListed ==
  ASSUME NEW listed \in SUBSET Pod
  PROVE  Jobs(listed) \in SUBSET SUBSET Pod
<1>1. \A e, p : Neighbours(listed, e, p) \subseteq listed
  BY DEF Neighbours
<1>2. NamedJobs(listed) \subseteq SUBSET Pod
  BY <1>1 DEF NamedJobs
<1>3. Jobless(listed, NumExtractors) \subseteq Pod
  BY DEF Jobless
<1> QED  BY <1>2, <1>3 DEF Jobs

\* An assignment gives each pod of the job a node of its own, among the nodes
\* that were free.
LEMMA AssignmentIsInjective ==
  ASSUME NEW job \in SUBSET Pod, NEW free \in SUBSET Node,
         NEW a \in Assignments(job, free)
  PROVE  /\ a \in [Pod -> Node \cup {NoNode}]
         /\ \A p \in job : a[p] \in free /\ CanSchedule(p, a[p])
         /\ \A p, q \in job : a[p] = a[q] => p = q
BY DEF Assignments

\* A set of pods has a first one.
LEMMA FirstIsMember ==
  ASSUME NEW job \in SUBSET Pod, job # {}
  PROVE  First(job) \in job
<1>1. job \in SUBSET Nat
  BY DEF Pod
<1>2. PICK p \in job : \A q \in job : p <= q
  BY <1>1, LeastNumber
<1> QED  BY <1>2, Zenon DEF First

\* "guarantee: we checked above that all pods have same tolerations"
\* (schedule-daemon.py:261): the pods of a group that is entered under a name
\* tolerate their nodes, although only the first one's tolerations are looked
\* at.  The pods without a job have been through no such check.
THEOREM NamedJobsTolerateTheirNodes ==
  ASSUME NEW listed \in SUBSET Pod, NEW name, NEW x \in Entries(listed, name),
         NEW free \in SUBSET Node,
         NEW a \in Assignments(Neighbours(listed, x[1], x[2]),
                               SchedulableNodes(Neighbours(listed, x[1], x[2]), free)),
         NEW p \in Neighbours(listed, x[1], x[2])
  PROVE  Tolerates(p, a[p])
<1> DEFINE job == Neighbours(listed, x[1], x[2])
<1>1. job \in SUBSET Pod /\ First(job) \in job
  BY FirstIsMember DEF Neighbours
<1>2. specs.tolerations[p] = specs.tolerations[First(job)]
  BY <1>1 DEF Entries, SameTolerations
<1>3. a[p] \in SchedulableNodes(job, free)
  <2>1. /\ a \in [Pod -> SchedulableNodes(job, free) \cup {NoNode}]
        /\ a[p] # NoNode
    BY Zenon DEF Assignments
  <2> QED  BY <1>1, <2>1
<1> QED  BY <1>2, <1>3 DEF SchedulableNodes, Tolerates

\* What pods take is a number, none if there are none, less for fewer pods, and
\* a pod's request more for one pod more.
LEMMA TakenAddsUp ==
  ASSUME NEW S \in SUBSET Pod
  PROVE  /\ Taken(S) \in Nat
         /\ \A R \in SUBSET S : Taken(R) <= Taken(S)
         /\ \A p \in Pod \ S : Taken(S \cup {p}) = Taken(S) + Need[p]
<1>1. IsFiniteSet(Pod)
  BY SchedulerAssumption, FS_Interval DEF Pod
<1>2. IsFiniteSet(S)
  BY <1>1, FS_Subset
<1>3. \A p \in Pod : Need[p] \in Nat
  BY SchedulerAssumption
<1>4. Taken(S) \in Nat
  BY <1>2, <1>3, SumTakesOut DEF Taken
<1>5. \A R \in SUBSET S : Taken(R) <= Taken(S)
  BY <1>2, <1>3, SumOfPart DEF Taken
<1>6. \A p \in Pod \ S : Taken(S \cup {p}) = Taken(S) + Need[p]
  BY <1>2, <1>3, SumAdds DEF Taken
<1> QED  BY <1>4, <1>5, <1>6

-----------------------------------------------------------------------------
(***************************************************************************)
(* The inductive invariant: what was placed.                               *)
(***************************************************************************)

\* At first nothing is given out.
LEMMA InitPlacement == Init => PlacementInv
<1> SUFFICES ASSUME Init PROVE PlacementInv
  OBVIOUS
<1>1. used \in [Node -> Nat]
  BY DEF Init, NoRound
<1> QED
  BY <1>1, SchedulerAssumption
     DEF Init, PlacementInv, TypeOK, PlanInv, PlacedInv, OneNodePerPod, NoRound, NoPlan, Phase

\* A round that ends leaves nothing to state.
LEMMA RoundEndsKeepsPlacement ==
  ASSUME PlacementInv, RoundEnds, UNCHANGED podVars, gates' \in SUBSET Gate,
         left' \in [failures : Nat, unseen : Nat], left'.unseen = left.unseen
  PROVE  PlacementInv'
<1>1. used' \in [Node -> Nat]
  BY DEF RoundEnds
<1> QED
  BY <1>1 DEF PlacementInv, TypeOK, PlanInv, PlacedInv, OneNodePerPod, RoundEnds,
              NoPlan, podVars

\* Steps of the scheduler that only look: there is no plan, and the pods that
\* were placed do not change.
LEMMA LookingKeepsPlacement ==
  ASSUME PlacementInv, UNCHANGED <<podVars, todo, plan, recently, placed>>,
         pc # "replace", left'.unseen = left.unseen, TypeOK'
  PROVE  PlacementInv'
BY DEF PlacementInv, PlanInv, PlacedInv, OneNodePerPod, podVars

\* Steps of the cluster: the pods that were placed stay where they are.
LEMMA ClusterKeepsPlacement ==
  ASSUME PlacementInv, UNCHANGED <<specs, pc, gates, roundVars>>,
         phase' \in [Pod -> Phase],
         pin' \in [Pod -> Node \cup {NoNode}],
         left' \in [failures : Nat, unseen : Nat],
         left'.unseen <= left.unseen,
         \A p \in placed : phase'[p] \notin {"absent", "gated"} /\ pin'[p] = pin[p]
  PROVE  PlacementInv'
<1> USE DEF PlacementInv
<1>1. TypeOK'
  BY DEF TypeOK, roundVars
<1>2. PlanInv'
  BY DEF PlanInv, CanSchedule, roundVars
<1>3. left'.unseen = MaxUnseen => left.unseen = MaxUnseen
  BY SchedulerAssumption DEF PlacedInv, TypeOK
<1>4. left'.unseen <= MaxUnseen
  BY SchedulerAssumption DEF PlacedInv, TypeOK
<1>5. PlacedInv'
  BY <1>3, <1>4 DEF PlacedInv, roundVars
<1>6. OneNodePerPod'
  BY <1>3 DEF OneNodePerPod, roundVars
<1> QED  BY <1>1, <1>2, <1>5, <1>6

\* The pods of the job that is planned get nodes that were not given out.
LEMMA PlanJobKeepsPlacement == PlacementInv /\ PlanJob => PlacementInv'
<1> SUFFICES ASSUME PlacementInv, PlanJob PROVE PlacementInv'
  OBVIOUS
<1> USE DEF PlacementInv
<1>1. PICK job \in jobs :
         /\ NextJob(job)
         /\ plan' \in Assignments(job, SchedulableNodes(job, nodes'))
         /\ todo' = job /\ pc' = "replace"
  BY DEF PlanJob
<1>2. job \in SUBSET Pod /\ nodes' = nodes \ recently /\ nodes' \in SUBSET Node
  BY <1>1 DEF TypeOK, NextJob
<1>3. /\ plan' \in [Pod -> Node \cup {NoNode}]
      /\ \A p \in job : plan'[p] \in nodes' /\ CanSchedule(p, plan'[p])
      /\ \A p, q \in job : plan'[p] = plan'[q] => p = q
  <2>1. SchedulableNodes(job, nodes') \subseteq nodes'
    BY DEF SchedulableNodes
  <2> QED  BY <1>1, <1>2, <2>1, AssignmentIsInjective
<1>4. TypeOK'
  BY <1>1, <1>2, <1>3 DEF TypeOK, NextJob, podVars
<1>5. PlanInv'
  BY <1>1, <1>2, <1>3 DEF PlanInv, CanSchedule, NextJob
<1>6. PlacedInv' /\ OneNodePerPod'
  BY <1>1 DEF PlacedInv, OneNodePerPod, NextJob, podVars
<1> QED  BY <1>4, <1>5, <1>6

\* The pod that is pinned was not placed before, and its node was not given
\* to a pod that was.
LEMMA SchedulePodKeepsPlacement ==
  ASSUME PlacementInv, NEW p \in todo, SchedulePod(p)
  PROVE  PlacementInv'
<1> USE DEF PlacementInv
<1>1. p \in Pod /\ p \notin placed /\ plan[p] \in Node \ recently
  BY DEF SchedulePod, PodReplaced, PlacedInv, PlanInv, TypeOK
<1>2. /\ phase' = [phase EXCEPT ![p] = "released"]
      /\ pin' = [pin EXCEPT ![p] = plan[p]]
      /\ todo' = todo \ {p} /\ plan' = [plan EXCEPT ![p] = NoNode]
      /\ recently' = recently \cup {plan[p]} /\ placed' = placed \cup {p}
      /\ left' = left /\ specs' = specs
  BY DEF SchedulePod, PodReplaced
<1>3. TypeOK'
  BY <1>1, <1>2 DEF TypeOK, SchedulePod, Phase
<1>4. PlanInv'
  <2> SUFFICES ASSUME NEW q \in todo'
               PROVE  /\ plan'[q] \in Node \ recently'
                      /\ CanSchedule(q, plan[q])'
                      /\ \A r \in todo' : plan'[q] = plan'[r] => q = r
    BY <1>2 DEF PlanInv, SchedulePod
  <2>1. q \in todo /\ q # p /\ plan'[q] = plan[q]
    BY <1>2 DEF TypeOK
  <2>2. plan[q] # plan[p]
    BY <2>1 DEF PlanInv
  <2>3. \A r \in todo' : r \in todo /\ plan'[r] = plan[r]
    BY <1>2 DEF TypeOK
  <2>4. used' = used /\ CanSchedule(q, plan[q])
    BY <2>1 DEF SchedulePod, PlanInv
  <2> QED  BY <1>2, <2>1, <2>2, <2>3, <2>4 DEF PlanInv, CanSchedule
<1>5. \A q \in placed : pin'[q] = pin[q] /\ phase'[q] = phase[q] /\ q \in Pod
  BY <1>1, <1>2 DEF TypeOK
<1>6. pin'[p] = plan[p] /\ phase'[p] = "released"
  BY <1>1, <1>2 DEF TypeOK
<1>7. PlacedInv'
  BY <1>1, <1>2, <1>5, <1>6 DEF PlacedInv
<1>8. OneNodePerPod'
  BY <1>1, <1>2, <1>5, <1>6 DEF OneNodePerPod, PlacedInv
<1> QED  BY <1>3, <1>4, <1>7, <1>8

\* When the answer is lost the node is not entered, and nothing is said of
\* what follows but that placed pods have nodes.
LEMMA AnswerLostKeepsPlacement ==
  ASSUME PlacementInv, NEW p \in todo, SchedulePodAnswerLost(p)
  PROVE  PlacementInv'
<1> USE DEF PlacementInv
<1>1. p \in Pod /\ plan[p] \in Node
  BY DEF PlanInv, TypeOK
<1>2. /\ phase' = [phase EXCEPT ![p] = "released"]
      /\ pin' = [pin EXCEPT ![p] = plan[p]]
      /\ todo' = {} /\ plan' = NoPlan /\ placed' = placed \cup {p}
      /\ left' = [left EXCEPT !.unseen = @ - 1] /\ left.unseen > 0
      /\ specs' = specs
  BY DEF SchedulePodAnswerLost, PodReplaced, Break
<1>3. left' \in [failures : Nat, unseen : Nat] /\ left'.unseen < MaxUnseen
  BY <1>2, SchedulerAssumption DEF TypeOK, PlacedInv
<1>4. TypeOK'
  BY <1>1, <1>2, <1>3 DEF TypeOK, SchedulePodAnswerLost, Break, Phase, NoPlan
<1>5. PlanInv'
  BY <1>2 DEF PlanInv
<1>6. MaxUnseen \in Nat /\ left'.unseen \in Nat
  BY <1>3, SchedulerAssumption
<1>7. \A q \in placed' : phase'[q] \notin {"absent", "gated"} /\ pin'[q] \in Node
  BY <1>1, <1>2 DEF TypeOK, PlacedInv
<1>8. PlacedInv'
  BY <1>3, <1>6, <1>7 DEF PlacedInv
<1>9. OneNodePerPod'
  BY <1>3, <1>6 DEF OneNodePerPod
<1> QED  BY <1>4, <1>5, <1>8, <1>9

\* A break leaves no plan, and the pods that are placed as they are.
LEMMA BreakKeepsPlacement ==
  ASSUME PlacementInv, Break, UNCHANGED <<podVars, placed>>,
         left' \in [failures : Nat, unseen : Nat], left'.unseen = left.unseen
  PROVE  PlacementInv'
BY DEF PlacementInv, TypeOK, PlanInv, PlacedInv, OneNodePerPod, Break, NoPlan, podVars

\* Every step keeps what was placed.
LEMMA NextPlacement == PlacementInv /\ [Next]_vars => PlacementInv'
<1> SUFFICES ASSUME PlacementInv, [Next]_vars PROVE PlacementInv'
  OBVIOUS
<1> USE DEF PlacementInv
<1>1. CASE EndPause
  BY <1>1, LookingKeepsPlacement DEF EndPause, TypeOK, podVars, roundVars
<1>2. CASE FindPodGates
  <2>1. gates' \in SUBSET Gate
    BY <1>2, SchedulerAssumption DEF FindPodGates, Gated
  <2> QED  BY <1>2, <2>1, LookingKeepsPlacement DEF FindPodGates, TypeOK, podVars, roundVars
<1>3. CASE ListGatedPods
  <2>1. PICK g \in gates : /\ gates' = gates \ {g}
                           /\ jobs' = Jobs(WithGate(g))
    BY <1>3 DEF ListGatedPods
  <2>2. jobs' \in SUBSET SUBSET Pod
    BY <2>1, JobsAreListed DEF WithGate, Gated
  <2>3. /\ gates' \in SUBSET Gate /\ pc = "gates" /\ pc' = "running"
        /\ UNCHANGED <<podVars, used, nodes, todo, plan, recently, placed, left>>
    BY <1>3, <2>1 DEF ListGatedPods, TypeOK
  <2> QED  BY <2>2, <2>3, LookingKeepsPlacement DEF TypeOK, podVars
<1>4. CASE ListRunningPods
  <2>1. left' \in [failures : Nat, unseen : Nat] /\ left'.unseen = left.unseen
    BY <1>4 DEF ListRunningPods, Fail, TypeOK
  <2>2. \A n \in Node : Taken(RunningOn(n)) \in Nat
    BY TakenAddsUp DEF RunningOn
  <2>3. used' \in [Node -> Nat]
    BY <1>4, <2>2 DEF ListRunningPods
  <2> QED  BY <1>4, <2>1, <2>3, LookingKeepsPlacement DEF ListRunningPods, TypeOK, podVars
<1>5. CASE SkipJob
  BY <1>5, LookingKeepsPlacement DEF SkipJob, NextJob, TypeOK, podVars
<1>6. CASE PlanJob
  BY <1>6, PlanJobKeepsPlacement
<1>7. CASE EndGate
  BY <1>7, RoundEndsKeepsPlacement DEF EndGate, TypeOK
<1>8. ASSUME NEW p \in todo, Schedule(p) PROVE PlacementInv'
  <2>1. CASE SchedulePod(p)
    BY <2>1, SchedulePodKeepsPlacement
  <2>2. CASE SchedulePodAnswerLost(p)
    BY <2>2, AnswerLostKeepsPlacement
  <2>3. CASE SchedulePodFails(p)
    <3>1. left' \in [failures : Nat, unseen : Nat] /\ left'.unseen = left.unseen
      BY <2>3 DEF SchedulePodFails, TypeOK
    <3> QED  BY <2>3, <3>1, BreakKeepsPlacement DEF SchedulePodFails
  <2>4. CASE SchedulePodRaises(p)
    BY <2>4, BreakKeepsPlacement DEF SchedulePodRaises, TypeOK
  <2> QED  BY <1>8, <2>1, <2>2, <2>3, <2>4 DEF Schedule
<1>9. CASE JobCreated
  <2>1. /\ UNCHANGED <<specs, pc, gates, roundVars>> /\ pin' = pin /\ left' = left
        /\ \E p \in Pod :
             phase' = [q \in Pod |-> IF q \in JobPods(p) /\ phase[q] = "absent"
                                     THEN "gated" ELSE phase[q]]
    BY <1>9 DEF JobCreated
  <2>2. phase' \in [Pod -> Phase]
    BY <2>1 DEF TypeOK, Phase
  <2>3. \A p \in placed : phase'[p] \notin {"absent", "gated"}
    BY <2>1 DEF TypeOK, PlacedInv
  <2> QED  BY <2>1, <2>2, <2>3, ClusterKeepsPlacement DEF TypeOK
<1>10. ASSUME NEW p \in Pod, PodStarts(p) PROVE PlacementInv'
  <2>1. PICK n \in Node : pin[p] \in {n, NoNode} /\ pin' = [pin EXCEPT ![p] = n]
    BY <1>10 DEF PodStarts, HasRoom
  <2>2. \A q \in placed : q \in Pod /\ pin[q] \in Node /\ pin'[q] = pin[q]
    BY <2>1, SchedulerAssumption DEF TypeOK, PlacedInv
  <2>3. phase' = [phase EXCEPT ![p] = "running"] /\ left' = left
        /\ UNCHANGED <<specs, pc, gates, roundVars>>
    BY <1>10 DEF PodStarts
  <2>4. /\ phase' \in [Pod -> Phase] /\ pin' \in [Pod -> Node \cup {NoNode}]
        /\ left' \in [failures : Nat, unseen : Nat] /\ left'.unseen <= left.unseen
    BY <2>1, <2>3 DEF TypeOK, Phase
  <2>5. \A q \in placed : phase'[q] \notin {"absent", "gated"}
    BY <2>2, <2>3 DEF TypeOK, PlacedInv
  <2> QED  BY <2>2, <2>3, <2>4, <2>5, ClusterKeepsPlacement
<1>11. ASSUME NEW p \in Pod, PodFinishes(p) PROVE PlacementInv'
  BY <1>11, ClusterKeepsPlacement DEF PodFinishes, TypeOK, PlacedInv, Phase
<1>12. ASSUME NEW p \in Pod, PodDeleted(p) PROVE PlacementInv'
  BY <1>12, ClusterKeepsPlacement DEF PodDeleted, Fail, TypeOK, PlacedInv, Phase
<1>13. ASSUME NEW p \in Pod, GateRemoved(p) PROVE PlacementInv'
  BY <1>13, ClusterKeepsPlacement DEF GateRemoved, TypeOK, PlacedInv, Phase
<1>14. CASE Crash
  <2>1. left' \in [failures : Nat, unseen : Nat] /\ left'.unseen = left.unseen
    BY <1>14 DEF Crash, Fail, TypeOK
  <2> QED  BY <1>14, <2>1, RoundEndsKeepsPlacement DEF Crash
<1>15. CASE ListGatedPodsRaises
  BY <1>15, RoundEndsKeepsPlacement DEF ListGatedPodsRaises, TypeOK
<1>16. CASE UNCHANGED vars
  BY <1>16, ClusterKeepsPlacement DEF vars, TypeOK, PlacedInv, podVars
<1> QED
  BY <1>1, <1>2, <1>3, <1>4, <1>5, <1>6, <1>7, <1>8, <1>9, <1>10, <1>11,
     <1>12, <1>13, <1>14, <1>15, <1>16 DEF Next, Scheduler, Cluster

-----------------------------------------------------------------------------
(***************************************************************************)
(* The inductive invariant: what is booked.                                *)
(***************************************************************************)

Waiting == {"released", "running"}

\* Pods that were not booked before stay where they are not, and nodes that had
\* room for what was booked have room for what still is.
LEMMA NoneBooked ==
  ASSUME PlacementInv, BookedInv, NodesAreNotOverbooked, specs' = specs,
         left'.unseen = MaxUnseen =>
           /\ left.unseen = MaxUnseen
           /\ \A p \in Pod : phase'[p] \in Waiting =>
                            phase[p] \in Waiting /\ pin'[p] = pin[p]
  PROVE  /\ NodesAreNotOverbooked'
         /\ left'.unseen = MaxUnseen =>
              /\ \A p \in Pod : phase'[p] \in Waiting => pin'[p] \in Node
              /\ \A n \in Node : Taken(Booked(n)') <= Taken(Booked(n))
<1> SUFFICES ASSUME left'.unseen = MaxUnseen
             PROVE  /\ \A p \in Pod : phase'[p] \in Waiting => pin'[p] \in Node
                    /\ \A n \in Node : /\ Taken(Booked(n)') <= Taken(Booked(n))
                                       /\ Taken(Booked(n)') <= Capacity[n]
  BY DEF NodesAreNotOverbooked, Taken
<1>1. \A p \in Pod : phase'[p] \in Waiting => pin'[p] \in Node
  BY DEF BookedInv, Waiting
<1>2. ASSUME NEW n \in Node
      PROVE  Taken(Booked(n)') <= Taken(Booked(n)) /\ Taken(Booked(n)') <= Capacity[n]
  <2>1. Booked(n) \in SUBSET Pod /\ Booked(n)' \in SUBSET Booked(n)
    BY DEF Booked, Tolerates, Waiting
  <2>2. Taken(Booked(n)') <= Taken(Booked(n))
    BY <2>1, TakenAddsUp
  <2>3. Taken(Booked(n)') \in Nat /\ Taken(Booked(n)) \in Nat /\ Capacity[n] \in Nat
    BY <2>1, TakenAddsUp, SchedulerAssumption
  <2>4. Taken(Booked(n)) <= Capacity[n]
    BY DEF NodesAreNotOverbooked
  <2> QED  BY <2>2, <2>3, <2>4
<1> QED  BY <1>1, <1>2

BookingInv == BookedInv /\ NodesAreNotOverbooked

\* At first nothing is booked.
LEMMA InitBooking == Init => BookingInv
<1> SUFFICES ASSUME Init PROVE BookingInv
  OBVIOUS
<1>1. \A n \in Node : Booked(n) = {}
  BY DEF Init, Booked
<1>2. Taken({}) = 0
  BY FS_EmptySet, SumTakesOut DEF Taken
<1>3. ASSUME NEW n \in Node PROVE Taken(Booked(n)) <= Capacity[n]
  <2>1. Taken(Booked(n)) = 0
    BY <1>1, <1>2
  <2>2. Capacity[n] \in Nat
    BY SchedulerAssumption
  <2> QED  BY <2>1, <2>2
<1>4. \A p \in Pod : phase[p] = "absent"
  BY DEF Init
<1>5. pc = "pause"
  BY DEF Init
<1> QED  BY <1>3, <1>4, <1>5 DEF BookingInv, BookedInv, NodesAreNotOverbooked

\* A round that is over leaves nothing but what is booked.
LEMMA RoundEndsKeepsBooking ==
  ASSUME PlacementInv, BookingInv, RoundEnds, UNCHANGED podVars,
         left'.unseen = left.unseen
  PROVE  BookingInv'
<1>1. /\ NodesAreNotOverbooked'
      /\ left'.unseen = MaxUnseen =>
           \A p \in Pod : phase'[p] \in Waiting => pin'[p] \in Node
  BY NoneBooked DEF BookingInv, podVars
<1>2. left'.unseen = MaxUnseen =>
        \A p \in Pod : phase'[p] = "running" => Tolerates(p, pin[p])'
  BY DEF BookingInv, BookedInv, Tolerates, podVars
<1>3. pc' = "pause"
  BY DEF RoundEnds
<1> QED  BY <1>1, <1>2, <1>3 DEF BookingInv, BookedInv, Waiting

\* Steps of the scheduler after which what is taken stands for what is booked if
\* it did before.
LEMMA LookingKeepsBooking ==
  ASSUME PlacementInv, BookingInv, UNCHANGED podVars, left'.unseen = left.unseen,
         \/ pc \in {"idle", "gates", "running"} /\ pc' \in {"idle", "gates", "running"}
         \/ /\ pc \in {"jobs", "replace"} /\ pc' \in {"jobs", "replace"}
            /\ UNCHANGED <<used, recently>>
  PROVE  BookingInv'
<1>1. /\ NodesAreNotOverbooked'
      /\ left'.unseen = MaxUnseen =>
           \A p \in Pod : phase'[p] \in Waiting => pin'[p] \in Node
  BY NoneBooked DEF BookingInv, podVars
<1>2. /\ \A p \in Pod : Tolerates(p, pin[p])' <=> Tolerates(p, pin[p])
      /\ \A n \in Node : Booked(n)' = Booked(n)
  BY DEF Tolerates, Booked, podVars
<1>3. ASSUME left'.unseen = MaxUnseen, pc' \in {"jobs", "replace"}
      PROVE  \A n \in Node \ recently' : Taken(Booked(n)') <= used'[n]
  BY <1>2, <1>3 DEF BookingInv, BookedInv
<1>4. ASSUME left'.unseen = MaxUnseen
      PROVE  /\ \A p \in Pod : phase'[p] = "running" => Tolerates(p, pin[p])'
             /\ pc' \in {"idle", "gates", "running"} =>
                  \A p \in Pod : phase'[p] = "released" => ~Tolerates(p, pin[p])'
  BY <1>2, <1>4 DEF BookingInv, BookedInv, podVars
<1> QED  BY <1>1, <1>3, <1>4 DEF BookingInv, BookedInv, Waiting, Taken

\* When a pause ends no booked pod waits: there is room for it, as all that is
\* booked on a node fits on it.
LEMMA EndPauseKeepsBooking ==
  ASSUME PlacementInv, BookingInv, StartsInTime, EndPause
  PROVE  BookingInv'
<1>1. /\ UNCHANGED <<podVars, roundVars>> /\ left' = left /\ pc' \in {"idle", "gates"}
      /\ \A p \in Pod : phase[p] = "released" => \A n \in Node : ~HasRoom(p, n)
  BY DEF EndPause
<1>2. /\ NodesAreNotOverbooked'
      /\ left'.unseen = MaxUnseen =>
           \A p \in Pod : phase'[p] \in Waiting => pin'[p] \in Node
  BY <1>1, NoneBooked DEF BookingInv, podVars
<1>3. ASSUME left.unseen = MaxUnseen, NEW p \in Pod, phase[p] = "released"
      PROVE  ~Tolerates(p, pin[p])
  <2> SUFFICES ASSUME Tolerates(p, pin[p]) PROVE FALSE
    OBVIOUS
  <2> DEFINE n == pin[p]
  <2>1. n \in Node
    BY <1>3 DEF BookingInv, BookedInv
  <2>2. /\ RunningOn(n) \in SUBSET Pod /\ p \notin RunningOn(n)
        /\ Booked(n) \in SUBSET Pod /\ RunningOn(n) \cup {p} \in SUBSET Booked(n)
    BY <1>3 DEF RunningOn, Booked, BookingInv, BookedInv
  <2>3. Taken(RunningOn(n)) + Need[p] <= Taken(Booked(n))
    BY <2>2, TakenAddsUp
  <2>4. Taken(Booked(n)) <= Capacity[n]
    BY <1>3, <2>1 DEF BookingInv, NodesAreNotOverbooked
  <2>5. /\ Taken(RunningOn(n)) \in Nat /\ Taken(Booked(n)) \in Nat
        /\ Need[p] \in Nat /\ Capacity[n] \in Nat
    BY <2>1, <2>2, TakenAddsUp, SchedulerAssumption
  <2>6. Taken(RunningOn(n)) + Need[p] <= Capacity[n]
    BY <2>3, <2>4, <2>5
  <2>7. HasRoom(p, n)
    BY <2>6 DEF HasRoom
  <2> QED  BY <1>1, <1>3, <2>1, <2>7
<1>4. \A p \in Pod : /\ Tolerates(p, pin[p])' <=> Tolerates(p, pin[p])
                     /\ phase'[p] = phase[p]
  BY <1>1 DEF Tolerates, podVars
<1> QED  BY <1>1, <1>2, <1>3, <1>4 DEF BookingInv, BookedInv, Waiting

\* When running pods are listed, nothing else is booked.
LEMMA ListRunningPodsKeepsBooking ==
  ASSUME PlacementInv, BookingInv, ListRunningPods
  PROVE  BookingInv'
<1>1. /\ UNCHANGED podVars /\ left'.unseen = left.unseen
      /\ pc = "running" /\ pc' = "jobs"
      /\ used' = [n \in Node |-> Taken(RunningOn(n))]
  BY DEF ListRunningPods, Fail, PlacementInv, TypeOK
<1>2. /\ NodesAreNotOverbooked'
      /\ left'.unseen = MaxUnseen =>
           /\ \A p \in Pod : phase'[p] \in Waiting => pin'[p] \in Node
           /\ \A n \in Node : Taken(Booked(n)') <= Taken(Booked(n))
  BY <1>1, NoneBooked DEF BookingInv, podVars
<1>3. ASSUME left.unseen = MaxUnseen, NEW n \in Node
      PROVE  Taken(Booked(n)) <= used'[n]
  <2>1. RunningOn(n) \in SUBSET Pod /\ Booked(n) \in SUBSET RunningOn(n)
    BY <1>1, <1>3 DEF RunningOn, Booked, BookingInv, BookedInv
  <2> QED  BY <1>1, <2>1, TakenAddsUp
<1>4. \A n \in Node : Booked(n)' = Booked(n)
  BY <1>1 DEF Booked, Tolerates, podVars
<1>5. left'.unseen = MaxUnseen =>
        \A p \in Pod : phase'[p] = "running" => Tolerates(p, pin[p])'
  BY <1>1 DEF BookingInv, BookedInv, Tolerates, podVars
<1> QED  BY <1>1, <1>2, <1>3, <1>4, <1>5 DEF BookingInv, BookedInv, Waiting, Taken

\* The pod that is pinned has room on its node, besides all that is booked there.
LEMMA SchedulePodKeepsBooking ==
  ASSUME PlacementInv, BookingInv, NEW p \in todo, SchedulePod(p)
  PROVE  BookingInv'
<1>0. PICK n \in Node \ recently : n = plan[p] /\ CanSchedule(p, n)
  BY DEF PlacementInv, PlanInv
<1>1. p \in Pod /\ phase[p] = "gated" /\ pc = "replace"
  BY DEF SchedulePod, PodReplaced, PlacementInv, TypeOK
<1>2. /\ phase' = [phase EXCEPT ![p] = "released"]
      /\ pin' = [pin EXCEPT ![p] = n] /\ recently' = recently \cup {n}
      /\ used' = used /\ left' = left /\ specs' = specs /\ pc' \in {"jobs", "replace"}
  BY <1>0 DEF SchedulePod, PodReplaced
<1>3. /\ phase'[p] = "released" /\ pin'[p] = n
      /\ \A q \in Pod \ {p} : phase'[q] = phase[q] /\ pin'[q] = pin[q]
  BY <1>1, <1>2 DEF PlacementInv, TypeOK
<1> SUFFICES ASSUME left.unseen = MaxUnseen
             PROVE  /\ \A q \in Pod : phase'[q] \in Waiting => pin'[q] \in Node
                    /\ \A q \in Pod : phase'[q] = "running" => Tolerates(q, pin[q])'
                    /\ \A m \in Node : Taken(Booked(m)') <= Capacity[m]
                    /\ \A m \in Node \ recently' : Taken(Booked(m)') <= used'[m]
  BY <1>2 DEF BookingInv, BookedInv, NodesAreNotOverbooked, Waiting, Taken
<1>4. \A q \in Pod : phase'[q] \in Waiting => pin'[q] \in Node
  BY <1>3 DEF BookingInv, BookedInv, Waiting
<1>5. \A q \in Pod : phase'[q] = "running" => Tolerates(q, pin[q])'
  BY <1>2, <1>3 DEF BookingInv, BookedInv, Tolerates
<1>6. ASSUME NEW m \in Node, m # n
      PROVE  Booked(m)' = Booked(m)
  BY <1>1, <1>2, <1>3, <1>6 DEF Booked, Tolerates
<1>7. Taken(Booked(n)') <= Capacity[n]
  <2>0. /\ \A q \in Pod \ {p} : q \in Booked(n)' => q \in Booked(n)
        /\ \A q \in Booked(n)' : q \in Pod
    BY <1>2, <1>3 DEF Booked, Tolerates
  <2>1. /\ Booked(n) \in SUBSET Pod /\ p \in Pod \ Booked(n)
        /\ Booked(n) \cup {p} \in SUBSET Pod
    BY <1>1 DEF Booked
  <2>6. Booked(n)' \in SUBSET (Booked(n) \cup {p})
    BY <2>0
  <2>2. Taken(Booked(n)') <= Taken(Booked(n)) + Need[p]
    BY <2>1, <2>6, TakenAddsUp
  <2>3. Taken(Booked(n)) <= used[n]
    BY <1>1 DEF BookingInv, BookedInv
  <2>4. /\ Taken(Booked(n)) \in Nat /\ Need[p] \in Nat /\ used[n] \in Nat
        /\ Capacity[n] \in Nat /\ Taken(Booked(n)') \in Nat
    BY <1>1, <2>0, <2>1, TakenAddsUp, SchedulerAssumption DEF PlacementInv, TypeOK
  <2>5. Need[p] <= Capacity[n] - used[n]
    BY <1>0 DEF CanSchedule
  <2> QED  BY <2>2, <2>3, <2>4, <2>5
<1>8. ASSUME NEW m \in Node PROVE Taken(Booked(m)') <= Capacity[m]
  <2>1. CASE m = n
    BY <1>7, <2>1
  <2>2. CASE m # n
    <3>1. Booked(m)' = Booked(m)
      BY <1>6, <2>2
    <3>2. Taken(Booked(m)) <= Capacity[m]
      BY DEF BookingInv, NodesAreNotOverbooked
    <3> QED  BY <3>1, <3>2
  <2> QED  BY <2>1, <2>2
<1>9. \A m \in Node \ recently' : Taken(Booked(m)') <= used'[m]
  BY <1>1, <1>2, <1>6 DEF BookingInv, BookedInv
<1> QED  BY <1>4, <1>5, <1>8, <1>9

\* Steps of the cluster book nothing: pods come, start where they are pinned, and
\* go.
LEMMA ClusterKeepsBooking ==
  ASSUME PlacementInv, BookingInv, UNCHANGED <<specs, pc, used, recently>>,
         left'.unseen = MaxUnseen =>
           /\ left.unseen = MaxUnseen
           /\ \A p \in Pod :
                /\ phase'[p] \in Waiting => phase[p] \in Waiting /\ pin'[p] = pin[p]
                /\ phase'[p] = "released" => phase[p] = "released"
                /\ phase'[p] = "running" => Tolerates(p, pin[p])
  PROVE  BookingInv'
<1>1. /\ NodesAreNotOverbooked'
      /\ left'.unseen = MaxUnseen =>
           /\ \A p \in Pod : phase'[p] \in Waiting => pin'[p] \in Node
           /\ \A n \in Node : Taken(Booked(n)') <= Taken(Booked(n))
  BY NoneBooked DEF BookingInv
<1> SUFFICES ASSUME left'.unseen = MaxUnseen PROVE BookedInv'
  BY <1>1 DEF BookingInv, BookedInv
<1>2. \A p \in Pod : phase'[p] \in Waiting =>
                      (Tolerates(p, pin[p])' <=> Tolerates(p, pin[p]))
  BY DEF Tolerates
<1>3. \A p \in Pod : phase'[p] = "running" => Tolerates(p, pin[p])'
  BY <1>2 DEF Waiting
<1>4. pc' \in {"idle", "gates", "running"} =>
        \A p \in Pod : phase'[p] = "released" => ~Tolerates(p, pin[p])'
  BY <1>2 DEF Waiting, BookingInv, BookedInv
<1>5. ASSUME pc' \in {"jobs", "replace"}, NEW n \in Node \ recently'
      PROVE  Taken(Booked(n)') <= used'[n]
  <2>1. Taken(Booked(n)) <= used[n] /\ used' = used /\ used[n] \in Nat
    BY <1>5 DEF BookingInv, BookedInv, PlacementInv, TypeOK
  <2>2. Taken(Booked(n)) \in Nat /\ Taken(Booked(n)') \in Nat
    <3>1. Booked(n) \in SUBSET Pod /\ Booked(n)' \in SUBSET Pod
      BY DEF Booked
    <3> QED  BY <3>1, TakenAddsUp
  <2> QED  BY <1>1, <2>1, <2>2
<1> QED  BY <1>1, <1>3, <1>4, <1>5 DEF BookedInv, Waiting, Taken

\* Every step keeps the bookings.
LEMMA NextBooking ==
  ASSUME PlacementInv, BookingInv, StartsInTime, [Next]_vars
  PROVE  BookingInv'
<1>1. CASE EndPause
  BY <1>1, EndPauseKeepsBooking
<1>2. CASE FindPodGates \/ ListGatedPods \/ SkipJob \/ PlanJob
  BY <1>2, LookingKeepsBooking
     DEF FindPodGates, ListGatedPods, SkipJob, PlanJob, NextJob, podVars, roundVars
<1>3. CASE ListRunningPods
  BY <1>3, ListRunningPodsKeepsBooking
<1>4. CASE EndGate \/ ListGatedPodsRaises \/ Crash
  <2>1. left'.unseen = left.unseen
    BY <1>4 DEF EndGate, ListGatedPodsRaises, Crash, Fail, PlacementInv, TypeOK
  <2> QED
    BY <1>4, <2>1, RoundEndsKeepsBooking DEF EndGate, ListGatedPodsRaises, Crash
<1>5. ASSUME NEW p \in todo, Schedule(p) PROVE BookingInv'
  <2>1. CASE SchedulePod(p)
    BY <2>1, SchedulePodKeepsBooking
  <2>2. CASE SchedulePodAnswerLost(p)
    <3>1. left'.unseen # MaxUnseen
      BY <2>2, SchedulerAssumption
         DEF SchedulePodAnswerLost, PlacementInv, PlacedInv, TypeOK
    <3> QED  BY <3>1 DEF BookingInv, BookedInv, NodesAreNotOverbooked
  <2>3. CASE SchedulePodFails(p) \/ SchedulePodRaises(p)
    <3>1. left'.unseen = left.unseen
      BY <2>3 DEF SchedulePodFails, SchedulePodRaises, PlacementInv, TypeOK
    <3> QED
      BY <2>3, <3>1, LookingKeepsBooking DEF SchedulePodFails, SchedulePodRaises, Break
  <2> QED  BY <1>5, <2>1, <2>2, <2>3 DEF Schedule
<1>6. CASE JobCreated
  <2>1. /\ UNCHANGED <<specs, pc, used, recently>> /\ pin' = pin /\ left' = left
        /\ \E p \in Pod :
             phase' = [q \in Pod |-> IF q \in JobPods(p) /\ phase[q] = "absent"
                                     THEN "gated" ELSE phase[q]]
    BY <1>6 DEF JobCreated, roundVars
  <2>2. \A q \in Pod : phase'[q] \in Waiting => phase'[q] = phase[q]
    BY <2>1 DEF Waiting
  <2> QED
    BY <2>1, <2>2, ClusterKeepsBooking DEF BookingInv, BookedInv, Waiting
<1>7. ASSUME NEW p \in Pod, PodStarts(p) PROVE BookingInv'
  <2>1. PICK n \in Node : /\ pin[p] \in {n, NoNode} /\ pin' = [pin EXCEPT ![p] = n]
                          /\ Tolerates(p, n)
    BY <1>7 DEF PodStarts, HasRoom
  <2>2. /\ phase' = [phase EXCEPT ![p] = "running"] /\ phase[p] = "released"
        /\ UNCHANGED <<specs, pc, used, recently>> /\ left' = left
    BY <1>7 DEF PodStarts, roundVars
  <2>3. left.unseen = MaxUnseen => pin[p] = n /\ pin' = pin
    BY <2>1, <2>2, SchedulerAssumption DEF BookingInv, BookedInv, PlacementInv, TypeOK
  <2>4. \A q \in Pod : /\ phase'[q] = phase[q] \/ q = p
                       /\ phase'[p] = "running"
    BY <2>2 DEF PlacementInv, TypeOK
  <2> QED
    BY <2>1, <2>2, <2>3, <2>4, ClusterKeepsBooking DEF BookingInv, BookedInv, Waiting
<1>8. ASSUME NEW p \in Pod, PodFinishes(p) \/ PodDeleted(p) PROVE BookingInv'
  <2>1. /\ phase' = [phase EXCEPT ![p] = "gone"] /\ left'.unseen = left.unseen
        /\ UNCHANGED <<specs, pin, pc, used, recently>>
    BY <1>8 DEF PodFinishes, PodDeleted, Fail, roundVars, PlacementInv, TypeOK
  <2>2. \A q \in Pod : phase'[q] = phase[q] \/ phase'[q] = "gone"
    BY <2>1 DEF PlacementInv, TypeOK
  <2> QED
    BY <2>1, <2>2, ClusterKeepsBooking DEF BookingInv, BookedInv, Waiting
<1>9. ASSUME NEW p \in Pod, GateRemoved(p) PROVE BookingInv'
  <2>1. left'.unseen # MaxUnseen
    BY <1>9, SchedulerAssumption DEF GateRemoved, PlacementInv, PlacedInv, TypeOK
  <2> QED  BY <2>1 DEF BookingInv, BookedInv, NodesAreNotOverbooked
<1>10. CASE UNCHANGED vars
  BY <1>10, ClusterKeepsBooking
     DEF vars, podVars, roundVars, BookingInv, BookedInv, Waiting
<1> QED
  BY <1>1, <1>2, <1>3, <1>4, <1>5, <1>6, <1>7, <1>8, <1>9, <1>10
     DEF Next, Scheduler, Cluster

-----------------------------------------------------------------------------
(***************************************************************************)
(* The inductive invariant: jobs.                                          *)
(***************************************************************************)

\* Pods are of one job, or of two.
LEMMA JobPodsAreClasses ==
  /\ \A p \in Pod : p \in JobPods(p)
  /\ \A p \in Pod : \A q \in JobPods(p) : q \in Pod /\ JobPods(q) = JobPods(p)
<1>1. \A p \in Pod : p \in JobPods(p)
  BY DEF JobPods
<1>2. ASSUME NEW p \in Pod, NEW q \in JobPods(p)
      PROVE  q \in Pod /\ JobPods(q) = JobPods(p)
  BY DEF JobPods
<1> QED  BY <1>1, <1>2

\* The entry that counts is one of those that were made.
LEMMA LastEntryIsOne ==
  ASSUME NEW entries \in SUBSET (Extractor \X Pod), entries # {}
  PROVE  LastEntry(entries) \in entries
<1>1. entries \in SUBSET ((1 .. NumExtractors) \X (1 .. NumPods))
  BY DEF Extractor, Pod
<1>2. NumExtractors \in Nat /\ NumPods \in Nat
  BY SchedulerAssumption
<1>3. PICK x \in entries : \A y \in entries : y[1] < x[1] \/ (y[1] = x[1] /\ y[2] <= x[2])
  <2> DEFINE E == {x[1] : x \in entries}
  <2>1. E \in SUBSET (0 .. NumExtractors) /\ E # {}
    BY <1>1
  <2>2. PICK e \in E : \A f \in E : f <= e
    <3> HIDE DEF E
    <3> QED  BY <1>2, <2>1, GreatestNumber
  <2> DEFINE P == {x[2] : x \in {y \in entries : y[1] = e}}
  <2>3. P \in SUBSET (0 .. NumPods) /\ P # {}
    BY <1>1, <2>2
  <2>4. PICK p \in P : \A q \in P : q <= p
    <3> HIDE DEF P
    <3> QED  BY <1>2, <2>3, GreatestNumber
  <2>5. PICK x \in entries : x[1] = e /\ x[2] = p
    BY <2>4
  <2>6. \A y \in entries : y[1] \in E /\ y[1] \in Nat /\ (y[1] = e => y[2] \in P)
    BY <1>1
  <2>7. e \in Nat
    BY <2>1, <2>2
  <2> HIDE DEF E, P
  <2>8. \A y \in entries : y[1] < e \/ y[1] = e
    BY <2>2, <2>6, <2>7
  <2> QED  BY <2>4, <2>5, <2>6, <2>8
<1> QED  BY <1>3, Zenon DEF LastEntry

\* The jobs that are found in the list of gated pods are the jobs of those pods.
LEMMA JobsAreFound ==
  ASSUME NamesAgree, ListedTogether, NEW g, NEW job \in Jobs(WithGate(g)), NEW p \in job
  PROVE  job = JobPods(p) \cap Gated
<1> DEFINE listed == WithGate(g)
<1>1. /\ listed \in SUBSET Pod
      /\ \A q \in Pod : q \in listed <=> q \in Gated /\ GateOf[q] = g
  BY DEF WithGate, Gated
<1>2. \A q \in listed : JobPods(q) \cap Gated = JobPods(q) \cap listed
  BY <1>1 DEF JobPods
<1> HIDE DEF listed
<1>3. CASE job \in NamedJobs(listed)
  <2>1. PICK name, x : /\ name # Unknown
                       /\ x \in Entries(listed, name)
                       /\ job = Neighbours(listed, x[1], x[2])
    <3>1. PICK name : /\ name # Unknown /\ Entries(listed, name) # {}
                      /\ job = Neighbours(listed, LastEntry(Entries(listed, name))[1],
                                                  LastEntry(Entries(listed, name))[2])
      BY <1>3 DEF NamedJobs
    <3>2. Entries(listed, name) \in SUBSET (Extractor \X Pod)
      BY <1>1 DEF Entries
    <3> QED  BY <3>1, <3>2, LastEntryIsOne
  <2>2. PICK e \in Extractor, q \in listed : x = <<e, q>>
    BY <2>1 DEF Entries
  <2>3. q \in Pod /\ Name[e][q] # Unknown /\ job = Neighbours(listed, e, q)
    BY <1>1, <2>1, <2>2 DEF Entries
  <2>4. ASSUME NEW r \in job PROVE r \in JobPods(q) \cap listed
    <3>1. r \in listed /\ r \in Pod /\ Name[e][r] = Name[e][q]
      <4>1. r \in listed /\ r \in Pod
        BY <1>1, <2>3, <2>4 DEF Neighbours
      <4>2. (q <= r /\ r <= r) \/ (r <= r /\ r <= q)
        BY <2>3, <4>1 DEF Pod
      <4> QED  BY <2>3, <2>4, <4>1, <4>2 DEF Neighbours
    <3> QED  BY <1>1, <2>2, <2>3, <3>1 DEF NamesAgree
  <2>5. ASSUME NEW r \in JobPods(q) \cap listed PROVE r \in job
    <3>1. /\ r \in Pod /\ q \in JobPods(r) /\ JobPods(r) = JobPods(q)
          /\ Name[e][r] = Name[e][q]
      BY <2>2, <2>3, <2>5, JobPodsAreClasses DEF JobPods
    <3>2. ASSUME NEW s \in listed, (q <= s /\ s <= r) \/ (r <= s /\ s <= q)
          PROVE  Name[e][s] = Name[e][q]
      <4>1. s \in JobPods(q)
        BY <1>1, <2>2, <2>3, <2>5, <3>1, <3>2 DEF ListedTogether
      <4> QED  BY <2>2, <4>1 DEF JobPods
    <3> QED  BY <2>3, <2>5, <3>2 DEF Neighbours
  <2>6. job = JobPods(q) \cap listed
    BY <2>4, <2>5
  <2>7. JobPods(p) = JobPods(q) /\ p \in listed
    BY <2>3, <2>4, JobPodsAreClasses
  <2> QED  BY <1>2, <2>6, <2>7
<1>4. CASE job = Jobless(listed, NumExtractors)
  <2>1. \A q \in listed : q \in job <=> \A e \in Extractor : Name[e][q] = Unknown
    BY <1>4, SchedulerAssumption DEF Jobless, Extractor
  <2>2. job \subseteq listed
    BY <1>4 DEF Jobless
  <2>3. \A q \in listed : q \in JobPods(p) <=> q \in job
    BY <1>1, <2>1, <2>2 DEF JobPods
  <2> QED  BY <1>2, <2>2, <2>3
<1> QED  BY <1>3, <1>4 DEF Jobs, listed

\* At first there are no jobs.
LEMMA InitJobs == Init => JobInv
<1> SUFFICES ASSUME Init PROVE JobInv
  OBVIOUS
<1>1. \A p \in Pod : phase[p] = "absent"
  BY DEF Init
<1>2. jobs = {} /\ todo = {} /\ left.failures = MaxFailures
  BY DEF Init, NoRound
<1>3. MaxFailures <= MaxFailures
  BY SchedulerAssumption
<1> QED  BY <1>1, <1>2, <1>3, JobPodsAreClasses DEF JobInv

\* Steps after which the same pods are gated, and the same job is being replaced.
LEMMA SameGatesKeepJobs ==
  ASSUME TypeOK, JobInv, todo' = todo, jobs' \subseteq jobs,
         left'.failures <= MaxFailures, NothingFailed' => NothingFailed,
         \A p \in Pod : /\ phase'[p] = "absent" <=> phase[p] = "absent"
                        /\ NothingFailed' => (phase'[p] = "gated" <=> phase[p] = "gated")
  PROVE  JobInv'
<1>1. /\ \A p \in Pod : JobPods(p) \subseteq Pod
      /\ todo \subseteq Pod /\ jobs \subseteq SUBSET Pod
  BY DEF JobPods, TypeOK
<1>2. \A p \in Pod : \A q \in JobPods(p) : phase'[p] = "absent" <=> phase'[q] = "absent"
  BY <1>1 DEF JobInv
<1>3. ASSUME NothingFailed'
      PROVE  /\ \A job \in jobs' \cup {todo'} : \A p \in job : job = JobPods(p) \cap Gated'
             /\ \A job \in jobs' : job \cap todo' = {}
             /\ \A p \in Pod : \A q \in JobPods(p) :
                  phase'[p] = "gated" /\ phase'[q] # "gated" => p \in todo'
  <2>1. \A job \in jobs' \cup {todo'} : job \in jobs \cup {todo}
    OBVIOUS
  <2>2. Gated' = Gated
    BY <1>3 DEF Gated
  <2> QED  BY <1>1, <1>3, <2>1, <2>2 DEF JobInv
<1> QED  BY <1>2, <1>3 DEF JobInv, JobPods

\* Steps that leave no job to replace, while none is being replaced in part.
LEMMA NoJobsLeftKeepsJobs ==
  ASSUME TypeOK, JobInv, UNCHANGED podVars, jobs' = {}, todo' = {},
         left'.failures <= MaxFailures,
         NothingFailed' => NothingFailed /\ todo = {}
  PROVE  JobInv'
<1>1. Gated' = Gated /\ phase' = phase
  BY DEF Gated, podVars
<1>2. \A p \in Pod : JobPods(p) \subseteq Pod
  BY DEF JobPods
<1> QED  BY <1>1, <1>2 DEF JobInv, JobPods

\* The jobs of a gate are made of the pods that are gated now.
LEMMA ListGatedPodsKeepsJobs ==
  ASSUME PlacementInv, JobInv, NamesAgree, ListedTogether, ListGatedPods
  PROVE  JobInv'
<1>1. PICK g \in gates : jobs' = Jobs(WithGate(g))
  BY DEF ListGatedPods
<1>2. todo' = {} /\ todo = {} /\ phase' = phase /\ left' = left
  BY DEF ListGatedPods, PlacementInv, PlanInv, podVars
<1>3. Gated' = Gated
  BY <1>2 DEF Gated
<1>4. \A job \in jobs' \cup {todo'} : \A p \in job : job = JobPods(p) \cap Gated'
  BY <1>1, <1>2, <1>3, JobsAreFound
<1>5. NothingFailed' => NothingFailed
  BY <1>2 DEF NothingFailed
<1>6. \A job \in jobs' : job \cap todo' = {}
  BY <1>2
<1> QED  BY <1>2, <1>4, <1>5, <1>6 DEF JobInv, JobPods

\* A job that is planned has no pod in common with those that are left.
LEMMA PlanJobKeepsJobs ==
  ASSUME PlacementInv, JobInv, PlanJob
  PROVE  JobInv'
<1>1. PICK job \in jobs : jobs' = jobs \ {job} /\ todo' = job
  BY DEF PlanJob, NextJob
<1>2. todo = {} /\ phase' = phase /\ left' = left
  BY DEF PlanJob, NextJob, PlacementInv, PlanInv, podVars
<1>3. Gated' = Gated /\ (NothingFailed' => NothingFailed)
  BY <1>2 DEF Gated, NothingFailed
<1>4. ASSUME NothingFailed
      PROVE  /\ \A j \in jobs' \cup {todo'} : \A p \in j : j = JobPods(p) \cap Gated'
             /\ \A j \in jobs' : j \cap todo' = {}
  <2>1. \A j \in jobs' \cup {todo'} : j \in jobs
    BY <1>1
  <2>2. \A j \in jobs : \A p \in j : j = JobPods(p) \cap Gated
    BY <1>4 DEF JobInv
  <2>3. ASSUME NEW j \in jobs', j \cap todo' # {} PROVE FALSE
    <3>1. PICK q \in j : q \in job
      BY <1>1, <2>3
    <3>2. j = JobPods(q) \cap Gated /\ job = JobPods(q) \cap Gated
      BY <1>1, <2>2, <3>1
    <3> QED  BY <1>1, <3>2
  <2> QED  BY <1>3, <2>1, <2>2, <2>3
<1>5. NothingFailed => \A p \in Pod : \A q \in JobPods(p) :
                         ~(phase'[p] = "gated" /\ phase'[q] # "gated")
  BY <1>2 DEF JobInv
<1> QED  BY <1>2, <1>3, <1>4, <1>5 DEF JobInv, JobPods

\* The pod that is replaced is the only one that loses its gate, and the rest of
\* its job is what is left.
LEMMA SchedulePodKeepsJobs ==
  ASSUME PlacementInv, JobInv, NEW p \in todo, SchedulePod(p)
  PROVE  JobInv'
<1>1. /\ p \in Pod /\ phase[p] = "gated"
      /\ phase' = [phase EXCEPT ![p] = "released"]
      /\ todo' = todo \ {p} /\ jobs' = jobs /\ left' = left
  BY DEF SchedulePod, PodReplaced, PlacementInv, TypeOK
<1>2. /\ phase'[p] = "released"
      /\ \A q \in Pod \ {p} : phase'[q] = phase[q]
      /\ todo \subseteq Pod /\ jobs \subseteq SUBSET Pod
  BY <1>1 DEF PlacementInv, TypeOK
<1>3. Gated' = Gated \ {p} /\ p \in Gated
  BY <1>1, <1>2 DEF Gated
<1>4. NothingFailed' => NothingFailed
  BY <1>1 DEF NothingFailed
<1>5. \A q \in Pod : \A r \in JobPods(q) : r \in Pod
  BY DEF JobPods
<1>6. \A q \in Pod : \A r \in JobPods(q) : phase'[q] = "absent" <=> phase'[r] = "absent"
  BY <1>1, <1>2, <1>5 DEF JobInv
<1>7. ASSUME NothingFailed
      PROVE  /\ \A job \in jobs' \cup {todo'} : \A q \in job : job = JobPods(q) \cap Gated'
             /\ \A job \in jobs' : job \cap todo' = {}
             /\ \A q \in Pod : \A r \in JobPods(q) :
                  phase'[q] = "gated" /\ phase'[r] # "gated" => q \in todo'
  <2>1. /\ \A job \in jobs \cup {todo} : \A q \in job : job = JobPods(q) \cap Gated
        /\ \A job \in jobs : job \cap todo = {}
    BY <1>7 DEF JobInv
  <2>2. \A job \in jobs : p \notin job
    BY <2>1
  <2>3. ASSUME NEW job \in jobs, NEW q \in job PROVE job = JobPods(q) \cap Gated'
    BY <1>3, <2>1, <2>2
  <2>4. ASSUME NEW q \in todo' PROVE todo' = JobPods(q) \cap Gated'
    <3>1. q \in todo
      BY <1>1
    <3>2. todo = JobPods(q) \cap Gated
      BY <2>1, <3>1
    <3> QED  BY <1>1, <1>3, <3>2
  <2>5. \A job \in jobs' : job \cap todo' = {}
    BY <1>1, <2>1
  <2>6. ASSUME NEW q \in Pod, NEW r \in JobPods(q),
               phase'[q] = "gated", phase'[r] # "gated"
        PROVE  q \in todo'
    <3>1. q # p /\ phase[q] = "gated"
      BY <1>2, <2>6
    <3>2. CASE r = p
      <4>1. q \in JobPods(p) /\ q \in Gated
        BY <2>6, <3>1, <3>2, JobPodsAreClasses DEF Gated
      <4>2. todo = JobPods(p) \cap Gated
        BY <2>1
      <4> QED  BY <1>1, <3>1, <4>1, <4>2
    <3>3. CASE r # p
      <4>1. phase[r] # "gated"
        BY <1>2, <1>5, <2>6, <3>3
      <4>2. q \in todo
        BY <1>7, <3>1, <4>1 DEF JobInv
      <4> QED  BY <1>1, <3>1, <4>2
    <3> QED  BY <3>2, <3>3
  <2> QED  BY <1>1, <2>3, <2>4, <2>5, <2>6
<1>8. left'.failures <= MaxFailures
  BY <1>1 DEF JobInv
<1> QED  BY <1>4, <1>6, <1>7, <1>8 DEF JobInv, JobPods

\* All pods of a job come at once, to no job that is being looked at.
LEMMA JobCreatedKeepsJobs ==
  ASSUME PlacementInv, JobInv, JobCreated
  PROVE  JobInv'
<1>1. PICK p \in Pod :
         /\ phase[p] = "absent"
         /\ phase' = [q \in Pod |-> IF q \in JobPods(p) /\ phase[q] = "absent"
                                    THEN "gated" ELSE phase[q]]
  BY DEF JobCreated
<1>2. jobs' = jobs /\ todo' = todo /\ left' = left
  BY DEF JobCreated, roundVars
<1>3. \A q \in JobPods(p) : q \in Pod /\ phase[q] = "absent"
  BY <1>1 DEF JobInv, JobPods
<1>4. /\ \A q \in JobPods(p) : phase'[q] = "gated"
      /\ \A q \in Pod \ JobPods(p) : phase'[q] = phase[q]
  BY <1>1, <1>3
<1>5. Gated' = Gated \cup JobPods(p)
  BY <1>3, <1>4 DEF Gated
<1>6. ASSUME NEW q \in Pod, NEW r \in JobPods(q)
      PROVE  r \in Pod /\ (q \in JobPods(p) <=> r \in JobPods(p))
  BY JobPodsAreClasses
<1>7. \A q \in Pod : \A r \in JobPods(q) : phase'[q] = "absent" <=> phase'[r] = "absent"
  BY <1>4, <1>6 DEF JobInv
<1>8. ASSUME NothingFailed
      PROVE  /\ \A job \in jobs \cup {todo} : \A q \in job : job = JobPods(q) \cap Gated'
             /\ \A q \in Pod : \A r \in JobPods(q) :
                  phase'[q] = "gated" /\ phase'[r] # "gated" => q \in todo
  <2>1. ASSUME NEW job \in jobs \cup {todo}, NEW q \in job
        PROVE  job = JobPods(q) \cap Gated'
    <3>1. job = JobPods(q) \cap Gated
      BY <1>8, <2>1 DEF JobInv
    <3>2. q \in Pod /\ phase[q] = "gated"
      BY <3>1 DEF Gated
    <3>3. q \notin JobPods(p)
      BY <1>3, <3>2
    <3>4. JobPods(q) \cap JobPods(p) = {}
      BY <1>6, <3>2, <3>3
    <3> QED  BY <1>5, <3>1, <3>4
  <2>2. ASSUME NEW q \in Pod, NEW r \in JobPods(q),
               phase'[q] = "gated", phase'[r] # "gated"
        PROVE  q \in todo
    <3>1. r \in Pod /\ r \notin JobPods(p) /\ q \notin JobPods(p)
      BY <1>4, <1>6, <2>2
    <3>2. phase[q] = "gated" /\ phase[r] # "gated"
      BY <1>4, <2>2, <3>1
    <3> QED  BY <1>8, <3>2 DEF JobInv
  <2> QED  BY <2>1, <2>2
<1>9. (NothingFailed' => NothingFailed) /\ left'.failures <= MaxFailures
  BY <1>2 DEF NothingFailed, JobInv
<1>10. NothingFailed => \A job \in jobs : job \cap todo = {}
  BY DEF JobInv
<1> QED  BY <1>2, <1>7, <1>8, <1>9, <1>10 DEF JobInv, JobPods

\* Every step keeps jobs whole.
LEMMA NextJobs ==
  ASSUME PlacementInv, JobInv, NamesAgree, ListedTogether, [Next]_vars
  PROVE  JobInv'
<1>1. MaxFailures \in Nat /\ MaxUnseen \in Nat /\ TypeOK
  BY SchedulerAssumption DEF PlacementInv
<1>2. left = left' => left'.failures <= MaxFailures /\ (NothingFailed' => NothingFailed)
  BY DEF JobInv, NothingFailed
<1>3. Fail => left'.failures <= MaxFailures /\ ~NothingFailed'
  BY <1>1 DEF Fail, JobInv, NothingFailed, TypeOK
<1>4. left.unseen > 0 /\ left' = [left EXCEPT !.unseen = @ - 1] =>
        left'.failures <= MaxFailures /\ ~NothingFailed'
  BY <1>1 DEF JobInv, NothingFailed, TypeOK, PlacementInv, PlacedInv
<1>5. CASE EndPause \/ FindPodGates \/ SkipJob
  BY <1>1, <1>2, <1>5, SameGatesKeepJobs
     DEF EndPause, FindPodGates, SkipJob, NextJob, podVars, roundVars
<1>6. CASE ListGatedPods
  BY <1>6, ListGatedPodsKeepsJobs
<1>7. CASE ListRunningPods
  <2>1. left'.failures <= MaxFailures /\ (NothingFailed' => NothingFailed)
    BY <1>2, <1>3, <1>7 DEF ListRunningPods
  <2> QED  BY <1>1, <1>7, <2>1, SameGatesKeepJobs DEF ListRunningPods, podVars
<1>8. CASE PlanJob
  BY <1>8, PlanJobKeepsJobs
<1>9. CASE EndGate \/ ListGatedPodsRaises
  <2>1. todo = {} /\ left' = left /\ UNCHANGED podVars /\ jobs' = {} /\ todo' = {}
    BY <1>9 DEF EndGate, ListGatedPodsRaises, RoundEnds, PlacementInv, PlanInv
  <2> QED  BY <1>1, <1>2, <2>1, NoJobsLeftKeepsJobs
<1>10. CASE Crash
  BY <1>1, <1>3, <1>10, NoJobsLeftKeepsJobs DEF Crash, RoundEnds
<1>11. ASSUME NEW p \in todo, Schedule(p) PROVE JobInv'
  <2>1. CASE SchedulePod(p)
    BY <2>1, SchedulePodKeepsJobs
  <2>2. CASE SchedulePodAnswerLost(p)
    <3>1. left'.failures <= MaxFailures /\ ~NothingFailed'
      BY <1>4, <2>2 DEF SchedulePodAnswerLost
    <3>2. p \in Pod /\ phase' = [phase EXCEPT ![p] = "released"] /\ phase[p] = "gated"
      BY <2>2 DEF SchedulePodAnswerLost, PodReplaced, PlacementInv, TypeOK
    <3>3. \A q \in Pod : phase'[q] = "absent" <=> phase[q] = "absent"
      BY <1>1, <3>2 DEF TypeOK
    <3> QED  BY <3>1, <3>3 DEF JobInv, JobPods
  <2>3. CASE SchedulePodFails(p)
    <3>1. NothingFailed => phase[p] = "gated"
      BY DEF JobInv, Gated
    <3>2. left'.failures <= MaxFailures /\ ~NothingFailed'
      BY <1>1, <2>3, <3>1 DEF SchedulePodFails, JobInv, NothingFailed, TypeOK
    <3>3. phase' = phase
      BY <2>3 DEF SchedulePodFails, podVars
    <3> QED  BY <3>2, <3>3 DEF JobInv, JobPods
  <2>4. CASE SchedulePodRaises(p)
    <3>1. ~NothingFailed /\ left' = left /\ phase' = phase
      BY <2>4 DEF SchedulePodRaises, JobInv, Gated, podVars
    <3> QED  BY <1>2, <3>1 DEF JobInv, JobPods
  <2> QED  BY <1>11, <2>1, <2>2, <2>3, <2>4 DEF Schedule
<1>12. CASE JobCreated
  BY <1>12, JobCreatedKeepsJobs
<1>13. ASSUME NEW p \in Pod, PodStarts(p) \/ PodFinishes(p) PROVE JobInv'
  <2>1. /\ phase[p] \in {"released", "running"}
        /\ phase' = [phase EXCEPT ![p] = "running"] \/ phase' = [phase EXCEPT ![p] = "gone"]
        /\ left' = left /\ todo' = todo /\ jobs' = jobs
    BY <1>13 DEF PodStarts, PodFinishes, roundVars
  <2>2. \A q \in Pod : /\ phase'[q] = "absent" <=> phase[q] = "absent"
                       /\ phase'[q] = "gated" <=> phase[q] = "gated"
    BY <1>1, <2>1 DEF TypeOK
  <2> QED  BY <1>1, <1>2, <2>1, <2>2, SameGatesKeepJobs
<1>14. ASSUME NEW p \in Pod, PodDeleted(p) \/ GateRemoved(p) PROVE JobInv'
  <2>1. left'.failures <= MaxFailures /\ ~NothingFailed'
    BY <1>3, <1>4, <1>14 DEF PodDeleted, GateRemoved
  <2>2. /\ phase[p] \in {"gated", "released"} /\ todo' = todo /\ jobs' = jobs
        /\ phase' = [phase EXCEPT ![p] = "gone"] \/ phase' = [phase EXCEPT ![p] = "released"]
    BY <1>14 DEF PodDeleted, GateRemoved, roundVars
  <2>3. \A q \in Pod : phase'[q] = "absent" <=> phase[q] = "absent"
    BY <1>1, <2>2 DEF TypeOK
  <2> QED  BY <1>1, <2>1, <2>2, <2>3, SameGatesKeepJobs
<1>15. CASE UNCHANGED vars
  BY <1>1, <1>2, <1>15, SameGatesKeepJobs DEF vars, podVars, roundVars
<1> QED
  BY <1>5, <1>6, <1>7, <1>8, <1>9, <1>10, <1>11, <1>12, <1>13, <1>14, <1>15
     DEF Next, Scheduler, Cluster

-----------------------------------------------------------------------------
(***************************************************************************)
(* The theorems.                                                           *)
(***************************************************************************)

\* Typing, distinct nodes for the pods of the job that is being replaced, and
\* what pods that were placed have in common with the scheduler's list of
\* nodes: in every state, whatever calls fail and whenever it restarts.
THEOREM PlacementInvariance == Spec => []PlacementInv
<1> QED  BY InitPlacement, NextPlacement, PTL DEF Spec

\* recently_scheduled_nodes_names keeps the jobs of a gate apart: no node is
\* given out twice for one gate while the scheduler hears the answers.
THEOREM NodesAreGivenOutOnce == Spec => []OneNodePerPod
<1>1. PlacementInv => OneNodePerPod
  BY DEF PlacementInv
<1> QED  BY PlacementInvariance, <1>1, PTL

\* All of the inductive invariant, with what it supposes of the pause and of how
\* jobs are named and listed.
THEOREM SchedulerInvariance == Spec => []IInv
<1>1. ASSUME Init PROVE IInv
  BY <1>1, InitPlacement, InitBooking, InitJobs DEF IInv, BookingInv
<1>2. ASSUME IInv, [Next]_vars PROVE IInv'
  <2>1. PlacementInv'
    BY <1>2, NextPlacement DEF IInv
  <2>2. ASSUME StartsInTime PROVE (BookedInv /\ NodesAreNotOverbooked)'
    BY <1>2, <2>2, NextBooking DEF IInv, BookingInv
  <2>3. ASSUME NamesAgree, ListedTogether PROVE JobInv'
    BY <1>2, <2>3, NextJobs DEF IInv
  <2>4. (NamesAgree <=> NamesAgree') /\ (ListedTogether <=> ListedTogether')
    BY DEF NamesAgree, ListedTogether, JobPods
  <2> QED  BY <2>1, <2>2, <2>3, <2>4 DEF IInv
<1> QED  BY <1>1, <1>2, PTL DEF Spec

\* The pause of the loop is what running pods are listed after: if the pods that
\* were pinned are running when it ends, the requests of all pods pinned to a
\* node never exceed it, over any number of jobs, gates, failures and restarts.
THEOREM NodesHaveRoom ==
  ASSUME StartsInTime
  PROVE  Spec => []NodesAreNotOverbooked
<1>1. IInv => NodesAreNotOverbooked
  BY DEF IInv
<1> QED  BY SchedulerInvariance, <1>1, PTL

\* schedule_pod_with_gate takes jobs whole: where extractors tell jobs apart
\* and the pods of a job are listed together, the scheduler never turns away
\* from a job of which it has replaced some pods and not others, unless a call
\* failed.
THEOREM JobsAreReleasedTogether ==
  ASSUME NamesAgree, ListedTogether
  PROVE  Spec => []JobsAreAllOrNothing
<1>1. IInv => JobsAreAllOrNothing
  <2> SUFFICES ASSUME IInv, pc # "replace", NothingFailed,
                      NEW p \in Pod, NEW q \in JobPods(p)
               PROVE  phase[p] = "gated" <=> phase[q] = "gated"
    BY DEF JobsAreAllOrNothing
  <2>1. todo = {} /\ JobInv
    BY DEF IInv, PlacementInv, PlanInv
  <2>2. q \in Pod /\ p \in JobPods(q)
    BY JobPodsAreClasses
  <2> QED  BY <2>1, <2>2 DEF JobInv
<1> QED  BY SchedulerInvariance, <1>1, PTL
=============================================================================

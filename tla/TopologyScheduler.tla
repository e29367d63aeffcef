-------------------------- MODULE TopologyScheduler --------------------------
(***************************************************************************)
(* The loop of the topology scheduler: it looks for gated pods, takes one  *)
(* gate after the other, groups the pods of a gate into jobs, finds nodes  *)
(* for each job and then replaces its pods one by one, each pinned to its  *)
(* node and without the gate.  Around it pods are created, started and     *)
(* finished, calls fail, and the container is restarted.                   *)
(*                                                                         *)
(* The search for nodes is PodAssignment: an assignment is usable, and one *)
(* is found for identical pods whenever there is one, on nodes that all    *)
(* have topology labels, or none of which has.  Pods are numbered as the   *)
(* API server lists them.  One resource stands for CPU, memory and GPUs;   *)
(* selectors, which can_schedule compares as well, are left out.           *)
(***************************************************************************)
EXTENDS Integers, FiniteSets, FiniteSetsExt

CONSTANTS
  NumPods,
  Node,
  NoNode,
  Gate,
  GateOf,          \* GateOf[p]: the scheduling gate of a pod
  NumExtractors,   \* ways to find the name of the job of a pod
  Name,            \* Name[e][p]: what extractor e finds
  Unknown,         \* UNKNOWN_JOB_NAME
  Created,         \* Created[p]: creation_timestamp
  Need,            \* Need[p]: what the pod requests
  Capacity,        \* Capacity[n]: what a node has
  Taint,
  Taints,          \* Taints[n]: the taints of a node
  Specs,           \* what labels and tolerations the pods may have
  StartsInTime,    \* pods that have room are running when a pause ends
  MaxFailures,     \* bound: failing calls, deleted pods, dead schedulers
  MaxUnseen        \* bound: lost answers, and gates removed by others

Pod       == 1 .. NumPods
Extractor == 1 .. NumExtractors

ASSUME SchedulerAssumption ==
  /\ NumPods \in Nat /\ NumExtractors \in Nat
  /\ NoNode \notin Node
  /\ GateOf \in [Pod -> Gate]
  /\ Created \in [Pod -> Nat]
  /\ Need \in [Pod -> Nat]
  /\ Capacity \in [Node -> Nat]
  /\ Taints \in [Node -> SUBSET Taint]
  /\ Specs \subseteq [labelled : SUBSET Pod, tolerations : [Pod -> SUBSET Taint]]
  /\ StartsInTime \in BOOLEAN
  /\ MaxFailures \in Nat /\ MaxUnseen \in Nat

VARIABLES
  \* the pods, in the API server
  specs,        \* the pods with labels, and the tolerations of each pod
  phase,        \* "absent", "gated", "released", "running" or "gone"
  pin,          \* the node of the affinity, later of the pod
  \* the scheduler
  pc,           \* "pause", "idle", "gates", "running", "jobs" or "replace"
  gates,        \* gates of this turn of the loop that are left
  jobs,         \* jobs of this gate that are left, as sets of pods
  used,         \* resources of each node taken by Running pods
  nodes,        \* nodes that are left
  todo,         \* pods of this job that are left
  plan,         \* best_assignment, for the pods in todo
  recently,     \* recently_scheduled_nodes_names
  placed,       \* pods replaced for this gate, answered or not
  left          \* what is left of the bounds

podVars   == <<specs, phase, pin>>
roundVars == <<jobs, used, nodes, todo, plan, recently, placed>>
vars      == <<podVars, pc, gates, roundVars, left>>

Phase  == {"absent", "gated", "released", "running", "gone"}
NoPlan == [p \in Pod |-> NoNode]

TypeOK ==
  /\ specs \in Specs
  /\ phase \in [Pod -> Phase]
  /\ pin \in [Pod -> Node \cup {NoNode}]
  /\ pc \in {"pause", "idle", "gates", "running", "jobs", "replace"}
  /\ gates \in SUBSET Gate
  /\ jobs \in SUBSET SUBSET Pod
  /\ used \in [Node -> Nat]
  /\ nodes \in SUBSET Node
  /\ todo \in SUBSET Pod
  /\ plan \in [Pod -> Node \cup {NoNode}]
  /\ recently \in SUBSET Node
  /\ placed \in SUBSET Pod
  /\ left \in [failures : Nat, unseen : Nat]

NoRound ==
  /\ jobs = {} /\ nodes = {} /\ todo = {} /\ recently = {} /\ placed = {}
  /\ used = [n \in Node |-> 0]
  /\ plan = NoPlan

Init ==
  /\ specs \in Specs
  /\ phase = [p \in Pod |-> "absent"]
  /\ pin = NoPlan
  /\ pc = "pause"
  /\ gates = {}
  /\ NoRound
  /\ left = [failures |-> MaxFailures, unseen |-> MaxUnseen]

Fail == left.failures > 0 /\ left' = [left EXCEPT !.failures = @ - 1]

-----------------------------------------------------------------------------
(***************************************************************************)
(* Jobs.                                                                   *)
(***************************************************************************)

\* The pods of a job, which have a gate and all their names in common.
JobPods(p) ==
  {q \in Pod : GateOf[q] = GateOf[p] /\ \A e \in Extractor : Name[e][q] = Name[e][p]}

Gated == {p \in Pod : phase[p] = "gated"}

\* Pods that none of the first e extractors knows a job of.
Jobless(listed, e) ==
  {p \in listed : \A f \in Extractor : f <= e => Name[f][p] = Unknown}

\* itertools.groupby, on a list that is not sorted: neighbours.
Neighbours(listed, e, p) ==
  {q \in listed :
     \A r \in listed : (p <= r /\ r <= q) \/ (q <= r /\ r <= p) =>
                         Name[e][r] = Name[e][p]}

\* all_pods_have_same_tolerations; groups that fail it are ignored.
SameTolerations(group) ==
  \A p, q \in group : specs.tolerations[p] = specs.tolerations[q]

\* The groups that are entered under a name, by extractor and member.  A pod
\* of a group that is ignored does not count as jobless either.
Entries(listed, name) ==
  {x \in Extractor \X listed :
     LET group == Neighbours(listed, x[1], x[2])
     IN  /\ Name[x[1]][x[2]] = name
         /\ SameTolerations(group)
         /\ group \cap Jobless(listed, x[1] - 1) # {}}

\* A later entry replaces an earlier one of the same name.
LastEntry(entries) ==
  CHOOSE x \in entries :
    \A y \in entries : y[1] < x[1] \/ (y[1] = x[1] /\ y[2] <= x[2])

NamedJobs(listed) ==
  LET names   == {Name[e][p] : e \in Extractor, p \in listed} \ {Unknown}
      entered == {Entries(listed, name) : name \in names} \ {{}}
      last    == {LastEntry(entries) : entries \in entered}
  IN  {Neighbours(listed, x[1], x[2]) : x \in last}

\* (Mutated: pods without a job are left out.)
JobsWithName(listed) == NamedJobs(listed)

\* Pods without a job are scheduled together.
Jobs(listed) ==
  (NamedJobs(listed) \cup {Jobless(listed, NumExtractors)}) \ {{}}

First(job) == CHOOSE p \in job : \A q \in job : p <= q

CreationTime(job) == Created[First(job)]

-----------------------------------------------------------------------------
(***************************************************************************)
(* Nodes.                                                                  *)
(***************************************************************************)

Tolerates(p, n) == Taints[n] \subseteq specs.tolerations[p]

\* find_schedulable_nodes: the first pod of a job speaks for all of them, with
\* reason unless they are the pods without a job.
SchedulableNodes(job, free) == {n \in free : Tolerates(First(job), n)}

Taken(pods) == SumFunctionOnSet(Need, pods)

RunningOn(n) == {p \in Pod : phase[p] = "running" /\ pin[p] = n}

CanSchedule(p, n) == Need[p] <= Capacity[n] - used[n]

\* Assignments of a job to nodes of its own, as PodAssignment returns them.
Assignments(job, free) ==
  {a \in [Pod -> free \cup {NoNode}] :
     /\ \A p \in job : a[p] # NoNode /\ CanSchedule(p, a[p])
     /\ \A p, q \in job : a[p] = a[q] => p = q
     /\ \A p \in Pod \ job : a[p] = NoNode}

\* Its pods fit on the same nodes: then the search is exhaustive.
Identical(job, free) ==
  \A p, q \in job, n \in free : CanSchedule(p, n) => CanSchedule(q, n)

-----------------------------------------------------------------------------
(***************************************************************************)
(* run_scheduling_loop and schedule_pod_with_gate.                         *)
(***************************************************************************)

\* The locals of schedule_pod_with_gate are gone when it is left.
RoundEnds ==
  /\ jobs' = {} /\ nodes' = {} /\ todo' = {} /\ recently' = {} /\ placed' = {}
  /\ used' = [n \in Node |-> 0]
  /\ plan' = NoPlan
  /\ pc' = "pause"

\* kube-scheduler can bind the pod to the node.
HasRoom(p, n) ==
  /\ pin[p] \in {n, NoNode}
  /\ Tolerates(p, n)
  /\ Taken(RunningOn(n)) + Need[p] <= Capacity[n]

\* (Mutated: no pause.)
EndPauseAtOnce ==
  /\ pc = "pause"
  /\ pc' = IF gates = {} THEN "idle" ELSE "gates"
  /\ UNCHANGED <<podVars, gates, roundVars, left>>

\* 90 seconds at the start, 60 after each gate.
EndPause ==
  /\ pc = "pause"
  /\ StartsInTime => \A p \in Pod : phase[p] = "released" => \A n \in Node : ~HasRoom(p, n)
  /\ pc' = IF gates = {} THEN "idle" ELSE "gates"
  /\ UNCHANGED <<podVars, gates, roundVars, left>>

FindPodGates ==
  /\ pc = "idle"
  /\ Gated # {}
  /\ gates' = {GateOf[p] : p \in Gated}
  /\ pc' = "gates"
  /\ UNCHANGED <<podVars, roundVars, left>>

WithGate(g) == {p \in Gated : GateOf[p] = g}

\* Python's set of gates has no order.
ListGatedPods ==
  /\ pc = "gates"
  /\ \E g \in gates : /\ WithGate(g) \subseteq specs.labelled
                      /\ gates' = gates \ {g}
                      /\ jobs' = Jobs(WithGate(g))
  /\ pc' = "running"
  /\ UNCHANGED <<podVars, used, nodes, todo, plan, recently, placed, left>>

\* A pod without any labels: the AttributeError of labels.get ends the process.
ListGatedPodsRaises ==
  /\ pc = "gates"
  /\ \E g \in gates : ~(WithGate(g) \subseteq specs.labelled)
  /\ RoundEnds
  /\ gates' = {}
  /\ UNCHANGED <<podVars, left>>

\* list_node, and the pods that take up resources: those in phase Running.
\* Nodes that are not ready are skipped for the whole round.
ListRunningPods ==
  /\ pc = "running"
  /\ used' = [n \in Node |-> Taken(RunningOn(n))]
  /\ \/ nodes' = Node /\ UNCHANGED left
     \/ Fail /\ nodes' \in SUBSET Node
  /\ pc' = "jobs"
  /\ UNCHANGED <<podVars, gates, jobs, todo, plan, recently, placed>>

\* The oldest job that is left, and the nodes that no job of this gate was
\* given before it.
NextJob(job) ==
  /\ pc = "jobs"
  /\ job \in jobs
  /\ \A j \in jobs : CreationTime(job) <= CreationTime(j)
  /\ jobs' = jobs \ {job}
  /\ nodes' = nodes \ recently
  /\ UNCHANGED <<podVars, gates, used, recently, placed, left>>

EnoughNodes(job, free) == Cardinality(job) <= Cardinality(free)

SkipJob ==
  \E job \in jobs :
    /\ NextJob(job)
    /\ LET free == SchedulableNodes(job, nodes')
       IN  ~(/\ EnoughNodes(job, free)
             /\ Identical(job, free)
             /\ Assignments(job, free) # {})
    /\ UNCHANGED <<pc, todo, plan>>

\* (Mutated: a job that does not fit is scheduled in part.)
PlanJobInPart ==
  \E job \in jobs :
    /\ NextJob(job)
    /\ \E part \in SUBSET job :
         /\ part # {}
         /\ plan' \in Assignments(part, SchedulableNodes(job, nodes'))
         /\ todo' = part
    /\ pc' = "replace"

PlanJob ==
  \E job \in jobs :
    /\ NextJob(job)
    /\ EnoughNodes(job, SchedulableNodes(job, nodes'))
    /\ plan' \in Assignments(job, SchedulableNodes(job, nodes'))
    /\ todo' = job
    /\ pc' = "replace"

EndGate ==
  /\ pc = "jobs"
  /\ jobs = {}
  /\ RoundEnds
  /\ UNCHANGED <<podVars, gates, left>>

\* replace_namespaced_pod gets through: the pod is pinned and has no gate.
PodReplaced(p) ==
  /\ pc = "replace"
  /\ p \in todo
  /\ phase[p] = "gated"
  /\ phase' = [phase EXCEPT ![p] = "released"]
  /\ pin' = [pin EXCEPT ![p] = plan[p]]
  /\ UNCHANGED specs

\* The loop over the pods of the job is left.
Break ==
  /\ todo' = {}
  /\ plan' = NoPlan
  /\ pc' = "jobs"
  /\ UNCHANGED <<gates, jobs, used, nodes, recently>>

\* (Mutated: the node stays in the list.)
SchedulePodForgetsNode(p) ==
  /\ PodReplaced(p)
  /\ todo' = todo \ {p}
  /\ plan' = [plan EXCEPT ![p] = NoNode]
  /\ placed' = placed \cup {p}
  /\ pc' = IF todo' = {} THEN "jobs" ELSE "replace"
  /\ UNCHANGED <<gates, jobs, used, nodes, recently, left>>

SchedulePod(p) ==
  /\ PodReplaced(p)
  /\ todo' = todo \ {p}
  /\ plan' = [plan EXCEPT ![p] = NoNode]
  /\ recently' = recently \cup {plan[p]}
  /\ placed' = placed \cup {p}
  /\ pc' = IF todo' = {} THEN "jobs" ELSE "replace"
  /\ UNCHANGED <<gates, jobs, used, nodes, left>>

\* The pod was replaced, the answer is lost: an exception, and the node is
\* not entered as taken.
SchedulePodAnswerLost(p) ==
  /\ left.unseen > 0
  /\ PodReplaced(p)
  /\ Break
  /\ placed' = placed \cup {p}
  /\ left' = [left EXCEPT !.unseen = @ - 1]

\* An ApiException of either call: a conflict, or the pod is gone.
SchedulePodFails(p) ==
  /\ pc = "replace"
  /\ p \in todo
  /\ phase[p] = "gone" \/ left.failures > 0
  /\ Break
  /\ left' = [left EXCEPT !.failures = IF phase[p] = "gone" THEN @ ELSE @ - 1]
  /\ UNCHANGED <<podVars, placed>>

\* Another group, or somebody else, has removed the gate already: the pod has
\* no list of gates to look through.
SchedulePodRaises(p) ==
  /\ pc = "replace"
  /\ p \in todo
  /\ phase[p] \in {"released", "running"}
  /\ Break
  /\ UNCHANGED <<podVars, placed, left>>

-----------------------------------------------------------------------------
(***************************************************************************)
(* The cluster.                                                            *)
(***************************************************************************)

\* A job's pods are there when the pause of five seconds is over.
JobCreated ==
  \E p \in Pod :
    /\ phase[p] = "absent"
    /\ phase' = [q \in Pod |-> IF q \in JobPods(p) /\ phase[q] = "absent"
                                THEN "gated" ELSE phase[q]]
  /\ UNCHANGED <<specs, pin, pc, gates, roundVars, left>>

\* kube-scheduler binds a pod to its node when there is room, and it starts.
PodStarts(p) ==
  /\ phase[p] = "released"
  /\ \E n \in Node : HasRoom(p, n) /\ pin' = [pin EXCEPT ![p] = n]
  /\ phase' = [phase EXCEPT ![p] = "running"]
  /\ UNCHANGED <<specs, pc, gates, roundVars, left>>

PodFinishes(p) ==
  /\ phase[p] = "running"
  /\ phase' = [phase EXCEPT ![p] = "gone"]
  /\ UNCHANGED <<specs, pin, pc, gates, roundVars, left>>

PodDeleted(p) ==
  /\ phase[p] \in {"gated", "released"}
  /\ Fail
  /\ phase' = [phase EXCEPT ![p] = "gone"]
  /\ UNCHANGED <<specs, pin, pc, gates, roundVars>>

GateRemoved(p) ==
  /\ phase[p] = "gated"
  /\ left.unseen > 0
  /\ phase' = [phase EXCEPT ![p] = "released"]
  /\ left' = [left EXCEPT !.unseen = @ - 1]
  /\ UNCHANGED <<specs, pin, pc, gates, roundVars>>

\* A list call raises, which ends the loop, or the container dies.
Crash ==
  /\ Fail
  /\ RoundEnds
  /\ gates' = {}
  /\ UNCHANGED podVars

-----------------------------------------------------------------------------
Schedule(p) ==
  \/ SchedulePod(p) \/ SchedulePodAnswerLost(p)
  \/ SchedulePodFails(p) \/ SchedulePodRaises(p)

Scheduler ==
  \/ EndPause \/ FindPodGates \/ ListGatedPods \/ ListGatedPodsRaises
  \/ ListRunningPods \/ SkipJob \/ PlanJob \/ EndGate
  \/ \E p \in todo : Schedule(p)

Cluster ==
  \/ JobCreated
  \/ \E p \in Pod : \/ PodStarts(p) \/ PodFinishes(p)
                    \/ PodDeleted(p) \/ GateRemoved(p)
  \/ Crash

Next == Scheduler \/ Cluster

\* The loop runs, pods with room start, and running pods finish.
Fairness ==
  /\ WF_vars(Scheduler)
  /\ \A p \in Pod : WF_vars(PodStarts(p) \/ PodFinishes(p))

Spec     == Init /\ [][Next]_vars
FairSpec == Spec /\ Fairness

-----------------------------------------------------------------------------
(***************************************************************************)
(* Properties.                                                             *)
(***************************************************************************)

\* Pods that are pinned to a node and may run there.
Booked(n) ==
  {p \in Pod : phase[p] \in {"released", "running"} /\ pin[p] = n /\ Tolerates(p, n)}

\* The requests of the pods that are pinned to a node do not exceed it, and
\* none of them waits for another to finish, whatever fails, unless an answer
\* was lost or somebody else removed a gate.  (Of the pods without a job one
\* may be pinned to a node that it does not tolerate; it never starts there.)
NodesAreNotOverbooked ==
  left.unseen = MaxUnseen => \A n \in Node : Taken(Booked(n)) <= Capacity[n]

\* No node is given to two pods for one gate, whatever fails, as long as the
\* scheduler hears the answers.
OneNodePerPod ==
  left.unseen = MaxUnseen =>
    \A p, q \in placed : p # q => pin[p] # pin[q]

NothingFailed == left = [failures |-> MaxFailures, unseen |-> MaxUnseen]

\* A job is released as a whole or not at all: without failures none of its
\* pods is left behind when the scheduler turns to something else.
JobsAreAllOrNothing ==
  /\ pc # "replace"
  /\ NothingFailed
  => \A p \in Pod : \A q \in JobPods(p) : phase[p] = "gated" <=> phase[q] = "gated"

\* Every gated pod loses its gate, after any failures and restarts, however
\* the jobs before it fill the nodes: in the end none is left, as pods are not
\* gated again.  Not so the pods of jobs that are ignored, and not while a pod
\* without labels ends every turn of the loop.
PodsAreReleased ==
  \/ []<>(\A p \in Pod : SameTolerations(JobPods(p)) => phase[p] # "gated")
  \/ <>[](\E p \in Pod \ specs.labelled : phase[p] = "gated")

(***************************************************************************)
(* The inductive strengthening of OneNodePerPod, NodesAreNotOverbooked and *)
(* JobsAreAllOrNothing.                                                    *)
(***************************************************************************)

\* The pods of a job have nodes of their own, none of them given out before,
\* and fit into what was free there when running pods were listed.
PlanInv ==
  /\ pc # "replace" => todo = {}
  /\ \A p \in todo :
       /\ plan[p] \in Node \ recently
       /\ CanSchedule(p, plan[p])
       /\ \A q \in todo : plan[p] = plan[q] => p = q

PlacedInv ==
  /\ \A p \in placed : phase[p] \notin {"absent", "gated"} /\ pin[p] \in Node
  /\ left.unseen <= MaxUnseen
  /\ left.unseen = MaxUnseen => \A p \in placed : pin[p] \in recently

\* After a pause no pod that may run on its node waits for it, until the first
\* pod is replaced; from when running pods are listed, what they take stands
\* for all that is booked, on nodes that were not given out since.
BookedInv ==
  left.unseen = MaxUnseen =>
    /\ \A p \in Pod : phase[p] \in {"released", "running"} => pin[p] \in Node
    /\ \A p \in Pod : phase[p] = "running" => Tolerates(p, pin[p])
    /\ pc \in {"idle", "gates", "running"} =>
         \A p \in Pod : phase[p] = "released" => ~Tolerates(p, pin[p])
    /\ pc \in {"jobs", "replace"} =>
         \A n \in Node \ recently : Taken(Booked(n)) <= used[n]

\* What jobs are found by is theirs alone: a name that an extractor finds for
\* pods of two jobs with one gate would make one job of them,
NamesAgree ==
  \A p, q \in Pod, e \in Extractor :
    GateOf[p] = GateOf[q] /\ Name[e][p] = Name[e][q] /\ Name[e][p] # Unknown =>
      q \in JobPods(p)

\* and a job that is listed in parts, groupby would take for several.
ListedTogether ==
  \A p, r \in Pod : \A q \in JobPods(p) :
    /\ \E e \in Extractor : Name[e][p] # Unknown
    /\ GateOf[r] = GateOf[p] /\ p <= r /\ r <= q
    => r \in JobPods(p)

\* The jobs that are left, and what is left of the one that is being replaced,
\* are jobs that are gated, and nothing but that one is gated in part.
JobInv ==
  /\ left.failures <= MaxFailures
  /\ \A p \in Pod : \A q \in JobPods(p) : phase[p] = "absent" <=> phase[q] = "absent"
  /\ NothingFailed =>
       /\ \A job \in jobs \cup {todo} : \A p \in job : job = JobPods(p) \cap Gated
       /\ \A job \in jobs : job \cap todo = {}
       /\ \A p \in Pod : \A q \in JobPods(p) :
            phase[p] = "gated" /\ phase[q] # "gated" => p \in todo

PlacementInv == TypeOK /\ PlanInv /\ PlacedInv /\ OneNodePerPod

IInv ==
  /\ PlacementInv
  /\ StartsInTime => BookedInv /\ NodesAreNotOverbooked
  /\ NamesAgree /\ ListedTogether => JobInv
=============================================================================

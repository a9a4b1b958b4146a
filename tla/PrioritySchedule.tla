-------------------------- MODULE PrioritySchedule --------------------------
(***************************************************************************)
(* MaterializedTaskPlan::priority_schedule (graph.rs): the order in which  *)
(* the tasks of a plan are listed and run.  Kahn's algorithm in rounds: a  *)
(* round takes every task that is ready when it begins, most blocked       *)
(* descendants first, and what it makes ready waits for the next round.    *)
(***************************************************************************)
EXTENDS Integers, Sequences, FiniteSets

CONSTANTS
  Nodes,     \* the included task nodes, numbered in TaskNode order
  Graphs     \* the prerequisite relations: functions [Nodes -> SUBSET Nodes]

ASSUME NodesAssumption  == Nodes \subseteq Nat /\ IsFiniteSet(Nodes)
ASSUME GraphsAssumption == Graphs \subseteq [Nodes -> SUBSET Nodes]

VARIABLES
  prerequisites,   \* what each node waits for, fixed for a behavior
  indegree,        \* the prerequisites of each node not processed yet
  ready,           \* the heap
  current,         \* the round: popped nodes not processed yet
  ordered,         \* the nodes processed, in order
  groups,          \* the rounds made so far
  pc               \* "pop", "process", "done" or "cycle" (the error)

vars == <<prerequisites, indegree, ready, current, ordered, groups, pc>>

-----------------------------------------------------------------------------

Outgoing(n) == {m \in Nodes : n \in prerequisites[m]}

(***************************************************************************)
(* collect_descendants: the nodes reached from n, n itself if on a cycle;  *)
(* the least set that holds n's dependents and theirs.                     *)
(***************************************************************************)
Descendants(n) ==
  {m \in Nodes : \A S \in SUBSET Nodes :
     Outgoing(n) \subseteq S /\ (\A k \in S : Outgoing(k) \subseteq S) => m \in S}

BlockedCount(n) == Cardinality(Descendants(n))

(***************************************************************************)
(* PriorityTaskNode's order: more blocked descendants first, then the      *)
(* smaller node.                                                           *)
(***************************************************************************)
Before(n, m) ==
  \/ BlockedCount(n) > BlockedCount(m)
  \/ BlockedCount(n) = BlockedCount(m) /\ n < m

Elements(s) == {s[i] : i \in DOMAIN s}

Init ==
  /\ prerequisites \in Graphs
  /\ indegree = [n \in Nodes |-> Cardinality(prerequisites[n])]
  /\ ready = {n \in Nodes : prerequisites[n] = {}}
  /\ current = <<>>
  /\ ordered = <<>>
  /\ groups = <<>>
  /\ pc = "pop"

\* Faulty: a queue in place of the heap.
PopReadyAny ==
  /\ pc = "pop"
  /\ \E n \in ready : ready' = ready \ {n} /\ current' = Append(current, n)
  /\ UNCHANGED <<prerequisites, indegree, ordered, groups, pc>>

(***************************************************************************)
(* while let Some(node) = ready.pop(): current.push(node)                  *)
(***************************************************************************)
PopReady ==
  /\ pc = "pop"
  /\ \E n \in ready :
       /\ \A m \in ready \ {n} : Before(n, m)
       /\ ready' = ready \ {n}
       /\ current' = Append(current, n)
  /\ UNCHANGED <<prerequisites, indegree, ordered, groups, pc>>

StartRound ==
  /\ pc = "pop"
  /\ ready = {} /\ current # <<>>
  /\ groups' = Append(groups, current)
  /\ pc' = "process"
  /\ UNCHANGED <<prerequisites, indegree, ready, current, ordered>>

\* Faulty: a node enters the heap while it waits for one more.
ProcessNodeEarly ==
  /\ pc = "process"
  /\ current # <<>>
  /\ LET n == Head(current)
     IN  /\ ordered' = Append(ordered, n)
         /\ indegree' = [m \in Nodes |-> IF m \in Outgoing(n)
                                         THEN indegree[m] - 1 ELSE indegree[m]]
         /\ ready' = ready \cup {m \in Outgoing(n) : indegree[m] <= 2}
  /\ current' = Tail(current)
  /\ UNCHANGED <<prerequisites, groups, pc>>

(***************************************************************************)
(* One node of the round: it is listed, and each node that waits for it    *)
(* waits for one less; those that wait for nothing more enter the heap.    *)
(***************************************************************************)
ProcessNode ==
  /\ pc = "process"
  /\ current # <<>>
  /\ LET n == Head(current)
     IN  /\ ordered' = Append(ordered, n)
         /\ indegree' = [m \in Nodes |-> IF m \in Outgoing(n)
                                         THEN indegree[m] - 1 ELSE indegree[m]]
         /\ ready' = ready \cup {m \in Outgoing(n) : indegree[m] = 1}
  /\ current' = Tail(current)
  /\ UNCHANGED <<prerequisites, groups, pc>>

EndRound ==
  /\ pc = "process"
  /\ current = <<>>
  /\ pc' = "pop"
  /\ UNCHANGED <<prerequisites, indegree, ready, current, ordered, groups>>

\* Faulty: the length is not compared.
FinishUnchecked ==
  /\ pc = "pop"
  /\ ready = {} /\ current = <<>>
  /\ pc' = "done"
  /\ UNCHANGED <<prerequisites, indegree, ready, current, ordered, groups>>

(***************************************************************************)
(* Nothing is ready: the order is complete, or the rest is on or behind a  *)
(* cycle.                                                                  *)
(***************************************************************************)
Finish ==
  /\ pc = "pop"
  /\ ready = {} /\ current = <<>>
  /\ pc' = IF Len(ordered) = Cardinality(Nodes) THEN "done" ELSE "cycle"
  /\ UNCHANGED <<prerequisites, indegree, ready, current, ordered, groups>>

Step == PopReady \/ StartRound \/ ProcessNode \/ EndRound \/ Finish

Terminated == pc \in {"done", "cycle"} /\ UNCHANGED vars

Next == Step \/ Terminated

Spec     == Init /\ [][Next]_vars
FairSpec == Spec /\ WF_vars(Step)

-----------------------------------------------------------------------------

TypeOK ==
  /\ prerequisites \in [Nodes -> SUBSET Nodes]
  /\ indegree \in [Nodes -> Int]
  /\ ready \in SUBSET Nodes
  /\ current \in Seq(Nodes)
  /\ ordered \in Seq(Nodes)
  /\ groups \in Seq(Seq(Nodes))
  /\ pc \in {"pop", "process", "done", "cycle"}

(***************************************************************************)
(* The count a node waits on is the number of its prerequisites not        *)
(* processed yet, it never underflows, and the heap holds a waiting node   *)
(* exactly when that number is zero.                                       *)
(***************************************************************************)
IndegreeIsOutstanding ==
  \A n \in Nodes :
    /\ indegree[n] = Cardinality(prerequisites[n] \ Elements(ordered))
    /\ n \in ready \cup Elements(current) \cup Elements(ordered) <=> indegree[n] = 0

(***************************************************************************)
(* The cycle error is raised exactly when some set of nodes waits in a     *)
(* circle, and the nodes it names (those with an indegree left) hold every *)
(* such set.                                                               *)
(***************************************************************************)
Circular(S) == S # {} /\ \A n \in S : prerequisites[n] \cap S # {}

CycleErrorIsExact ==
  /\ pc = "cycle" =>
       /\ Circular({n \in Nodes : indegree[n] > 0})
       /\ \A S \in SUBSET Nodes : Circular(S) => S \subseteq {n \in Nodes : indegree[n] > 0}
  /\ pc = "done" => \A S \in SUBSET Nodes : ~ Circular(S)

(***************************************************************************)
(* A round is a level: what a node waits for is in earlier rounds, one of  *)
(* them in the round just before, and in a round the node that blocks more *)
(* comes first.                                                            *)
(***************************************************************************)
RoundsAreLevels ==
  \A g \in DOMAIN groups : \A i \in DOMAIN groups[g] :
    /\ \A q \in prerequisites[groups[g][i]] :
         \E e \in DOMAIN groups : e < g /\ q \in Elements(groups[e])
    /\ g > 1 => \E q \in prerequisites[groups[g][i]] : q \in Elements(groups[g - 1])
    /\ \A j \in DOMAIN groups[g] : i < j => Before(groups[g][i], groups[g][j])

(***************************************************************************)
(* The schedule is a run of the task graph, one task at a time: each node  *)
(* is listed once, and everything it waits for before it.  The indices the *)
(* batch scheduler works with are positions in this list, so this is what  *)
(* makes its plans topological (BatchScheduler!Topological).               *)
(***************************************************************************)
DR == INSTANCE DagRun WITH
        Tasks      <- Nodes,
        absorbable <- [n \in Nodes |-> {}],
        taken      <- Elements(ordered)

ImplementsDagRun == DR!Spec

=============================================================================

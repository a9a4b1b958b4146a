--------------------------- MODULE BatchScheduler ---------------------------
(***************************************************************************)
(* batch_execution_plan (plugins/mod.rs): the schedule of execution units  *)
(* made from a TaskExecutionPlan.  A unit is a set of task indices that    *)
(* one process runs: a single task, or a cohort of compatible Cargo tasks  *)
(* collapsed into one workspace invocation.                                *)
(*                                                                         *)
(* The function is sequential.  Its loops are unrolled into one action per *)
(* iteration, because what can go wrong is the order in which the scan     *)
(* meets the indices, not the result of any one test.                      *)
(***************************************************************************)
EXTENDS Naturals, Sequences

CONSTANTS
  Tasks,    \* the indices 0 .. plan.tasks.len() - 1 of the plan's tasks
  Keys,     \* the batch compatibility keys (task, cargo command, variables)
  NoKey,    \* the key of a task that is never batched
  Plans     \* the plans the scheduler may be given

(***************************************************************************)
(* A TaskExecutionPlan: prerequisites[i] are the tasks i waits for, and    *)
(* absorbable[i] those of them it may share a unit with (the same task of  *)
(* a native dependency).                                                   *)
(***************************************************************************)
IsPlan(p) ==
  /\ p.prerequisites \in [Tasks -> SUBSET Tasks]
  /\ p.absorbable \in [Tasks -> SUBSET Tasks]
  /\ p.key \in [Tasks -> Keys \cup {NoKey}]
  /\ \A i \in Tasks : p.absorbable[i] \subseteq p.prerequisites[i]

ASSUME TasksAssumption == Tasks \subseteq Nat
ASSUME KeysAssumption  == NoKey \notin Keys
ASSUME PlansAssumption == \A p \in Plans : IsPlan(p)

VARIABLES
  plan,        \* the plan, fixed for a behavior
  pc,          \* "select", "scan", "commit", "done" or "cycle" (the error)
  pending,     \* the tasks in no unit yet
  completed,   \* the tasks of the units made so far
  cohort,      \* the unit being made
  unscanned,   \* what is left of the current pass over pending
  changed,     \* did the current pass grow the cohort
  units        \* the units, in execution order

vars == <<plan, pc, pending, completed, cohort, unscanned, changed, units>>

-----------------------------------------------------------------------------

Prereqs(i)    == plan.prerequisites[i]
Absorbable(i) == plan.absorbable[i]
Key(i)        == plan.key[i]

Smallest(i, S) == i \in S /\ \A j \in S : i <= j

\* Faulty: ready means "waits for nothing", not "waits for nothing any more".
ReadyFromStart == {i \in pending : Prereqs(i) = {}}

Ready == {i \in pending : Prereqs(i) \subseteq completed}

\* Faulty: the key is not compared.
JoinsAnyKey(i) ==
  /\ i \notin cohort
  /\ \A q \in Prereqs(i) :
       q \in completed \/ (q \in cohort /\ q \in Absorbable(i))

\* Faulty: an absorbable prerequisite need not be in the cohort yet.
JoinsEarly(i) ==
  /\ i \notin cohort
  /\ \E s \in cohort : Key(i) = Key(s)
  /\ \A q \in Prereqs(i) : q \in completed \/ q \in Absorbable(i)

(***************************************************************************)
(* The inner loop's test: index is compatible with the cohort's seed and   *)
(* waits for nothing but completed tasks and absorbable cohort members.    *)
(***************************************************************************)
Joins(i) ==
  /\ i \notin cohort
  /\ \E s \in cohort : Key(i) = Key(s)
  /\ \A q \in Prereqs(i) :
       q \in completed \/ (q \in cohort /\ q \in Absorbable(i))

Init ==
  /\ plan \in Plans
  /\ pc = "select"
  /\ pending = Tasks
  /\ completed = {}
  /\ cohort = {}
  /\ unscanned = {}
  /\ changed = FALSE
  /\ units = <<>>

(***************************************************************************)
(* while !pending.is_empty(): the smallest ready index seeds a cohort.     *)
(***************************************************************************)
SelectSeed ==
  /\ pc = "select"
  /\ \E seed \in Ready :
       /\ Smallest(seed, Ready)
       /\ cohort' = {seed}
       /\ IF Key(seed) = NoKey
          THEN pc' = "commit" /\ unscanned' = {}
          ELSE pc' = "scan" /\ unscanned' = pending
  /\ changed' = FALSE
  /\ UNCHANGED <<plan, pending, completed, units>>

(***************************************************************************)
(* No pending task is ready: "cycle detected while scheduling".            *)
(***************************************************************************)
NothingReady ==
  /\ pc = "select"
  /\ pending # {}
  /\ Ready = {}
  /\ pc' = "cycle"
  /\ UNCHANGED <<plan, pending, completed, cohort, unscanned, changed, units>>

(***************************************************************************)
(* One iteration of "for index in pending", in ascending order.            *)
(***************************************************************************)
ScanIndex ==
  /\ pc = "scan"
  /\ \E i \in unscanned :
       /\ Smallest(i, unscanned)
       /\ unscanned' = unscanned \ {i}
       /\ IF Joins(i)
          THEN cohort' = cohort \cup {i} /\ changed' = TRUE
          ELSE UNCHANGED <<cohort, changed>>
  /\ UNCHANGED <<plan, pc, pending, completed, units>>

\* Faulty: changed is not reset for the next pass.
EndPassStillChanged ==
  /\ pc = "scan"
  /\ unscanned = {}
  /\ IF changed
     THEN unscanned' = pending /\ UNCHANGED pc
     ELSE pc' = "commit" /\ UNCHANGED unscanned
  /\ UNCHANGED <<plan, pending, completed, cohort, changed, units>>

\* Faulty: one pass only.
EndPassOnce ==
  /\ pc = "scan"
  /\ unscanned = {}
  /\ pc' = "commit"
  /\ UNCHANGED <<plan, pending, completed, cohort, unscanned, changed, units>>

(***************************************************************************)
(* The end of a pass: scan again if the cohort grew, else leave the loop.  *)
(***************************************************************************)
EndPass ==
  /\ pc = "scan"
  /\ unscanned = {}
  /\ IF changed
     THEN unscanned' = pending /\ UNCHANGED pc
     ELSE pc' = "commit" /\ UNCHANGED unscanned
  /\ changed' = FALSE
  /\ UNCHANGED <<plan, pending, completed, cohort, units>>

(***************************************************************************)
(* batch_execution_units makes one unit of a cohort (its members share a   *)
(* key, or it is a singleton), then the cohort leaves pending.             *)
(***************************************************************************)
Commit ==
  /\ pc = "commit"
  /\ units' = Append(units, cohort)
  /\ pending' = pending \ cohort
  /\ completed' = completed \cup cohort
  /\ cohort' = {}
  /\ pc' = "select"
  /\ UNCHANGED <<plan, unscanned, changed>>

Finish ==
  /\ pc = "select"
  /\ pending = {}
  /\ pc' = "done"
  /\ UNCHANGED <<plan, pending, completed, cohort, unscanned, changed, units>>

Schedule ==
  \/ SelectSeed \/ NothingReady \/ ScanIndex \/ EndPass \/ Commit \/ Finish

(***************************************************************************)
(* The function returns (the units or the error): nothing more happens.    *)
(***************************************************************************)
Terminated == pc \in {"done", "cycle"} /\ UNCHANGED vars

Next == Schedule \/ Terminated

Spec     == Init /\ [][Next]_vars
FairSpec == Spec /\ WF_vars(Schedule)

-----------------------------------------------------------------------------

TypeOK ==
  /\ IsPlan(plan)
  /\ pc \in {"select", "scan", "commit", "done", "cycle"}
  /\ pending \in SUBSET Tasks
  /\ completed \in SUBSET Tasks
  /\ cohort \in SUBSET Tasks
  /\ unscanned \in SUBSET Tasks
  /\ changed \in BOOLEAN
  /\ units \in Seq(SUBSET Tasks)

(***************************************************************************)
(* Every task a unit's task waits for is in an earlier unit, or in the     *)
(* same unit as an absorbable prerequisite of the same key: a batch never  *)
(* crosses a task dependency, a bridge, another command or environment.    *)
(***************************************************************************)
UnitsRespectPrerequisites ==
  \A u \in DOMAIN units : \A i \in units[u] : \A q \in Prereqs(i) :
    \/ \E e \in DOMAIN units : e < u /\ q \in units[e]
    \/ q \in units[u] /\ q \in Absorbable(i) /\ Key(q) = Key(i) /\ Key(i) # NoKey

(***************************************************************************)
(* No task runs twice and none is lost: the units are disjoint, together   *)
(* they are what left pending, and at the end they are all the tasks.      *)
(***************************************************************************)
EachTaskInOneUnit ==
  /\ \A u, v \in DOMAIN units : u # v => units[u] \cap units[v] = {}
  /\ completed = UNION {units[u] : u \in DOMAIN units}
  /\ completed = Tasks \ pending
  /\ pc = "done" => completed = Tasks

(***************************************************************************)
(* What one cargo invocation is handed can be ordered: every non-empty set *)
(* of tasks that are scheduled, or about to be, has one that waits for     *)
(* none of the others.  Absorption must not close a cycle inside a unit.   *)
(***************************************************************************)
HasSource(S) == \E i \in S : Prereqs(i) \cap S = {}

ScheduledIsAcyclic ==
  \A S \in SUBSET (completed \cup cohort) : S # {} => HasSource(S)

(***************************************************************************)
(* The error is raised for a cycle and for nothing else: the tasks left    *)
(* then have none that could start, and a finished schedule has no set of  *)
(* tasks that wait for one another.                                        *)
(***************************************************************************)
CycleErrorIsExact ==
  /\ pc = "cycle" => pending # {} /\ ~ HasSource(pending)
  /\ pc = "done"  => \A S \in SUBSET Tasks : S # {} => HasSource(S)

(***************************************************************************)
(* A committed cohort is as large as it can be: no compatible task left    *)
(* waits only for completed tasks and absorbable members of the cohort,    *)
(* whatever the order in which the passes met the indices.                 *)
(***************************************************************************)
CohortIsMaximal ==
  pc = "commit" =>
    \A i \in pending : (\E s \in cohort : Key(s) # NoKey) => ~ Joins(i)

(***************************************************************************)
(* A plan whose prerequisites all have smaller indices, as the planner's   *)
(* topological order gives them, never meets the cycle error.              *)
(***************************************************************************)
Topological(p)  == \A i \in Tasks : \A q \in p.prerequisites[i] : q < i
NeverStuck == Topological(plan) => pc # "cycle"

(***************************************************************************)
(* Every unit the scheduler commits is a group DagRun lets a run take, and *)
(* nothing else it does is visible there: a schedule of units is a run of  *)
(* the task graph.                                                         *)
(***************************************************************************)
DR == INSTANCE DagRun WITH
        prerequisites <- plan.prerequisites,
        absorbable    <- plan.absorbable,
        taken         <- completed

ImplementsDagRun == DR!Spec

=============================================================================

----------------------------- MODULE MCPackageRun ----------------------------
(***************************************************************************)
(* Instances of PackageRun: every plan over a few tasks, every choice of   *)
(* opted-in tasks, every outcome of every process.                         *)
(***************************************************************************)
EXTENDS PackageRun

CONSTANTS Bound    \* the number of tasks

MCTasks == 0 .. Bound - 1

(***************************************************************************)
(* How task i relates to task j: it does not wait for it, it waits, or it  *)
(* waits and may absorb it.  The three choices and the keys are            *)
(* independent: a native dependency's run of the same task is absorbable   *)
(* whatever its command and variables, and those decide its key.           *)
(***************************************************************************)
Relation == {"none", "waits", "absorbs"}

Others == {e \in MCTasks \X MCTasks : e[1] # e[2]}

PlanOf(r, k) ==
  [prerequisites |-> [i \in MCTasks |-> {j \in MCTasks \ {i} : r[<<i, j>>] # "none"}],
   absorbable    |-> [i \in MCTasks |-> {j \in MCTasks \ {i} : r[<<i, j>>] = "absorbs"}],
   key           |-> k]

(***************************************************************************)
(* Every prerequisite relation, so that the error path is taken too.       *)
(***************************************************************************)
AnyPlans ==
  {PlanOf(r, k) : r \in [Others -> Relation], k \in [MCTasks -> Keys \cup {NoKey}]}

=============================================================================

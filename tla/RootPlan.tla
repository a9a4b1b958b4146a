------------------------------ MODULE RootPlan ------------------------------
(***************************************************************************)
(* root_task_plan (tasks.rs): the workspace-root tasks a logical task      *)
(* needs, each after the root tasks it depends on, or an error.            *)
(*                                                                         *)
(* collect_root_tasks is recursive.  Its stack holds what is left to do: a *)
(* "collect" call for a task, with the task that depends on it, and a      *)
(* "finish" for a task whose dependencies have been collected.             *)
(*                                                                         *)
(* A configuration is a record:                                            *)
(*   defined        the tasks flux.toml defines                            *)
(*   root           those with a root command                              *)
(*   packaged       those with a command for packages                      *)
(*   cached         those with a cache                                     *)
(*   produces       those that capture their output                        *)
(*   dependsOn[t]   the same-package dependencies of t, in order           *)
(*   condition[t]   the producer whose output t's `when` tests, or NoTask  *)
(*   references[t]  the producers whose output t's command substitutes     *)
(***************************************************************************)
EXTENDS Naturals, FiniteSets, Sequences, SequencesExt

CONSTANTS
  Tasks,           \* task names
  NoTask,
  Configurations,  \* the configurations considered
  Target           \* the task asked for

ASSUME TasksAssumption == Target \in Tasks /\ NoTask \notin Tasks

IsConfiguration(c) ==
  /\ \A f \in {"defined", "root", "packaged", "cached", "produces"} : c[f] \subseteq Tasks
  /\ c.dependsOn \in [Tasks -> Seq(Tasks)]
  /\ c.condition \in [Tasks -> Tasks \cup {NoTask}]
  /\ c.references \in [Tasks -> SUBSET Tasks]

ASSUME ConfigurationsAssumption == \A c \in Configurations : IsConfiguration(c)

VARIABLES
  conf,        \* the configuration
  pc,          \* "collect", "planned", "cycle" or "invalid"
  stack,       \* what is left to do, the next first
  visiting,    \* tasks entered and not finished
  completed,   \* tasks finished
  rootPlan     \* the plan so far

vars == <<conf, pc, stack, visiting, completed, rootPlan>>

CollectCall(t, from) == [op |-> "collect", task |-> t, from |-> from]
FinishCall(t)        == [op |-> "finish",  task |-> t, from |-> NoTask]

-----------------------------------------------------------------------------

(***************************************************************************)
(* has_transitive_dependency                                               *)
(***************************************************************************)
DependsOn(t) == ToSet(conf.dependsOn[t])

TransitiveDependencies(t) ==
  {u \in Tasks : \A S \in SUBSET Tasks :
     DependsOn(t) \subseteq S /\ (\A s \in S : DependsOn(s) \subseteq S) => u \in S}

(***************************************************************************)
(* validate_output_reference                                               *)
(***************************************************************************)
ReferenceValid(t, producer) ==
  /\ producer \in TransitiveDependencies(t)
  /\ producer \in conf.produces

(***************************************************************************)
(* The checks made when a task is entered, when one of its dependencies is *)
(* about to be collected, and when all of them have been.                  *)
(***************************************************************************)
EntryValid(t) ==
  /\ t \in conf.defined
  /\ t \in conf.cached => t \in conf.root /\ t \notin conf.packaged

DependencyValid(from, t) ==
  from # NoTask => t \in conf.defined /\ (from \in conf.root => t \in conf.root)

Dynamic(t) == t \in conf.produces \/ conf.condition[t] # NoTask

ExitValid(t) ==
  /\ conf.condition[t] # NoTask => ReferenceValid(t, conf.condition[t])
  /\ Dynamic(t) => t \in conf.root /\ t \notin conf.packaged
  /\ t \in conf.root => \A u \in conf.references[t] : ReferenceValid(t, u)

-----------------------------------------------------------------------------

Init ==
  /\ conf \in Configurations
  /\ pc = "collect"
  /\ stack = <<CollectCall(Target, NoTask)>>
  /\ visiting = {} /\ completed = {}
  /\ rootPlan = <<>>

Top(op) == pc = "collect" /\ stack # <<>> /\ Head(stack).op = op

Fail(how) ==
  /\ pc' = how
  /\ UNCHANGED <<conf, stack, visiting, completed, rootPlan>>

CollectCompleted ==
  /\ Top("collect")
  /\ DependencyValid(Head(stack).from, Head(stack).task)
  /\ Head(stack).task \in completed
  /\ stack' = Tail(stack)
  /\ UNCHANGED <<conf, pc, visiting, completed, rootPlan>>

CollectCycle ==
  /\ Top("collect")
  /\ DependencyValid(Head(stack).from, Head(stack).task)
  /\ Head(stack).task \in visiting \ completed
  /\ Fail("cycle")

\* Faulty: a task is finished before its dependencies.
CollectTaskFinishing ==
  /\ Top("collect")
  /\ LET t == Head(stack).task
         OnDependency(i) == CollectCall(conf.dependsOn[t][i], t)
     IN  /\ DependencyValid(Head(stack).from, t)
         /\ t \notin visiting \cup completed
         /\ EntryValid(t)
         /\ visiting' = visiting \cup {t}
         /\ stack' = <<FinishCall(t)>>
                       \o [i \in DOMAIN conf.dependsOn[t] |-> OnDependency(i)] \o Tail(stack)
  /\ UNCHANGED <<conf, pc, completed, rootPlan>>

\* Faulty: a task that is entered is not marked as being visited.
CollectTaskUnmarked ==
  /\ Top("collect")
  /\ LET t == Head(stack).task
         OnDependency(i) == CollectCall(conf.dependsOn[t][i], t)
     IN  /\ DependencyValid(Head(stack).from, t)
         /\ t \notin visiting \cup completed
         /\ EntryValid(t)
         /\ stack' = [i \in DOMAIN conf.dependsOn[t] |-> OnDependency(i)]
                       \o <<FinishCall(t)>> \o Tail(stack)
  /\ UNCHANGED <<conf, pc, visiting, completed, rootPlan>>

CollectTask ==
  /\ Top("collect")
  /\ LET t == Head(stack).task
         OnDependency(i) == CollectCall(conf.dependsOn[t][i], t)
     IN  /\ DependencyValid(Head(stack).from, t)
         /\ t \notin visiting \cup completed
         /\ EntryValid(t)
         /\ visiting' = visiting \cup {t}
         /\ stack' = [i \in DOMAIN conf.dependsOn[t] |-> OnDependency(i)]
                       \o <<FinishCall(t)>> \o Tail(stack)
  /\ UNCHANGED <<conf, pc, completed, rootPlan>>

CollectInvalid ==
  /\ Top("collect")
  /\ LET t == Head(stack).task
     IN  \/ ~ DependencyValid(Head(stack).from, t)
         \/ t \notin visiting \cup completed /\ ~ EntryValid(t)
  /\ Fail("invalid")

FinishTask ==
  /\ Top("finish")
  /\ LET t == Head(stack).task
     IN  /\ ExitValid(t)
         /\ visiting' = visiting \ {t}
         /\ completed' = completed \cup {t}
         /\ rootPlan' = IF t \in conf.root THEN Append(rootPlan, t) ELSE rootPlan
  /\ stack' = Tail(stack)
  /\ UNCHANGED <<conf, pc>>

FinishInvalid ==
  /\ Top("finish")
  /\ ~ ExitValid(Head(stack).task)
  /\ Fail("invalid")

Planned ==
  /\ pc = "collect" /\ stack = <<>>
  /\ pc' = "planned"
  /\ UNCHANGED <<conf, stack, visiting, completed, rootPlan>>

Collect ==
  \/ CollectCompleted \/ CollectCycle \/ CollectTask \/ CollectInvalid
  \/ FinishTask \/ FinishInvalid
  \/ Planned

Returned == pc # "collect" /\ UNCHANGED vars

Next == Collect \/ Returned

Spec == Init /\ [][Next]_vars

-----------------------------------------------------------------------------

TypeOK ==
  /\ IsConfiguration(conf)
  /\ pc \in {"collect", "planned", "cycle", "invalid"}
  /\ \A i \in DOMAIN stack : /\ stack[i].op \in {"collect", "finish"}
                             /\ stack[i].task \in Tasks
                             /\ stack[i].from \in Tasks \cup {NoTask}
  /\ visiting \subseteq Tasks /\ completed \subseteq Tasks /\ visiting \cap completed = {}
  /\ rootPlan \in Seq(Tasks)

(***************************************************************************)
(* No task is collected while its own collection is going on, so that the  *)
(* recursion is never deeper than there are tasks.                         *)
(***************************************************************************)
NoTaskWithinItself ==
  \A j, k \in DOMAIN stack :
    stack[j].op = "finish" /\ stack[k].op = "finish" /\ stack[j].task = stack[k].task => j = k

Before(t) == ToSet(SubSeq(rootPlan, 1, t - 1))

(***************************************************************************)
(* A plan holds the root tasks the target reaches and no other, each once, *)
(* after every task it depends on, and all of those are root tasks of the  *)
(* plan too (root_task_plan's doc comment).  Before a task runs the task   *)
(* whose output its condition tests or its command substitutes.  The cycle *)
(* error is raised only for a task that depends on itself.                 *)
(***************************************************************************)
PlanIsOrderedClosure ==
  /\ \A i \in DOMAIN rootPlan :
       LET t == rootPlan[i]
       IN  /\ t \notin Before(i)
           /\ DependsOn(t) \subseteq Before(i)
           /\ conf.references[t] \cup ({conf.condition[t]} \ {NoTask})
                \subseteq Before(i) \cap conf.produces
  /\ pc = "planned" /\ completed # {} =>
       ToSet(rootPlan) = conf.root \cap ({Target} \cup TransitiveDependencies(Target))
  /\ pc = "cycle" => Head(stack).task \in TransitiveDependencies(Head(stack).task)

=============================================================================

---------------------------- MODULE TaskPlanner -----------------------------
(***************************************************************************)
(* materialize_task_plan (graph.rs): from the packages that ask for a task *)
(* to the task nodes that will run and what each of them waits for.        *)
(*                                                                         *)
(* collect_task_nodes and the functions it calls are mutually recursive    *)
(* and share three mutable sets, so what is included depends on the order  *)
(* of the calls.  The recursion is a stack of calls still to be made: a    *)
(* step takes the top call and replaces it by the calls it makes, in the   *)
(* order it makes them.  A set a call gets as &mut is a variable, or, as   *)
(* visited_native, an element of one, which the call names.                *)
(***************************************************************************)
EXTENDS Workspace

CONSTANTS
  Inputs,     \* pairs <<workspace, scope>> a plan may be asked for
  Target,     \* the task asked for
  NoScope     \* the scope of a run of the whole workspace

ASSUME InputsAssumption ==
  \A i \in Inputs : IsWorkspace(i[1]) /\ (i[2] = NoScope \/ i[2] \subseteq Packages)
ASSUME TargetAssumption == Target \in Tasks
ASSUME OrderAssumption  == Packages \subseteq Nat /\ IsFiniteSet(Packages)
ASSUME FiniteTasks      == IsFiniteSet(Tasks)

VARIABLES
  ws, scope,       \* the workspace, and the affected packages, if asked for
  pc,              \* "collect" or "planned"
  stack,           \* the calls still to be made, the next one first
  visited,         \* the visited_native set of each native walk
  included,        \* the task nodes of the plan
  restricted,      \* those last reached by ecosystem_depends_on
  expanded,        \* nodes whose calls were made: TRUE if as an entrypoint
  prerequisites    \* what each included node waits for

vars == <<ws, scope, pc, stack, visited, included, restricted, expanded, prerequisites>>

Nodes   == Packages \X Tasks

CollectCall(p, t, why) == [op |-> "collect", pkg |-> p, task |-> t, reason |-> why]
AimCall(p, d)          == [op |-> "aim",     pkg |-> p, ecosystem |-> d[1], task |-> d[2]]
BridgeCall(p, q, t)    == [op |-> "bridge",  pkg |-> p, to |-> q, task |-> t]
WalkCall(p, t, w)      == [op |-> "walk",    pkg |-> p, task |-> t, walk |-> w]

-----------------------------------------------------------------------------

(***************************************************************************)
(* The packages a plan starts from: the affected ones that take part, or   *)
(* else those that opt in, or else, if none does, all that autoapply.      *)
(***************************************************************************)
Seeds(w, sc) ==
  LET opted == {p \in Packages : <<p, Target>> \in w.optsIn}
  IN  IF sc # NoScope
      THEN {p \in sc : Participates(w, p, Target)}
      ELSE IF opted # {} THEN opted
      ELSE {p \in Packages : SeedsAll(w, p, Target)}

(***************************************************************************)
(* The numbers of S in increasing order, as a BTreeSet iterates.           *)
(***************************************************************************)
InOrder(S) ==
  [i \in 1 .. Cardinality(S) |-> CHOOSE x \in S : Cardinality({y \in S : y < x}) = i - 1]

Map(s, Op(_)) == [i \in DOMAIN s |-> Op(s[i])]

(***************************************************************************)
(* collect_task_dependency_nodes: the tasks t depends on, on p itself;     *)
(* then, for each task it asks of another ecosystem, a turn of the loop    *)
(* over the packages of that ecosystem.                                    *)
(***************************************************************************)
DependencyCalls(p, t) ==
  LET OnPackage(u) == CollectCall(p, u, "dependency")
      OnTargets(d) == AimCall(p, d)
  IN  Map(ws.dependsOn[t], OnPackage)
        \o Map(ws.targeted[t][ws.ecosystem[p]], OnTargets)

BridgeCalls(p, t) ==
  LET OnTarget(q) == BridgeCall(p, q, t)
  IN  Map(ws.bridges[p], OnTarget)

FirstWalkCall(p, t) == WalkCall(p, t, Len(visited) + 1)

\* Faulty: a task that cascades natively does not cross bridges.
SpreadCallsNative(p, t) ==
  LET OnNative(q) == CollectCall(q, t, "native")
  IN  IF CascadesNatively(ws, t) THEN Map(ws.native[p], OnNative) ELSE <<FirstWalkCall(p, t)>>

(***************************************************************************)
(* collect_propagated_task_nodes, or collect_bridged_task_nodes with a new *)
(* visited set.                                                            *)
(***************************************************************************)
SpreadCalls(p, t) ==
  LET OnNative(q) == CollectCall(q, t, "native")
  IN  IF CascadesNatively(ws, t)
      THEN Map(ws.native[p], OnNative) \o BridgeCalls(p, t)
      ELSE <<FirstWalkCall(p, t)>>

\* Faulty: an aimed node spreads as any other.
CallsSpreading(p, t, why) == DependencyCalls(p, t) \o SpreadCalls(p, t)

\* Faulty: an aimed node returns before its dependencies.
CallsReturning(p, t, why) ==
  IF why = "targeted" THEN <<>> ELSE DependencyCalls(p, t) \o SpreadCalls(p, t)

Calls(p, t, why) ==
  DependencyCalls(p, t) \o (IF why = "targeted" THEN <<>> ELSE SpreadCalls(p, t))

\* Faulty: a task waits for the whole native walk, its start included.
TaskPrerequisitesWalked(w, p, t, cut) ==
  {<<p, u>> : u \in ToSet(w.dependsOn[t])}
  \cup IF ~ cut /\ CascadesNatively(w, t) THEN {<<q, t>> : q \in NativeClosure(w, p)} ELSE {}

(***************************************************************************)
(* task_prerequisites: the dependencies of a node, those of an included    *)
(* node that was last reached by ecosystem_depends_on cut to the task      *)
(* level.                                                                  *)
(***************************************************************************)
TaskPrerequisites(w, p, t, cut) ==
  {<<p, u>> : u \in ToSet(w.dependsOn[t])}
  \cup (UNION {{<<q, d[2]>> : q \in ReachableMatching(w, p, d[1])} :
                 d \in ToSet(w.targeted[t][w.ecosystem[p]])})
  \cup IF cut THEN {}
       ELSE IF CascadesNatively(w, t)
       THEN {<<q, t>> : q \in Native(w, p)}
              \cup {<<q, t>> : q \in {b \in Bridged(w, p) : Propagates(w, p, b, t)}}
       ELSE IF CascadesAcross(w, t)
       THEN UNION {{<<q, t>> : q \in {b \in Bridged(w, s) : Propagates(w, s, b, t)}} :
                     s \in NativeClosure(w, p)}
       ELSE {}

-----------------------------------------------------------------------------

InScope(sc, S) == IF sc = NoScope THEN S ELSE {n \in S : n[1] \in sc}

Init ==
  /\ \E i \in Inputs : ws = i[1] /\ scope = i[2]
  /\ pc = "collect"
  /\ LET Entry(p) == CollectCall(p, Target, "entrypoint")
     IN  stack = Map(InOrder(Seeds(ws, scope)), Entry)
  /\ visited = <<>>
  /\ included = {} /\ restricted = {}
  /\ expanded = <<>>
  /\ prerequisites = <<>>

Next1(op) == pc = "collect" /\ stack # <<>> /\ Head(stack).op = op

(***************************************************************************)
(* collect_task_nodes, when the package may not receive the task that way. *)
(***************************************************************************)
CollectExcluded ==
  /\ Next1("collect")
  /\ LET c == Head(stack) IN ~ ShouldInclude(ws, c.pkg, c.task, c.reason)
  /\ stack' = Tail(stack)
  /\ UNCHANGED <<ws, scope, pc, visited, included, restricted, expanded, prerequisites>>

(***************************************************************************)
(* restricted follows the latest reason, whatever was decided before.      *)
(***************************************************************************)
Mark(n, why) ==
  restricted' = IF why = "targeted" THEN restricted \cup {n} ELSE restricted \ {n}

ExpandedAsEntry(n) == n \in DOMAIN expanded /\ expanded[n]

(***************************************************************************)
(* An included node is expanded again only as an entrypoint, and once.     *)
(***************************************************************************)
AlreadyCollected(n, why) ==
  n \in included /\ (ExpandedAsEntry(n) \/ why # "entrypoint")

CollectKnown ==
  /\ Next1("collect")
  /\ LET c == Head(stack)
         n == <<c.pkg, c.task>>
     IN  /\ ShouldInclude(ws, c.pkg, c.task, c.reason)
         /\ AlreadyCollected(n, c.reason)
         /\ Mark(n, c.reason)
  /\ stack' = Tail(stack)
  /\ UNCHANGED <<ws, scope, pc, visited, included, expanded, prerequisites>>

CollectExpand ==
  /\ Next1("collect")
  /\ LET c == Head(stack)
         n == <<c.pkg, c.task>>
         entry == c.reason = "entrypoint" \/ ExpandedAsEntry(n)
     IN  /\ ShouldInclude(ws, c.pkg, c.task, c.reason)
         /\ ~ AlreadyCollected(n, c.reason)
         /\ Mark(n, c.reason)
         /\ included' = included \cup {n}
         /\ expanded' = [m \in DOMAIN expanded \cup {n} |->
                           IF m = n THEN entry ELSE expanded[m]]
         /\ LET calls == Calls(c.pkg, c.task, c.reason)
            IN  /\ stack' = calls \o Tail(stack)
                /\ visited' = IF FirstWalkCall(c.pkg, c.task) \in ToSet(calls)
                              THEN Append(visited, {}) ELSE visited
  /\ UNCHANGED <<ws, scope, pc, prerequisites>>

(***************************************************************************)
(* One turn of the loop over ecosystem_task_dependencies.                  *)
(***************************************************************************)
CollectAimed ==
  /\ Next1("aim")
  /\ LET c == Head(stack)
         OnTarget(q) == CollectCall(q, c.task, "targeted")
     IN  stack' = Map(InOrder(ReachableMatching(ws, c.pkg, c.ecosystem)), OnTarget)
                    \o Tail(stack)
  /\ UNCHANGED <<ws, scope, pc, visited, included, restricted, expanded, prerequisites>>

(***************************************************************************)
(* collect_bridge_target_task.  Its last test (the target takes no part in *)
(* the task: an error) can never succeed after the two before it.          *)
(***************************************************************************)
Crosses(w, p, q, t) ==
  /\ Propagates(w, p, q, t)
  /\ \/ <<q, t>> \in w.optsIn
     \/ CanInherit(w, q, t) /\ CascadesAcross(w, t)

CollectBridge ==
  /\ Next1("bridge")
  /\ LET c == Head(stack)
         calls == IF Crosses(ws, c.pkg, c.to, c.task)
                  THEN <<CollectCall(c.to, c.task, "bridge")>> ELSE <<>>
     IN  stack' = calls \o Tail(stack)
  /\ UNCHANGED <<ws, scope, pc, visited, included, restricted, expanded, prerequisites>>

(***************************************************************************)
(* collect_bridged_task_nodes: dependencies first, then the bridges.       *)
(***************************************************************************)
WalkVisited ==
  /\ Next1("walk")
  /\ Head(stack).pkg \in visited[Head(stack).walk]
  /\ stack' = Tail(stack)
  /\ UNCHANGED <<ws, scope, pc, visited, included, restricted, expanded, prerequisites>>

\* Faulty: a package is remembered only if it has bridges to look at.
WalkPackageForgetting ==
  /\ Next1("walk")
  /\ LET c == Head(stack)
         OnNative(q) == WalkCall(q, c.task, c.walk)
     IN  /\ c.pkg \notin visited[c.walk]
         /\ visited' = IF ws.bridges[c.pkg] = <<>> THEN visited
                       ELSE [visited EXCEPT ![c.walk] = @ \cup {c.pkg}]
         /\ stack' = Map(ws.native[c.pkg], OnNative) \o BridgeCalls(c.pkg, c.task)
                        \o Tail(stack)
  /\ UNCHANGED <<ws, scope, pc, included, restricted, expanded, prerequisites>>

WalkPackage ==
  /\ Next1("walk")
  /\ LET c == Head(stack)
         OnNative(q) == WalkCall(q, c.task, c.walk)
     IN  /\ c.pkg \notin visited[c.walk]
         /\ visited' = [visited EXCEPT ![c.walk] = @ \cup {c.pkg}]
         /\ stack' = Map(ws.native[c.pkg], OnNative) \o BridgeCalls(c.pkg, c.task)
                        \o Tail(stack)
  /\ UNCHANGED <<ws, scope, pc, included, restricted, expanded, prerequisites>>

(***************************************************************************)
(* The rest of materialize_task_plan: the plan is cut to the scope, and    *)
(* every node kept waits for those of its prerequisites that were kept.    *)
(***************************************************************************)
Materialize ==
  /\ pc = "collect" /\ stack = <<>>
  /\ included' = InScope(scope, included)
  /\ restricted' = restricted \cap included'
  /\ prerequisites' = [n \in included' |->
       TaskPrerequisites(ws, n[1], n[2], n \in restricted') \cap included']
  /\ pc' = "planned"
  /\ UNCHANGED <<ws, scope, stack, visited, expanded>>

Step ==
  \/ CollectExcluded \/ CollectKnown \/ CollectExpand
  \/ CollectAimed \/ CollectBridge \/ WalkVisited \/ WalkPackage
  \/ Materialize

Planned == pc = "planned" /\ UNCHANGED vars

Next == Step \/ Planned

Spec     == Init /\ [][Next]_vars
FairSpec == Spec /\ WF_vars(Step)

-----------------------------------------------------------------------------

CallsMade ==
  [op : {"collect"}, pkg : Packages, task : Tasks,
   reason : {"entrypoint", "native", "bridge", "dependency", "targeted"}]
  \cup [op : {"aim"}, pkg : Packages, ecosystem : Ecosystems, task : Tasks]
  \cup [op : {"bridge"}, pkg : Packages, to : Packages, task : Tasks]
  \cup [op : {"walk"}, pkg : Packages, task : Tasks, walk : Nat]

TypeOK ==
  /\ IsWorkspace(ws) /\ (scope = NoScope \/ scope \subseteq Packages)
  /\ pc \in {"collect", "planned"}
  /\ stack \in Seq(CallsMade)
  /\ \A i \in DOMAIN stack : stack[i].op = "walk" => stack[i].walk \in DOMAIN visited
  /\ visited \in Seq(SUBSET Packages)
  /\ included \in SUBSET Nodes
  /\ restricted \in SUBSET included
  /\ DOMAIN expanded \subseteq Nodes
  /\ pc = "planned" => DOMAIN prerequisites = included

(***************************************************************************)
(* What the documentation says a plan holds, as a least fixed point that   *)
(* does not depend on any order: "full" nodes spread their task across     *)
(* bridges and natively as the task's cascade says, "aimed" nodes were     *)
(* named by ecosystem_depends_on and do not; both pull in the tasks their  *)
(* own task depends on.                                                    *)
(***************************************************************************)
SpreadTargets(w, n) ==
  LET p == n[1]
      t == n[2]
      Across(s) == {q \in Bridged(w, s) : Propagates(w, s, q, t)}
  IN  IF CascadesNatively(w, t)
      THEN {<<q, t>> : q \in {r \in Native(w, p) : ShouldInclude(w, r, t, "native")}}
             \cup {<<q, t>> : q \in {r \in Across(p) : ShouldInclude(w, r, t, "bridge")}}
      ELSE UNION {{<<q, t>> : q \in {r \in Across(s) : ShouldInclude(w, r, t, "bridge")}} :
                    s \in NativeClosure(w, p)}

DependencyTargets(w, n) ==
  {<<n[1], u>> : u \in {v \in ToSet(w.dependsOn[n[2]]) :
                          ShouldInclude(w, n[1], v, "dependency")}}

AimedTargets(w, n) ==
  UNION {{<<q, d[2]>> : q \in {r \in ReachableMatching(w, n[1], d[1]) :
                                 ShouldInclude(w, r, d[2], "targeted")}} :
           d \in ToSet(w.targeted[n[2]][w.ecosystem[n[1]]])}

Grown(w, c) ==
  LET all == c.full \cup c.aimed
  IN  [full  |-> c.full \cup (UNION {SpreadTargets(w, n) : n \in c.full})
                        \cup (UNION {DependencyTargets(w, n) : n \in all}),
       aimed |-> c.aimed \cup UNION {AimedTargets(w, n) : n \in all}]

Start(w, sc) == [full |-> {<<p, Target>> : p \in Seeds(w, sc)}, aimed |-> {}]

\* What the policies ask for within so many steps of the start, and in any number.
Within(w, sc) ==
  LET within[k \in Nat] == IF k = 0 THEN Start(w, sc) ELSE Grown(w, within[k - 1])
  IN  within

Closure(w, sc) ==
  LET all == Within(w, sc)[2 * Cardinality(Nodes)]
  IN  all.full \cup all.aimed

(***************************************************************************)
(* Nothing runs that the policies did not ask for: every node of a plan    *)
(* has a chain of allowed reasons from a package the plan starts from, and *)
(* in an affected run its package is affected.                             *)
(***************************************************************************)
PlanIsSound == pc = "planned" => included \subseteq InScope(scope, Closure(ws, scope))

(***************************************************************************)
(* A plan holds everything the policies ask for, whatever the order in     *)
(* which packages and dependencies are met: "all: the task also runs on    *)
(* same-ecosystem dependencies and their dependencies" (README.md:920).    *)
(***************************************************************************)
PlanIsComplete == pc = "planned" => InScope(scope, Closure(ws, scope)) \subseteq included

(***************************************************************************)
(* Wherever a task is planned, for whatever reason, the tasks it depends   *)
(* on are planned there too if the package may receive them, and it waits  *)
(* for them; likewise for the tasks it asks of another ecosystem.          *)
(***************************************************************************)
DependenciesPlanned ==
  pc = "planned" =>
    \A n \in included :
      InScope(scope, DependencyTargets(ws, n) \cup AimedTargets(ws, n))
        \subseteq prerequisites[n]

(***************************************************************************)
(* Of two planned packages one of which natively depends on the other, the *)
(* dependency runs a cascading task first: "c:publish, b:publish,          *)
(* a:publish" (README.md:1216).                                            *)
(***************************************************************************)
NativeOrderKept ==
  pc = "planned" =>
    \A n \in included : CascadesNatively(ws, n[2]) =>
      \A q \in Native(ws, n[1]) :
        <<q, n[2]>> \in included => <<q, n[2]>> \in prerequisites[n]

(***************************************************************************)
(* A circle in a plan comes from the configuration: if no task depends on  *)
(* itself through other tasks and no package through its dependencies and  *)
(* bridges, no set of planned nodes waits in a circle, and the priority    *)
(* schedule of the plan does not fail.                                     *)
(***************************************************************************)
Circular(S, Succ(_)) == S # {} /\ \A x \in S : Succ(x) \cap S # {}

PackagesAcyclic ==
  LET Succ(p) == Successors(ws, p)
  IN  \A S \in SUBSET Packages : ~ Circular(S, Succ)

TasksAcyclic ==
  LET Named(t) == {d[2] : d \in UNION {ToSet(ws.targeted[t][e]) : e \in Ecosystems}}
      Succ(t)  == ToSet(ws.dependsOn[t]) \cup (Named(t) \ {t})
  IN  \A S \in SUBSET Tasks : ~ Circular(S, Succ)

PlanIsAcyclic ==
  pc = "planned" /\ PackagesAcyclic /\ TasksAcyclic =>
    LET Succ(n) == prerequisites[n]
    IN  \A S \in SUBSET included : ~ Circular(S, Succ)

(***************************************************************************)
(* "cascade = none means the task never spreads to other packages, even    *)
(* across bridges" (README.md:1267): such a task is planned only where it  *)
(* was opted into, or where the plan starts.                               *)
(***************************************************************************)
CascadeNoneStays ==
  pc = "planned" =>
    \A n \in included : ws.cascade[n[2]] = "none" =>
      n \in ws.optsIn \/ (n[1] \in Seeds(ws, scope) /\ n[2] = Target)

(***************************************************************************)
(* Without ecosystem_depends_on the three promises hold in every           *)
(* workspace: everything the policies ask for is planned, whatever the     *)
(* order of the calls; dependencies come first; and a task that does not   *)
(* cascade stays where it was opted into.                                  *)
(***************************************************************************)
UnaskedPlanKeepsPromises ==
  (\A t \in Tasks, e \in Ecosystems : ws.targeted[t][e] = <<>>) =>
    PlanIsComplete /\ NativeOrderKept /\ CascadeNoneStays

(***************************************************************************)
(* Planning returns, cycles of native dependencies and bridges included.   *)
(***************************************************************************)
PlanningTerminates == <>(pc = "planned")

=============================================================================

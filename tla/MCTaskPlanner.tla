--------------------------- MODULE MCTaskPlanner ----------------------------
(***************************************************************************)
(* Instances of TaskPlanner: two Cargo packages, 1 and 2, and one          *)
(* JavaScript package, 3 (PackageId order puts Cargo first).  The task     *)
(* asked for is build; gen is a task it may depend on.                     *)
(***************************************************************************)
EXTENDS TaskPlanner

MCPackages   == 1 .. 3
MCTasks      == {"build", "gen"}
MCEcosystems == {"cargo", "js"}
TwoCargo     == [p \in MCPackages |-> IF p = 3 THEN "js" ELSE "cargo"]

(***************************************************************************)
(* Package graphs, as sets of edges: native ones between the two Cargo     *)
(* packages, bridges between Cargo and JavaScript.                         *)
(***************************************************************************)
NativeEdges == {<<1, 2>>, <<2, 1>>}
BridgeEdges == {<<1, 3>>, <<3, 1>>, <<3, 2>>}

Edges(E)  == [p \in Packages |-> InOrder({q \in Packages : <<p, q>> \in E})]
Graphs(E) == {Edges(F) : F \in SUBSET E}

NoTargets == [e \in MCEcosystems |-> <<>>]

WorkspaceOf(ecosystem, native, bridges, opts, auto, casc, deps, targets) ==
  [ecosystem |-> ecosystem, native |-> native, bridges |-> bridges,
   optsIn    |-> opts,
   commands  |-> (MCEcosystems \X MCTasks),
   autoapply |-> [t \in MCTasks |-> auto[t]],
   cascade   |-> [t \in MCTasks |-> casc[t]],
   dependsOn |-> [t \in MCTasks |-> IF t = "build" THEN deps ELSE <<>>],
   targeted  |-> [t \in MCTasks |-> IF t = "build" THEN targets ELSE NoTargets]]

OptIns(G) == {{<<p, "build">> : p \in B} \cup {<<p, "gen">> : p \in G} :
                B \in SUBSET MCPackages}

Inherit  == [t \in MCTasks |-> "inherit"]
BuildAll == [build |-> "all", gen |-> "none"]

(***************************************************************************)
(* No ecosystem_depends_on: every graph, every opt-in to build, in         *)
(* workspaces where packages inherit both tasks and where every package    *)
(* builds and one has opted into gen; build depends on gen, or does not.   *)
(***************************************************************************)
UntargetedWith(auto, G) ==
  {<<WorkspaceOf(TwoCargo, n, b, o, auto, c, <<"gen">>, NoTargets), NoScope>> :
     n \in Graphs(NativeEdges), b \in Graphs(BridgeEdges), o \in OptIns(G),
     c \in [build : {"bridge-only", "all"}, gen : {"none", "bridge-only", "all"}]}
  \cup
  {<<WorkspaceOf(TwoCargo, n, b, o, auto, c, <<>>, NoTargets), NoScope>> :
     n \in Graphs(NativeEdges), b \in Graphs(BridgeEdges), o \in OptIns(G),
     c \in [build : {"bridge-only", "all"}, gen : {"none"}]}

Untargeted == UntargetedWith(Inherit, {}) \cup UntargetedWith(BuildAll, {1})

(***************************************************************************)
(* build on a JavaScript package asks its reachable Cargo packages for     *)
(* build, or for gen, which does not cascade but Cargo package 1 opted     *)
(* into it, or cascades across bridges; in the whole workspace or in a     *)
(* scope.                                                                  *)
(***************************************************************************)
Asks(from, to, t) == [e \in MCEcosystems |-> IF e = from THEN << <<to, t>> >> ELSE <<>>]

TargetedWith(G, gen) ==
  {<<WorkspaceOf(TwoCargo, n, b, o, Inherit, [build |-> c, gen |-> gen], <<"gen">>,
                 Asks("js", "cargo", t)), sc>> :
     n \in Graphs(NativeEdges), b \in Graphs(BridgeEdges), o \in OptIns(G),
     c \in {"bridge-only", "all"}, t \in MCTasks, sc \in {NoScope, {1, 3}}}

(***************************************************************************)
(* build on Cargo package 1 asks JavaScript package 2 for build, which has *)
(* native dependencies.                                                    *)
(***************************************************************************)
AskedNatively ==
  {<<WorkspaceOf([TwoCargo EXCEPT ![2] = "js"], n, Edges({<<1, 2>>}), o, Inherit,
                 [t \in MCTasks |-> "all"], <<>>, Asks("cargo", "js", "build")), NoScope>> :
     n \in Graphs({<<2, 3>>, <<3, 2>>}), o \in OptIns({})}

Targeted == TargetedWith({1}, "none") \cup TargetedWith({}, "bridge-only") \cup AskedNatively

TargetedOrNot == Untargeted \cup Targeted

=============================================================================

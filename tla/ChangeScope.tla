----------------------------- MODULE ChangeScope ----------------------------
(***************************************************************************)
(* Which packages a change concerns (main.rs: affected, select, and the    *)
(* scope of plan and run; graph.rs: affected_packages, select_packages,    *)
(* topological_order; git.rs: get_changed_files).                          *)
(*                                                                         *)
(* `base` is the tree of the merge base and `head` that of the commit that *)
(* is checked out; the workspace is discovered in `head` alone.            *)
(***************************************************************************)
EXTENDS Discovery

CONSTANTS
  Histories,    \* what may be compared: records of base, head and ignore patterns
  Selections,   \* the package selections of flux.toml
  NoSelection   \* none is asked for

VARIABLES
  history,      \* one of the histories
  command,      \* "affected" prints the packages in order; "scope" is what plan,
                \* run and select compute; "selected" the same without a base
  selection,    \* the selection asked for
  pc,           \* where the command is; "done", "cycle" or "failed" at the end
  packages,     \* the packages discovered
  graph,        \* the packages by id
  selected,     \* the packages select_packages has taken
  changed,      \* the changed paths
  affected,     \* the packages found affected
  pending,      \* packages whose neighbours were not looked at
  hasChanges,   \* whether root tasks run
  indegree,     \* native dependencies not printed yet
  queue,        \* packages with none
  ordered,      \* the packages in native order
  printed       \* the affected ones of them, in the order they are printed

inputVars == <<history, command, selection>>
scopeVars == <<selected, changed, affected, pending, hasChanges>>
orderVars == <<indegree, queue, ordered, printed>>
vars      == <<inputVars, pc, packages, graph, scopeVars, orderVars>>

\* A tree of files: no file is a directory of another.
ASSUME HistoriesAssumption ==
  \A h \in Histories : \A tree \in {h.base, h.head} :
    /\ IsFiniteSet(DOMAIN tree) /\ DOMAIN tree \subseteq Seq(STRING) \ {<<>>}
    /\ \A f, g \in DOMAIN tree : IsPrefix(f, g) => f = g

Ids == DOMAIN graph

At(p) == pc = p
Go(p) == pc' = p

-----------------------------------------------------------------------------

(***************************************************************************)
(* Every command begins with discovery, which only reads.                  *)
(***************************************************************************)
Init ==
  /\ history \in Histories
  /\ \/ command = "affected" /\ selection = NoSelection
     \/ command = "scope" /\ selection \in Selections \cup {NoSelection}
     \/ command = "selected" /\ selection \in Selections
  /\ pc = IF DiscoveryFails(history.head) THEN "failed" ELSE "discovered"
  /\ packages = Discovered(history.head)
  /\ graph = <<>>
  /\ selected = {} /\ changed = {} /\ affected = {} /\ pending = {}
  /\ hasChanges = FALSE
  /\ indegree = <<>> /\ queue = <<>> /\ ordered = <<>> /\ printed = <<>>

BuildGraph ==
  /\ At("discovered")
  /\ graph' \in Graphs(packages)
  /\ Go(IF selection = NoSelection THEN "diff" ELSE "roots")
  /\ UNCHANGED <<inputVars, packages, scopeVars, orderVars>>

(***************************************************************************)
(* select_packages: the roots, then whatever they need.                    *)
(***************************************************************************)
SelectRoots ==
  /\ At("roots")
  /\ IF \E b \in selection.roots : ~ Resolves(graph, b)
     THEN Go("failed") /\ UNCHANGED pending
     ELSE /\ pending' = {BridgeTarget(graph, b) : b \in selection.roots}
                        \cup {id \in Ids : \/ selection.all
                                           \/ selection.publishable /\ graph[id].publishable}
          /\ Go("select")
  /\ UNCHANGED <<inputVars, packages, graph, selected, changed, affected, hasChanges, orderVars>>

\* Faulty: development dependencies are followed like the others.
NeedsWithTests(id) ==
  (IF selection.dependencies THEN graph[id].internal \cup graph[id].development ELSE {})
  \cup (IF selection.bridges THEN {BridgeTarget(graph, b) : b \in graph[id].bridges} ELSE {})

Needs(id) ==
  (IF selection.dependencies THEN graph[id].internal ELSE {})
  \cup (IF selection.bridges THEN {BridgeTarget(graph, b) : b \in graph[id].bridges} ELSE {})

\* Faulty: what was seen before is looked at again.
UnseenForgotten(ids, seen) == ids

Unseen(ids, seen) == ids \ seen

Select ==
  /\ At("select")
  /\ \E id \in pending :
       IF selection.bridges /\ \E b \in graph[id].bridges : ~ Resolves(graph, b)
       THEN Go("failed") /\ UNCHANGED <<selected, pending>>
       ELSE /\ selected' = selected \cup {id}
            /\ pending' = (pending \ {id}) \cup Unseen(Needs(id), selected')
            /\ UNCHANGED pc
  /\ UNCHANGED <<inputVars, packages, graph, changed, affected, hasChanges, orderVars>>

EndSelect ==
  /\ At("select") /\ pending = {}
  /\ IF command = "selected"
     THEN affected' = selected /\ hasChanges' = (selected # {}) /\ Go("done")
     ELSE Go("diff") /\ UNCHANGED <<affected, hasChanges>>
  /\ UNCHANGED <<inputVars, packages, graph, selected, changed, pending, orderVars>>

-----------------------------------------------------------------------------

(***************************************************************************)
(* get_changed_files: both paths of a file that was moved.                 *)
(***************************************************************************)
ChangedFiles(base, head) ==
  {f \in DOMAIN base \cup DOMAIN head :
     \/ f \notin DOMAIN base \/ f \notin DOMAIN head
     \/ base[f] # head[f]}

(***************************************************************************)
(* affected_paths: what is ignored is no change.  In these patterns "*"    *)
(* stands for whatever follows, across directories; here it comes last.    *)
(***************************************************************************)
Covers(pattern, path) ==
  path = pattern \/ (Last(pattern) = "*" /\ IsStrictPrefix(Front(pattern), path))

AffectedPaths(paths) == {f \in paths : ~ \E p \in history.ignore : Covers(p, f)}

Diff ==
  /\ At("diff")
  /\ \/ Go("failed") /\ UNCHANGED <<changed, hasChanges>>   \* git fails
     \/ /\ changed' = AffectedPaths(ChangedFiles(history.base, history.head))
        /\ hasChanges' = (changed' # {})
        /\ Go("own")
  /\ UNCHANGED <<inputVars, packages, graph, selected, affected, pending, orderVars>>

(***************************************************************************)
(* workspace_wide_change: the lock files and toolchains are one name here. *)
(***************************************************************************)
WorkspaceWide(path) ==
  path \in {<<"flux.toml">>, <<"lock">>, PnpmFile, <<".cargo", "config.toml">>}
           \cup {RootManifest(e) : e \in Ecosystems}

IsPackageManifest(path) == \E e \in Ecosystems : Last(path) = ManifestName[e]

RootPackageOwned(path) ==
  path = <<"build.rs">> \/ path[1] \in {"src", "tests", "benches", "examples"}

Directories == {Directory(graph[id].path) : id \in Ids}

Around(path) == {d \in Directories : Under(path, d)}

\* Faulty: a manifest is a file like any other.
ForEverybodyButManifests(path) ==
  \/ WorkspaceWide(path)
  \/ Around(path) = {}
  \/ Around(path) = {<<>>} /\ ~ RootPackageOwned(path)

(***************************************************************************)
(* What no package owns concerns all: the workspace's own files, the       *)
(* manifest of what is not a package (any more), a path outside every      *)
(* package, and what only a package at the root would own.                 *)
(***************************************************************************)
ForEverybody(path) ==
  \/ WorkspaceWide(path)
  \/ IsPackageManifest(path) /\ path \notin {graph[id].path : id \in Ids}
  \/ Around(path) = {}
  \/ Around(path) = {<<>>} /\ ~ RootPackageOwned(path)

(***************************************************************************)
(* The packages of the innermost directory; two manifests may share one.   *)
(***************************************************************************)
Owners(path) ==
  LET deepest == Max({Len(d) : d \in Around(path)})
  IN  {id \in Ids : Under(path, Directory(graph[id].path)) /\ Len(Directory(graph[id].path)) = deepest}

AssignOwners ==
  /\ At("own")
  /\ IF \E f \in changed : ForEverybody(f)
     THEN affected' = Ids /\ pending' = {} /\ Go("intersect")
     ELSE /\ affected' = UNION {Owners(f) : f \in changed} /\ pending' = affected'
          /\ IF changed = {} THEN Go("intersect")
             ELSE IF \E id \in Ids : \E b \in graph[id].bridges : ~ Resolves(graph, b)
             THEN Go("failed") ELSE Go("propagate")
  /\ UNCHANGED <<inputVars, packages, graph, selected, changed, hasChanges, orderVars>>

DependsOn(id) ==
  graph[id].internal \cup graph[id].development
  \cup {BridgeTarget(graph, b) : b \in graph[id].bridges}

\* Faulty: what is found affected is not followed further.
PropagateOnce ==
  /\ At("propagate")
  /\ \E id \in pending :
       LET found == Unseen({d \in Ids : id \in DependsOn(d)}, affected)
       IN  /\ affected' = affected \cup found
           /\ pending' = pending \ {id}
  /\ UNCHANGED <<inputVars, pc, packages, graph, selected, changed, hasChanges, orderVars>>

Propagate ==
  /\ At("propagate")
  /\ \E id \in pending :
       LET found == Unseen({d \in Ids : id \in DependsOn(d)}, affected)
       IN  /\ affected' = affected \cup found
           /\ pending' = (pending \ {id}) \cup found
  /\ UNCHANGED <<inputVars, pc, packages, graph, selected, changed, hasChanges, orderVars>>

EndPropagate ==
  /\ At("propagate") /\ pending = {}
  /\ Go("intersect")
  /\ UNCHANGED <<inputVars, packages, graph, scopeVars, orderVars>>

\* Faulty: test-only dependencies are waited for like the others.
DegreeWithTests(id) == Cardinality(graph[id].internal \cup graph[id].development)

NativeDegree(id) == Cardinality(graph[id].internal)

(***************************************************************************)
(* calculate_affected_scope: a selection narrows the scope, and one with   *)
(* nothing in it has no changes.                                           *)
(***************************************************************************)
RootTasks(scope) == hasChanges /\ (selection = NoSelection \/ scope # {})

Intersect ==
  /\ At("intersect")
  /\ affected' = IF selection = NoSelection THEN affected ELSE affected \cap selected
  /\ hasChanges' = RootTasks(affected')
  /\ IF command # "affected" THEN Go("done") /\ UNCHANGED orderVars
     ELSE /\ Go("order")
          /\ indegree' = [id \in Ids |-> NativeDegree(id)]
          /\ queue' = SetToSeq({id \in Ids : NativeDegree(id) = 0})
          /\ UNCHANGED <<ordered, printed>>
  /\ UNCHANGED <<inputVars, packages, graph, selected, changed, pending>>

-----------------------------------------------------------------------------

(***************************************************************************)
(* topological_order: a package comes when all it needs came.  Which of    *)
(* several free packages comes first is left to SetToSeq.                  *)
(***************************************************************************)
OrderPackage ==
  /\ At("order") /\ queue # <<>>
  /\ LET id   == Head(queue)
         next == {d \in Ids : id \in graph[d].internal}
     IN  /\ ordered' = Append(ordered, id)
         /\ indegree' = [d \in Ids |-> IF d \in next THEN indegree[d] - 1 ELSE indegree[d]]
         /\ queue' = Tail(queue) \o SetToSeq({d \in next : indegree'[d] = 0})
  /\ UNCHANGED <<inputVars, pc, packages, graph, scopeVars, printed>>

EndOrder ==
  /\ At("order") /\ queue = <<>>
  /\ Go(IF Len(ordered) # Cardinality(Ids) THEN "cycle" ELSE "print")
  /\ UNCHANGED <<inputVars, packages, graph, scopeVars, orderVars>>

(***************************************************************************)
(* affected_in_native_order: the packages in order, the others left out.   *)
(***************************************************************************)
PrintAffected ==
  /\ At("print") /\ ordered # <<>>
  /\ printed' = IF Head(ordered) \in affected THEN Append(printed, Head(ordered)) ELSE printed
  /\ ordered' = Tail(ordered)
  /\ UNCHANGED <<inputVars, pc, packages, graph, scopeVars, indegree, queue>>

EndPrint ==
  /\ At("print") /\ ordered = <<>>
  /\ Go("done")
  /\ UNCHANGED <<inputVars, packages, graph, scopeVars, orderVars>>

Work ==
  \/ BuildGraph \/ SelectRoots \/ Select \/ EndSelect
  \/ Diff \/ AssignOwners \/ Propagate \/ EndPropagate \/ Intersect
  \/ OrderPackage \/ EndOrder \/ PrintAffected \/ EndPrint

Ended == pc \in {"done", "cycle", "failed"}

Spec == Init /\ [][Work \/ (Ended /\ UNCHANGED vars)]_vars /\ WF_vars(Work)

-----------------------------------------------------------------------------

(***************************************************************************)
(* Those of ids that depend on a member of S, themselves or through        *)
(* others: the least set around S that is closed under `deps`.             *)
(***************************************************************************)
ConsumersOf(S, ids, deps) ==
  {c \in ids : \A C \in SUBSET ids :
     S \subseteq C /\ (\A d \in ids : deps[d] \cap C # {} => d \in C) => c \in C}

Compared == pc = "done" /\ command # "selected"

(***************************************************************************)
(* Unless a changed path concerns all, exactly the owners of the changed   *)
(* paths and their consumers, test-only ones included, are affected        *)
(* (README.md:201), of which a selection keeps its own.                    *)
(***************************************************************************)
AffectedIsExact ==
  Compared =>
    LET owners == UNION {Owners(f) : f \in changed}
        all    == IF \E f \in changed : ForEverybody(f) THEN Ids
                  ELSE IF changed = {} THEN {}
                  ELSE ConsumersOf(owners, Ids, [id \in Ids |-> DependsOn(id)])
    IN  affected = IF selection = NoSelection THEN all ELSE all \cap selected

(***************************************************************************)
(* No package is left out whose inputs changed: a changed path that        *)
(* belonged to a package, at the merge base or now, concerns whoever       *)
(* depended or depends on that package, though the graph is that of the    *)
(* head alone.  Assumed: no manifest was given another name, none shares   *)
(* its name, no package has come between a path and its owner, no manifest *)
(* is ignored, and of those that changed none but the root's describes a   *)
(* Cargo workspace.                                                        *)
(***************************************************************************)
NamesKept ==
  LET before == Discovered(history.base)
      now    == Discovered(history.head)
  IN  /\ \A p \in before, q \in now : p.path = q.path => p.id = q.id
      /\ \A p, q \in before \cup now : p.id = q.id => p.path = q.path

OwnersKept ==
  \A f \in changed \cap DOMAIN history.base :
    Around(f) \subseteq {Directory(p.path) : p \in Discovered(history.base)}

ManifestsSeen ==
  \A f \in ChangedFiles(history.base, history.head) :
    WorkspaceWide(f) \/ IsPackageManifest(f) => f \in changed

WorkspacesKept ==
  \A tree \in {history.base, history.head} : \A f \in changed \cap DOMAIN tree :
    Last(f) = ManifestName["cargo"] /\ f # RootManifest("cargo") =>
      tree[f].workspace = NoWorkspace

MissesNoChange ==
  Compared =>
    \A tree \in {history.base, history.head} :
      \A g \in Graphs(Discovered(tree)) :
        LET other == {history.base, history.head} \ {tree}
            deps  == [id \in DOMAIN g |->
                       g[id].internal \cup g[id].development
                       \cup {BridgeTarget(g, b) : b \in {b \in g[id].bridges : Resolves(g, b)}}]
            Own(f) == {id \in DOMAIN g :
                        /\ Under(f, Directory(g[id].path))
                        /\ \A o \in DOMAIN g : Under(f, Directory(g[o].path)) =>
                             Len(Directory(g[o].path)) <= Len(Directory(g[id].path))}
        IN  \A f \in AffectedPaths(DOMAIN tree) :
              (\E o \in other : f \notin DOMAIN o \/ o[f] # tree[f]) =>
              ConsumersOf(Own(f), DOMAIN g, deps) \cap Ids \subseteq
                affected \cup (IF selection = NoSelection THEN {} ELSE Ids \ selected)

NoChangeMissed ==
  Compared /\ NamesKept /\ OwnersKept /\ ManifestsSeen /\ WorkspacesKept => MissesNoChange

(***************************************************************************)
(* A selection is what its roots need, and nothing else: no test-only      *)
(* dependency (README.md:252), and no package reached twice is a loop.     *)
(***************************************************************************)
SelectionIsClosure ==
  At("done") /\ selection # NoSelection =>
    LET roots == {BridgeTarget(graph, b) : b \in selection.roots}
                 \cup {id \in Ids : \/ selection.all
                                    \/ selection.publishable /\ graph[id].publishable}
        direct == [id \in Ids |->
          {d \in Ids : \/ selection.dependencies /\ id \in graph[d].internal
                       \/ selection.bridges /\ \E b \in graph[d].bridges : BridgeMatches(graph, b) = {id}}]
    IN  selected = ConsumersOf(roots, Ids, direct)

(***************************************************************************)
(* The packages are printed once each, a package after those it needs, and *)
(* only native dependencies in a circle prevent it: test-only ones do not  *)
(* (README.md:257).                                                        *)
(***************************************************************************)
PrintedInOrder ==
  LET native == [id \in Ids |-> graph[id].internal]
      Below(id) == ConsumersOf({id}, Ids, native)
      Circular  == \E id \in Ids : native[id] \cap Below(id) # {}
  IN  /\ At("cycle") => Circular
      /\ At("done") /\ command = "affected" =>
           /\ ~ Circular /\ IsInjective(printed) /\ ToSet(printed) = affected
           /\ \A i, j \in DOMAIN printed : i < j => printed[i] \notin Below(printed[j])

(***************************************************************************)
(* An excluded directory holds no package of the workspace                 *)
(* (README.md:672).                                                        *)
(***************************************************************************)
ExcludedNotDiscovered ==
  \A id \in Ids : \A e \in {"cargo", "uv"} :
    id[1] = e =>
      ~ \E p \in Listed(history.head, RootManifest(e), "excludes") :
          Matches(p, Directory(graph[id].path))

(***************************************************************************)
(* Whatever the references, cyclic or not, the command ends.               *)
(***************************************************************************)
ScopeEnds == <>Ended

=============================================================================

-------------------------- MODULE ChangeScopeProofs -------------------------
(***************************************************************************)
(* Proofs that a selection is what its roots need, that what is affected   *)
(* is what the changed paths reach, that the packages are printed in an    *)
(* order, and that no change is missed although only the head's packages   *)
(* are looked at, for any repositories and selections.                     *)
(***************************************************************************)
EXTENDS ChangeScope, FiniteSetTheorems, SequenceTheorems, WellFoundedInduction, TLAPS

(***************************************************************************)
(* What the commands work on: the graph is that of the packages of the     *)
(* head, whose native references are packages of it.                       *)
(***************************************************************************)
GraphInv ==
  /\ history \in Histories
  /\ packages = Discovered(history.head)
  /\ IsFiniteSet(Ids)
  /\ \A id \in Ids : graph[id].internal \subseteq Ids

(***************************************************************************)
(* The selection: what was taken or waits to be is needed, and of what was *)
(* taken all that it needs was taken or waits.                             *)
(***************************************************************************)
Roots ==
  {BridgeTarget(graph, b) : b \in selection.roots}
  \cup {id \in Ids : selection.all \/ (selection.publishable /\ graph[id].publishable)}

NeededBy ==
  [id \in Ids |->
     {d \in Ids : \/ selection.dependencies /\ id \in graph[d].internal
                  \/ selection.bridges /\ \E b \in graph[d].bridges : BridgeMatches(graph, b) = {id}}]

Selecting ==
  /\ selection # NoSelection
  /\ Roots \subseteq selected \cup pending
  /\ pending \subseteq ConsumersOf(Roots, Ids, NeededBy)
  /\ selected \subseteq ConsumersOf(Roots, Ids, NeededBy)
  /\ \A id \in selected : \A d \in Ids : id \in NeededBy[d] => d \in selected \cup pending

SelectionInv ==
  /\ pc \in {"discovered", "roots"} => selected = {}
  /\ pc = "roots" => selection # NoSelection
  /\ pc = "select" => Selecting
  /\ pc \notin {"discovered", "roots", "select", "failed"} /\ selection # NoSelection =>
       selected = ConsumersOf(Roots, Ids, NeededBy)

(***************************************************************************)
(* What is affected: the owners and, but for the consumers of what is      *)
(* pending, all their consumers.                                           *)
(***************************************************************************)
AllOwners == UNION {Owners(f) : f \in changed}

Dependencies == [id \in Ids |-> DependsOn(id)]

AllAffected ==
  IF \E f \in changed : ForEverybody(f) THEN Ids
  ELSE IF changed = {} THEN {} ELSE ConsumersOf(AllOwners, Ids, Dependencies)

Propagating ==
  /\ changed # {} /\ ~ \E f \in changed : ForEverybody(f)
  /\ AllOwners \subseteq affected
  /\ affected \subseteq ConsumersOf(AllOwners, Ids, Dependencies)
  /\ pending \subseteq affected
  /\ \A id \in affected \ pending : \A d \in Ids : id \in DependsOn(d) => d \in affected

AffectedInv ==
  /\ pc = "propagate" => Propagating
  /\ pc = "intersect" => affected = AllAffected
  /\ pc \in {"order", "print", "cycle", "done"} /\ command # "selected" =>
       affected = IF selection = NoSelection THEN AllAffected ELSE AllAffected \cap selected

(***************************************************************************)
(* The order.  While it is made, the queue and the list hold the packages  *)
(* all of whose native references are listed, each once and after them;    *)
(* the indegrees count the references that are not listed.  While it is    *)
(* printed, what was printed and what is left of the list make up what is  *)
(* affected, and none comes before what it needs.                          *)
(***************************************************************************)
Native == [id \in Ids |-> graph[id].internal]

Below(id) == ConsumersOf({id}, Ids, Native)

Circular == \E id \in Ids : Native[id] \cap Below(id) # {}

Placed ==
  /\ queue \in Seq(Ids) /\ IsInjective(queue)
  /\ ordered \in Seq(Ids) /\ IsInjective(ordered)
  /\ ToSet(queue) \cap ToSet(ordered) = {}
  /\ \A id \in Ids : id \in ToSet(queue) \cup ToSet(ordered) <=> Native[id] \subseteq ToSet(ordered)

Counted == \A id \in Ids : indegree[id] = Cardinality(Native[id] \ ToSet(ordered))

NeedsListedFirst ==
  \A i \in DOMAIN ordered : \A q \in Native[ordered[i]] :
    \E j \in DOMAIN ordered : j < i /\ ordered[j] = q

Ordering == command = "affected" /\ printed = <<>> /\ Placed /\ Counted /\ NeedsListedFirst

InOrder(s) == \A i, j \in DOMAIN s : i < j => s[i] \notin Below(s[j])

Printing ==
  /\ ordered \in Seq(Ids) /\ IsInjective(ordered) /\ InOrder(ordered)
  /\ printed \in Seq(Ids) /\ IsInjective(printed) /\ InOrder(printed)
  /\ ToSet(printed) \cap ToSet(ordered) = {}
  /\ ToSet(printed) \cup (ToSet(ordered) \cap affected) = affected
  /\ \A p \in ToSet(printed) : \A q \in ToSet(ordered) : p \notin Below(q)

OrderInv ==
  /\ pc \in {"discovered", "roots", "select", "diff", "own", "propagate", "intersect"} =>
       ordered = <<>> /\ printed = <<>>
  /\ pc = "order" => Ordering
  /\ pc = "cycle" => Circular
  /\ pc = "print" => ~ Circular /\ Printing
  /\ pc = "done" /\ command = "affected" =>
       ~ Circular /\ IsInjective(printed) /\ ToSet(printed) = affected /\ InOrder(printed)

-----------------------------------------------------------------------------

(***************************************************************************)
(* ConsumersOf is a least set: it lies around S, is closed, and is within  *)
(* whatever lies around S and is closed.                                   *)
(***************************************************************************)
LEMMA ConsumersAround ==
  ASSUME NEW S, NEW ids, NEW deps, S \subseteq ids
  PROVE  S \subseteq ConsumersOf(S, ids, deps) /\ ConsumersOf(S, ids, deps) \subseteq ids
BY DEF ConsumersOf

LEMMA ConsumersClosed ==
  ASSUME NEW S, NEW ids, NEW deps,
         NEW c \in ConsumersOf(S, ids, deps), NEW d \in ids, c \in deps[d]
  PROVE  d \in ConsumersOf(S, ids, deps)
<1>. SUFFICES ASSUME NEW C \in SUBSET ids, S \subseteq C,
                     \A e \in ids : deps[e] \cap C # {} => e \in C
              PROVE  d \in C
  BY DEF ConsumersOf
<1>1. c \in C
  BY DEF ConsumersOf
<1>. QED
  BY <1>1

LEMMA ConsumersLeast ==
  ASSUME NEW S, NEW ids, NEW deps, NEW C \in SUBSET ids, S \subseteq C,
         \A d \in ids : \A c \in C : c \in deps[d] => d \in C
  PROVE  ConsumersOf(S, ids, deps) \subseteq C
<1>1. \A d \in ids : deps[d] \cap C # {} => d \in C
  OBVIOUS
<1>. QED
  BY <1>1 DEF ConsumersOf

(***************************************************************************)
(* A bridge that resolves matches its target alone.                        *)
(***************************************************************************)
LEMMA BridgeFacts ==
  ASSUME IsFiniteSet(Ids), NEW b, Resolves(graph, b)
  PROVE  BridgeTarget(graph, b) \in Ids /\ BridgeMatches(graph, b) = {BridgeTarget(graph, b)}
<1>. DEFINE M == BridgeMatches(graph, b)
<1>1. M \in SUBSET Ids
  BY DEF BridgeMatches, Ids
<1>2. IsFiniteSet(M) /\ Cardinality(M) = 1
  BY <1>1, FS_Subset DEF Resolves
<1>. HIDE DEF M
<1>3. \E x : M = {x}
  BY <1>2, FS_Singleton
<1>4. M = {CHOOSE x \in M : TRUE}
  BY <1>3
<1>. QED
  BY <1>1, <1>4 DEF BridgeTarget, M

-----------------------------------------------------------------------------

(***************************************************************************)
(* The packages of a repository are finitely many, and refer to packages.  *)
(***************************************************************************)
LEMMA PackagesFinite ==
  ASSUME NEW tree, IsFiniteSet(DOMAIN tree)
  PROVE  IsFiniteSet(RawPackages(tree))
<1>1. /\ CargoManifests(tree) \in SUBSET DOMAIN tree
      /\ PackageJsonManifests(tree) \in SUBSET DOMAIN tree
      /\ UvManifests(tree) \in SUBSET DOMAIN tree
  BY DEF CargoManifests, PackageJsonManifests, UvManifests, ExpandMembers
<1>2. /\ IsFiniteSet(CargoManifests(tree)) /\ IsFiniteSet(PackageJsonManifests(tree))
      /\ IsFiniteSet(UvManifests(tree))
  BY <1>1, FS_Subset
<1>3. IsFiniteSet({ParseCargo(tree, path) : path \in CargoManifests(tree)})
  <2>1. [path \in CargoManifests(tree) |-> ParseCargo(tree, path)]
          \in Surjection(CargoManifests(tree), {ParseCargo(tree, path) : path \in CargoManifests(tree)})
    BY DEF Surjection
  <2>. QED
    BY <1>2, <2>1, FS_Surjection
<1>4. IsFiniteSet({ParsePackageJson(tree, path) : path \in PackageJsonManifests(tree)})
  <2>1. [path \in PackageJsonManifests(tree) |-> ParsePackageJson(tree, path)]
          \in Surjection(PackageJsonManifests(tree),
                         {ParsePackageJson(tree, path) : path \in PackageJsonManifests(tree)})
    BY DEF Surjection
  <2>. QED
    BY <1>2, <2>1, FS_Surjection
<1>5. IsFiniteSet({ParsePyProject(tree, path) : path \in UvManifests(tree)})
  <2>1. [path \in UvManifests(tree) |-> ParsePyProject(tree, path)]
          \in Surjection(UvManifests(tree), {ParsePyProject(tree, path) : path \in UvManifests(tree)})
    BY DEF Surjection
  <2>. QED
    BY <1>2, <2>1, FS_Surjection
<1>. QED
  BY <1>3, <1>4, <1>5, FS_Union DEF RawPackages

LEMMA DiscoveredFacts ==
  ASSUME NEW tree, IsFiniteSet(DOMAIN tree)
  PROVE  /\ IsFiniteSet({p.id : p \in Discovered(tree)})
         /\ \A p \in Discovered(tree) : p.internal \subseteq {q.id : q \in Discovered(tree)}
<1>. DEFINE raw == RawPackages(tree)
            ids == {r.id : r \in raw}
<1>1. IsFiniteSet(ids)
  <2>1. [r \in raw |-> r.id] \in Surjection(raw, ids)
    BY DEF Surjection
  <2>2. IsFiniteSet(raw)
    BY PackagesFinite
  <2>. HIDE DEF raw, ids
  <2>. QED
    BY <2>1, <2>2, FS_Surjection
<1>2. \A r \in raw : r.id = <<r.id[1], r.id[2]>>
  BY DEF RawPackages, ParseCargo, ParsePackageJson, ParsePyProject
<1>. HIDE DEF raw
<1>3. {p.id : p \in ResolveInternalDependencies(raw)} = ids
  <2>1. \A p \in ResolveInternalDependencies(raw) : \E r \in raw : p.id = r.id
    BY DEF ResolveInternalDependencies
  <2>2. ASSUME NEW r \in raw PROVE \E p \in ResolveInternalDependencies(raw) : p.id = r.id
    <3>. DEFINE Named(names) == {<<r.id[1], n>> : n \in names \cap Candidates(raw, r.id[1])}
                p == [id |-> r.id, path |-> r.path, bridges |-> r.bridges,
                      publishable |-> r.publishable,
                      internal |-> Named(r.declared), development |-> Named(TestOnly(r))]
    <3>1. p \in ResolveInternalDependencies(raw)
      BY DEF ResolveInternalDependencies
    <3>2. p.id = r.id
      OBVIOUS
    <3>. QED
      BY <3>1, <3>2
  <2>. QED
    BY <2>1, <2>2
<1>4. ASSUME NEW p \in ResolveInternalDependencies(raw) PROVE p.internal \subseteq ids
  <2>. HIDE DEF ids
  <2>1. PICK r \in raw :
          p.internal = {<<r.id[1], n>> : n \in r.declared \cap Candidates(raw, r.id[1])}
    BY <1>4 DEF ResolveInternalDependencies
  <2>2. ASSUME NEW n \in Candidates(raw, r.id[1]) PROVE <<r.id[1], n>> \in ids
    <3>1. PICK q \in raw : q.id[1] = r.id[1] /\ n = q.id[2]
      BY <2>2 DEF Candidates
    <3>. QED
      BY <1>2, <3>1 DEF ids
  <2>3. ASSUME NEW d \in p.internal PROVE d \in ids
    <3>1. PICK n \in r.declared \cap Candidates(raw, r.id[1]) : d = <<r.id[1], n>>
      BY <2>1, <2>3
    <3>. QED
      BY <2>2, <3>1
  <2>. QED
    BY <2>3
<1>5. CASE DiscoveryFails(tree)
  <2>1. {p.id : p \in Discovered(tree)} = {}
    BY <1>5 DEF Discovered
  <2>. QED
    BY <1>5, <2>1, FS_EmptySet DEF Discovered
<1>6. CASE ~ DiscoveryFails(tree)
  <2>1. Discovered(tree) = ResolveInternalDependencies(raw)
    BY <1>6 DEF Discovered, raw
  <2>. QED
    BY <1>1, <1>3, <1>4, <2>1
<1>. QED
  BY <1>5, <1>6

(***************************************************************************)
(* Whichever of the packages with one id is kept.                          *)
(***************************************************************************)
LEMMA GraphFacts ==
  ASSUME NEW K, NEW g \in Graphs(K)
  PROVE  DOMAIN g = {p.id : p \in K} /\ \A id \in DOMAIN g : g[id] \in K
<1>. DEFINE ids == {p.id : p \in K}
<1>1. PICK kept \in SUBSET K :
        /\ \A id \in ids : \E p \in kept : \A q \in kept : q.id = id <=> q = p
        /\ g = [id \in ids |-> CHOOSE p \in kept : p.id = id]
  BY DEF Graphs
<1>2. ASSUME NEW id \in ids PROVE g[id] \in K
  <2>1. \E p \in kept : p.id = id
    BY <1>1, <1>2
  <2>. QED
    BY <1>1, <2>1
<1>. QED
  BY <1>1, <1>2

LEMMA GraphInit == Init => GraphInv
BY FS_EmptySet DEF Init, GraphInv, Ids

LEMMA GraphStep == GraphInv /\ [Work]_vars => GraphInv'
<1>. SUFFICES ASSUME GraphInv, [Work]_vars PROVE GraphInv'
  OBVIOUS
<1>1. CASE BuildGraph
  <2>1. graph' \in Graphs(packages) /\ UNCHANGED <<history, packages>>
    BY <1>1 DEF BuildGraph, inputVars
  <2>2. IsFiniteSet(DOMAIN history.head)
    BY HistoriesAssumption DEF GraphInv
  <2>3. DOMAIN graph' = {p.id : p \in packages} /\ \A id \in DOMAIN graph' : graph'[id] \in packages
    BY <2>1, GraphFacts
  <2>4. /\ IsFiniteSet({p.id : p \in packages})
        /\ \A p \in packages : p.internal \subseteq {q.id : q \in packages}
    BY <2>2, DiscoveredFacts DEF GraphInv
  <2>. QED
    BY <2>1, <2>3, <2>4 DEF GraphInv, Ids
<1>2. CASE UNCHANGED <<history, packages, graph>>
  BY <1>2 DEF GraphInv, Ids
<1>. QED
  BY <1>1, <1>2 DEF Work, vars, inputVars, SelectRoots, Select, EndSelect, Diff, AssignOwners,
     Propagate, EndPropagate, Intersect, OrderPackage, EndOrder, PrintAffected, EndPrint

(***************************************************************************)
(* What the graph and the selection alone determine.                       *)
(***************************************************************************)
LEMMA Determined ==
  ASSUME UNCHANGED <<inputVars, graph>>
  PROVE  /\ Ids' = Ids /\ Roots' = Roots /\ NeededBy' = NeededBy
         /\ ConsumersOf(Roots, Ids, NeededBy)' = ConsumersOf(Roots, Ids, NeededBy)
<1>1. graph' = graph /\ selection' = selection
  BY DEF inputVars
<1>2. Ids' = Ids
  BY <1>1 DEF Ids
<1>3. Roots' = Roots
  BY <1>1, <1>2 DEF Roots
<1>4. NeededBy' = NeededBy
  BY <1>1, <1>2 DEF NeededBy
<1>. QED
  BY <1>2, <1>3, <1>4 DEF ConsumersOf

LEMMA NeedsFacts ==
  ASSUME GraphInv, NEW id \in Ids,
         ~ (selection.bridges /\ \E b \in graph[id].bridges : ~ Resolves(graph, b))
  PROVE  Needs(id) = {d \in Ids : id \in NeededBy[d]}
<1>1. \A d \in Ids : id \in NeededBy[d] <=>
        \/ selection.dependencies /\ d \in graph[id].internal
        \/ selection.bridges /\ \E b \in graph[id].bridges : BridgeMatches(graph, b) = {d}
  BY DEF NeededBy
<1>2. selection.bridges => \A b \in graph[id].bridges :
        BridgeTarget(graph, b) \in Ids /\ BridgeMatches(graph, b) = {BridgeTarget(graph, b)}
  BY BridgeFacts DEF GraphInv
<1>3. graph[id].internal \subseteq Ids
  BY DEF GraphInv
<1>. QED
  BY <1>1, <1>2, <1>3 DEF Needs

-----------------------------------------------------------------------------

(* The selection *)

LEMMA SelectionInit == Init => SelectionInv
BY DEF Init, SelectionInv

LEMMA SelectRootsStep == GraphInv /\ SelectionInv /\ SelectRoots => SelectionInv'
<1>. SUFFICES ASSUME GraphInv, SelectionInv, SelectRoots PROVE SelectionInv'
  OBVIOUS
<1>1. pc = "roots" /\ UNCHANGED <<inputVars, graph, selected>>
  BY DEF SelectRoots, At
<1>2. selected = {} /\ selected' = {} /\ selection # NoSelection /\ selection' = selection
  BY <1>1 DEF SelectionInv, inputVars
<1>3. CASE \E b \in selection.roots : ~ Resolves(graph, b)
  BY <1>3 DEF SelectRoots, SelectionInv, Go
<1>4. CASE \A b \in selection.roots : Resolves(graph, b)
  <2>1. pending' = Roots /\ pc' = "select"
    BY <1>4 DEF SelectRoots, Roots, Go
  <2>2. Roots \subseteq Ids
    BY <1>4, BridgeFacts DEF Roots, GraphInv
  <2>3. Roots \subseteq ConsumersOf(Roots, Ids, NeededBy)
    BY <2>2, ConsumersAround
  <2>4. Selecting'
    BY <1>1, <1>2, <2>1, <2>3, Determined DEF Selecting
  <2>. QED
    BY <2>1, <2>4 DEF SelectionInv
<1>. QED
  BY <1>3, <1>4

LEMMA SelectStep == GraphInv /\ SelectionInv /\ Select => SelectionInv'
<1>. SUFFICES ASSUME GraphInv, SelectionInv, Select PROVE SelectionInv'
  OBVIOUS
<1>. DEFINE closure == ConsumersOf(Roots, Ids, NeededBy)
<1>1. pc = "select" /\ UNCHANGED <<inputVars, graph>> /\ Selecting
  BY DEF Select, At, SelectionInv
<1>2. PICK id \in pending :
        IF selection.bridges /\ \E b \in graph[id].bridges : ~ Resolves(graph, b)
        THEN Go("failed") /\ UNCHANGED <<selected, pending>>
        ELSE /\ selected' = selected \cup {id}
             /\ pending' = (pending \ {id}) \cup Unseen(Needs(id), selected')
             /\ UNCHANGED pc
  BY DEF Select
<1>3. CASE selection.bridges /\ \E b \in graph[id].bridges : ~ Resolves(graph, b)
  BY <1>2, <1>3 DEF SelectionInv, Go
<1>4. CASE ~ (selection.bridges /\ \E b \in graph[id].bridges : ~ Resolves(graph, b))
  <2>1. selected' = selected \cup {id} /\ pc' = "select"
    BY <1>1, <1>2, <1>4
  <2>2. pending' = (pending \ {id}) \cup (Needs(id) \ selected')
    BY <1>2, <1>4 DEF Unseen
  <2>3. closure \subseteq Ids /\ id \in closure
    BY <1>1 DEF Selecting, ConsumersOf
  <2>4. Needs(id) = {d \in Ids : id \in NeededBy[d]}
    BY <1>4, <2>3, NeedsFacts
  <2>5. Needs(id) \subseteq closure
    BY <2>3, <2>4, ConsumersClosed
  <2>6. selected' \subseteq closure /\ pending' \subseteq closure
    BY <1>1, <2>1, <2>2, <2>3, <2>5 DEF Selecting
  <2>7. Roots \subseteq selected' \cup pending'
    BY <1>1, <2>1, <2>2 DEF Selecting
  <2>8. \A s \in selected' : \A d \in Ids : s \in NeededBy[d] => d \in selected' \cup pending'
    BY <1>1, <2>1, <2>2, <2>4 DEF Selecting
  <2>9. selection' # NoSelection
    BY <1>1 DEF Selecting, inputVars
  <2>10. Selecting'
    BY <1>1, <2>6, <2>7, <2>8, <2>9, Determined DEF Selecting
  <2>. QED
    BY <2>1, <2>10 DEF SelectionInv
<1>. QED
  BY <1>3, <1>4

LEMMA EndSelectStep == GraphInv /\ SelectionInv /\ EndSelect => SelectionInv'
<1>. SUFFICES ASSUME GraphInv, SelectionInv, EndSelect PROVE SelectionInv'
  OBVIOUS
<1>1. /\ pc = "select" /\ pending = {} /\ UNCHANGED <<inputVars, graph, selected>> /\ Selecting
      /\ pc' \in {"done", "diff"}
  BY DEF EndSelect, At, Go, SelectionInv
<1>2. selected \in SUBSET Ids /\ Roots \subseteq selected
  BY <1>1 DEF Selecting, ConsumersOf
<1>3. \A d \in Ids : \A c \in selected : c \in NeededBy[d] => d \in selected
  BY <1>1 DEF Selecting
<1>4. ConsumersOf(Roots, Ids, NeededBy) \subseteq selected
  BY <1>2, <1>3, ConsumersLeast
<1>5. selected = ConsumersOf(Roots, Ids, NeededBy)
  BY <1>1, <1>4 DEF Selecting
<1>. QED
  BY <1>1, <1>5, Determined DEF SelectionInv

LEMMA SelectionStep == GraphInv /\ SelectionInv /\ [Work]_vars => SelectionInv'
<1>. SUFFICES ASSUME GraphInv, SelectionInv, [Work]_vars PROVE SelectionInv'
  OBVIOUS
<1>1. CASE BuildGraph
  BY <1>1 DEF BuildGraph, At, Go, SelectionInv, scopeVars, inputVars
<1>2. CASE /\ UNCHANGED <<inputVars, graph, selected>>
           /\ pc \notin {"discovered", "roots", "select"}
           /\ pc' \notin {"discovered", "roots", "select"}
           /\ pc = "failed" => pc' = "failed"
  <2>1. selection' = selection
    BY <1>2 DEF inputVars
  <2>. QED
    BY <1>2, <2>1, Determined DEF SelectionInv
<1>3. CASE UNCHANGED vars
  <2>1. UNCHANGED <<inputVars, graph, selected, pending, pc>> /\ selection' = selection
    BY <1>3 DEF vars, scopeVars, inputVars
  <2>2. Selecting' = Selecting
    BY <2>1, Determined DEF Selecting
  <2>. QED
    BY <2>1, <2>2, Determined DEF SelectionInv
<1>4. CASE \/ Diff \/ AssignOwners \/ Propagate \/ EndPropagate \/ Intersect
           \/ OrderPackage \/ EndOrder \/ PrintAffected \/ EndPrint
  BY <1>2, <1>4 DEF Diff, AssignOwners, Propagate, EndPropagate, Intersect, OrderPackage,
     EndOrder, PrintAffected, EndPrint, At, Go, scopeVars
<1>. QED
  BY <1>1, <1>3, <1>4, SelectRootsStep, SelectStep, EndSelectStep DEF Work

(***************************************************************************)
(* What a command is done with is the least selection around the roots,    *)
(* whatever the references, circular ones included (select_packages).      *)
(***************************************************************************)
THEOREM SelectionsAreClosures == Spec => []SelectionIsClosure
<1>1. Init => GraphInv /\ SelectionInv
  BY GraphInit, SelectionInit
<1>2. GraphInv /\ SelectionInv /\ [Work \/ (Ended /\ UNCHANGED vars)]_vars
        => (GraphInv /\ SelectionInv)'
  BY GraphStep, SelectionStep
<1>3. SelectionInv => SelectionIsClosure
  BY DEF SelectionInv, SelectionIsClosure, Roots, NeededBy, At
<1>. QED
  BY <1>1, <1>2, <1>3, PTL DEF Spec

-----------------------------------------------------------------------------

(* What is affected *)

LEMMA ChangesDetermine ==
  ASSUME UNCHANGED <<inputVars, graph, changed>>
  PROVE  /\ AllOwners' = AllOwners /\ AllAffected' = AllAffected
         /\ ConsumersOf(AllOwners, Ids, Dependencies)' = ConsumersOf(AllOwners, Ids, Dependencies)
         /\ \A id : DependsOn(id)' = DependsOn(id)
         /\ \A f : ForEverybody(f)' <=> ForEverybody(f)
<1>1. graph' = graph /\ changed' = changed /\ Ids' = Ids
  BY DEF Ids
<1>2. \A f : Owners(f)' = Owners(f)
  BY <1>1 DEF Owners, Around, Directories
<1>3. \A f : ForEverybody(f)' <=> ForEverybody(f)
  BY <1>1 DEF ForEverybody, Around, Directories
<1>4. AllOwners' = AllOwners
  BY <1>1, <1>2 DEF AllOwners
<1>5. \A id : DependsOn(id)' = DependsOn(id)
  BY <1>1 DEF DependsOn
<1>6. Dependencies' = Dependencies
  BY <1>1, <1>5 DEF Dependencies
<1>7. ConsumersOf(AllOwners, Ids, Dependencies)' = ConsumersOf(AllOwners, Ids, Dependencies)
  BY <1>1, <1>4, <1>6 DEF ConsumersOf
<1>8. AllAffected' = AllAffected
  BY <1>1, <1>3, <1>7 DEF AllAffected
<1>. QED
  BY <1>3, <1>4, <1>5, <1>7, <1>8

LEMMA AffectedInit == Init => AffectedInv
BY DEF Init, AffectedInv

LEMMA AssignOwnersStep == AffectedInv /\ AssignOwners => AffectedInv'
<1>. SUFFICES ASSUME AffectedInv, AssignOwners PROVE AffectedInv'
  OBVIOUS
<1>1. UNCHANGED <<inputVars, graph, changed>>
  BY DEF AssignOwners
<1>2. CASE \E f \in changed : ForEverybody(f)
  <2>1. affected' = Ids /\ pc' = "intersect"
    BY <1>2 DEF AssignOwners, Go
  <2>. QED
    BY <1>1, <1>2, <2>1, ChangesDetermine DEF AffectedInv, AllAffected
<1>3. CASE ~ \E f \in changed : ForEverybody(f)
  <2>1. /\ affected' = AllOwners /\ pending' = AllOwners
        /\ pc' = IF changed = {} THEN "intersect"
                 ELSE IF \E id \in Ids : \E b \in graph[id].bridges : ~ Resolves(graph, b)
                 THEN "failed" ELSE "propagate"
    BY <1>3 DEF AssignOwners, Go, AllOwners
  <2>2. CASE changed = {}
    <3>1. AllOwners = {} /\ AllAffected = {}
      BY <2>2 DEF AllOwners, AllAffected
    <3>. QED
      BY <1>1, <2>1, <2>2, <3>1, ChangesDetermine DEF AffectedInv
  <2>3. CASE changed # {}
    <3>1. AllOwners \subseteq Ids
      BY DEF AllOwners, Owners
    <3>2. AllOwners \subseteq ConsumersOf(AllOwners, Ids, Dependencies)
      BY <3>1, ConsumersAround
    <3>3. Propagating'
      BY <1>1, <1>3, <2>1, <2>3, <3>2, ChangesDetermine DEF Propagating
    <3>. QED
      BY <2>1, <2>3, <3>3 DEF AffectedInv
  <2>. QED
    BY <2>2, <2>3
<1>. QED
  BY <1>2, <1>3

LEMMA PropagateStep == AffectedInv /\ Propagate => AffectedInv'
<1>. SUFFICES ASSUME AffectedInv, Propagate PROVE AffectedInv'
  OBVIOUS
<1>. DEFINE closure == ConsumersOf(AllOwners, Ids, Dependencies)
<1>1. pc = "propagate" /\ pc' = pc /\ UNCHANGED <<inputVars, graph, changed>> /\ Propagating
  BY DEF Propagate, At, AffectedInv
<1>2. PICK id \in pending :
        LET found == {d \in Ids : id \in DependsOn(d)} \ affected
        IN  affected' = affected \cup found /\ pending' = (pending \ {id}) \cup found
  BY DEF Propagate, Unseen
<1>3. id \in closure
  BY <1>1 DEF Propagating
<1>4. \A d \in Ids : id \in DependsOn(d) => d \in closure
  <2>. SUFFICES ASSUME NEW d \in Ids, id \in DependsOn(d) PROVE d \in closure
    OBVIOUS
  <2>1. id \in Dependencies[d]
    BY DEF Dependencies
  <2>. QED
    BY <1>3, <2>1, ConsumersClosed
<1>. HIDE DEF closure
<1>5. affected' \subseteq closure /\ pending' \subseteq affected' /\ AllOwners \subseteq affected'
  BY <1>1, <1>2, <1>4 DEF Propagating, closure
<1>6. \A s \in affected' \ pending' : \A d \in Ids : s \in DependsOn(d) => d \in affected'
  BY <1>1, <1>2 DEF Propagating
<1>7. Ids' = Ids
  BY <1>1 DEF Ids
<1>8. Propagating'
  BY <1>1, <1>5, <1>6, <1>7, ChangesDetermine DEF Propagating, closure
<1>. QED
  BY <1>1, <1>8 DEF AffectedInv

LEMMA EndPropagateStep == AffectedInv /\ EndPropagate => AffectedInv'
<1>. SUFFICES ASSUME AffectedInv, EndPropagate PROVE AffectedInv'
  OBVIOUS
<1>1. /\ pc = "propagate" /\ pc' = "intersect" /\ pending = {} /\ Propagating
      /\ UNCHANGED <<inputVars, graph, changed, affected>>
  BY DEF EndPropagate, At, Go, AffectedInv, scopeVars
<1>2. affected \in SUBSET Ids /\ AllOwners \subseteq affected
  BY <1>1 DEF Propagating, ConsumersOf
<1>3. \A d \in Ids : \A c \in affected : c \in Dependencies[d] => d \in affected
  BY <1>1 DEF Propagating, Dependencies
<1>4. ConsumersOf(AllOwners, Ids, Dependencies) \subseteq affected
  BY <1>2, <1>3, ConsumersLeast
<1>5. affected = AllAffected
  BY <1>1, <1>4 DEF Propagating, AllAffected
<1>. QED
  BY <1>1, <1>5, ChangesDetermine DEF AffectedInv

LEMMA IntersectStep == AffectedInv /\ Intersect => AffectedInv'
<1>. SUFFICES ASSUME AffectedInv, Intersect PROVE AffectedInv'
  OBVIOUS
<1>1. /\ pc' \in {"done", "order"} /\ affected = AllAffected
      /\ UNCHANGED <<inputVars, graph, changed, selected>>
      /\ affected' = IF selection = NoSelection THEN affected ELSE affected \cap selected
  BY DEF Intersect, At, Go, AffectedInv
<1>2. selection' = selection
  BY <1>1 DEF inputVars
<1>. QED
  BY <1>1, <1>2, ChangesDetermine DEF AffectedInv

LEMMA AffectedStep == AffectedInv /\ [Work]_vars => AffectedInv'
<1>. SUFFICES ASSUME AffectedInv, [Work]_vars PROVE AffectedInv'
  OBVIOUS
<1>1. CASE BuildGraph \/ SelectRoots \/ Select \/ EndSelect \/ Diff
  <2>1. /\ pc' \notin {"propagate", "intersect", "order", "print", "cycle"}
        /\ pc' = "done" => command' = "selected"
    BY <1>1 DEF BuildGraph, SelectRoots, Select, EndSelect, Diff, At, Go, inputVars
  <2>. QED
    BY <2>1 DEF AffectedInv
<1>2. CASE OrderPackage \/ EndOrder \/ PrintAffected \/ EndPrint
  <2>1. /\ pc \in {"order", "print"} /\ pc' \in {"order", "print", "cycle", "done"}
        /\ UNCHANGED <<inputVars, graph, changed, selected, affected>>
    BY <1>2 DEF OrderPackage, EndOrder, PrintAffected, EndPrint, At, Go, scopeVars
  <2>2. selection' = selection /\ command' = command
    BY <2>1 DEF inputVars
  <2>. QED
    BY <2>1, <2>2, ChangesDetermine DEF AffectedInv
<1>3. CASE UNCHANGED vars
  <2>1. UNCHANGED <<inputVars, graph, changed, selected, affected, pending, pc>>
    BY <1>3 DEF vars, scopeVars
  <2>2. selection' = selection /\ command' = command /\ Ids' = Ids
    BY <2>1 DEF inputVars, Ids
  <2>3. Propagating' = Propagating
    BY <2>1, <2>2, ChangesDetermine DEF Propagating
  <2>. QED
    BY <2>1, <2>2, <2>3, ChangesDetermine DEF AffectedInv
<1>. QED
  BY <1>1, <1>2, <1>3, AssignOwnersStep, PropagateStep, EndPropagateStep, IntersectStep DEF Work

(***************************************************************************)
(* Exactly the owners of the changed paths and their consumers are         *)
(* affected, or all packages where a path concerns all, and of them a      *)
(* selection keeps its own (affected_packages, calculate_affected_scope).  *)
(***************************************************************************)
THEOREM AffectedExactly == Spec => []AffectedIsExact
<1>1. AffectedInv => AffectedIsExact
  <2>. SUFFICES ASSUME AffectedInv, pc = "done", command # "selected"
                PROVE  affected = IF selection = NoSelection THEN AllAffected
                                  ELSE AllAffected \cap selected
    BY DEF AffectedIsExact, Compared, AllAffected, AllOwners, Dependencies
  <2>. QED
    BY DEF AffectedInv
<1>2. AffectedInv /\ [Work \/ (Ended /\ UNCHANGED vars)]_vars => AffectedInv'
  BY AffectedStep
<1>. QED
  BY <1>1, <1>2, AffectedInit, PTL DEF Spec

-----------------------------------------------------------------------------

(* The order *)

(***************************************************************************)
(* What the operations on a sequence do to its elements.                   *)
(***************************************************************************)
LEMMA AppendFacts ==
  ASSUME NEW S, NEW s \in Seq(S), NEW x \in S, IsInjective(s), x \notin ToSet(s)
  PROVE  /\ Append(s, x) \in Seq(S)
         /\ IsInjective(Append(s, x))
         /\ Len(s) \in Nat
         /\ DOMAIN Append(s, x) = DOMAIN s \cup {Len(s) + 1}
         /\ \A i \in DOMAIN s : Append(s, x)[i] = s[i] /\ i < Len(s) + 1 /\ i \in Nat
         /\ Append(s, x)[Len(s) + 1] = x
         /\ ToSet(Append(s, x)) = ToSet(s) \cup {x}
<1>1. /\ Append(s, x) \in Seq(S)
      /\ Len(s) \in Nat
      /\ DOMAIN Append(s, x) = DOMAIN s \cup {Len(s) + 1}
      /\ \A i \in DOMAIN s : Append(s, x)[i] = s[i] /\ i < Len(s) + 1 /\ i \in Nat
      /\ Append(s, x)[Len(s) + 1] = x
  OBVIOUS
<1>2. ToSet(Append(s, x)) = ToSet(s) \cup {x}
  BY <1>1 DEF ToSet
<1>3. IsInjective(Append(s, x))
  BY <1>1 DEF ToSet, IsInjective
<1>. QED
  BY <1>1, <1>2, <1>3

LEMMA TailFacts ==
  ASSUME NEW S, NEW s \in Seq(S), s # <<>>, IsInjective(s)
  PROVE  /\ Head(s) \in S /\ Head(s) \in ToSet(s)
         /\ Tail(s) \in Seq(S)
         /\ IsInjective(Tail(s))
         /\ Head(s) = s[1] /\ 1 \in DOMAIN s
         /\ \A i \in DOMAIN Tail(s) : i \in Nat /\ i + 1 \in DOMAIN s /\ Tail(s)[i] = s[i + 1] /\ 1 < i + 1
         /\ ToSet(s) = ToSet(Tail(s)) \cup {Head(s)}
         /\ Head(s) \notin ToSet(Tail(s))
<1>1. /\ Head(s) \in S /\ Tail(s) \in Seq(S)
      /\ Head(s) = s[1] /\ Len(s) \in Nat \ {0}
      /\ DOMAIN s = 1 .. Len(s)
      /\ DOMAIN Tail(s) = 1 .. Len(s) - 1
      /\ \A i \in 1 .. Len(s) - 1 : Tail(s)[i] = s[i + 1]
  OBVIOUS
<1>2. IsInjective(Tail(s))
  BY <1>1 DEF IsInjective
<1>3. Head(s) \notin ToSet(Tail(s))
  BY <1>1 DEF IsInjective, ToSet
<1>4. ASSUME NEW x \in ToSet(s) PROVE x \in ToSet(Tail(s)) \cup {Head(s)}
  <2>1. PICK i \in 1 .. Len(s) : s[i] = x
    BY <1>1 DEF ToSet
  <2>2. CASE i = 1
    BY <1>1, <2>1, <2>2
  <2>3. CASE i # 1
    <3>1. i - 1 \in 1 .. Len(s) - 1 /\ Tail(s)[i - 1] = x
      BY <1>1, <2>1, <2>3
    <3>. QED
      BY <1>1, <3>1 DEF ToSet
  <2>. QED
    BY <2>2, <2>3
<1>5. ASSUME NEW x \in ToSet(Tail(s)) \cup {Head(s)} PROVE x \in ToSet(s)
  BY <1>1 DEF ToSet
<1>. QED
  BY <1>1, <1>2, <1>3, <1>4, <1>5

LEMMA ConcatFacts ==
  ASSUME NEW S, NEW s \in Seq(S), NEW t \in Seq(S), IsInjective(s), IsInjective(t),
         ToSet(s) \cap ToSet(t) = {}
  PROVE  s \o t \in Seq(S) /\ IsInjective(s \o t) /\ ToSet(s \o t) = ToSet(s) \cup ToSet(t)
<1>1. /\ s \o t \in Seq(S) /\ Len(s) \in Nat /\ Len(t) \in Nat
      /\ DOMAIN s = 1 .. Len(s) /\ DOMAIN t = 1 .. Len(t)
      /\ DOMAIN (s \o t) = 1 .. Len(s) + Len(t)
      /\ \A i \in 1 .. Len(s) + Len(t) : (s \o t)[i] = IF i <= Len(s) THEN s[i] ELSE t[i - Len(s)]
  OBVIOUS
<1>. DEFINE u == s \o t
<1>2. \A i \in DOMAIN s : i \in DOMAIN u /\ u[i] = s[i]
  BY <1>1
<1>3. \A i \in DOMAIN t : i + Len(s) \in DOMAIN u /\ u[i + Len(s)] = t[i]
  BY <1>1
<1>4. \A i \in DOMAIN u : \/ i \in DOMAIN s
                          \/ i - Len(s) \in DOMAIN t /\ i = (i - Len(s)) + Len(s)
  BY <1>1
<1>. HIDE DEF u
<1>5. ToSet(u) = ToSet(s) \cup ToSet(t)
  BY <1>2, <1>3, <1>4 DEF ToSet
<1>6. ASSUME NEW i \in DOMAIN u, NEW j \in DOMAIN u, u[i] = u[j] PROVE i = j
  <2>1. CASE i \in DOMAIN s /\ j \in DOMAIN s
    BY <1>2, <1>6, <2>1 DEF IsInjective
  <2>2. CASE i \notin DOMAIN s /\ j \notin DOMAIN s
    <3>1. i - Len(s) = j - Len(s)
      BY <1>3, <1>4, <1>6, <2>2 DEF IsInjective
    <3>. QED
      BY <1>1, <1>4, <2>2, <3>1
  <2>3. CASE i \in DOMAIN s /\ j \notin DOMAIN s
    <3>1. u[i] \in ToSet(s)
      BY <1>2, <2>3 DEF ToSet
    <3>2. u[j] \in ToSet(t)
      BY <1>3, <1>4, <2>3 DEF ToSet
    <3>. QED
      BY <1>6, <3>1, <3>2
  <2>4. CASE i \notin DOMAIN s /\ j \in DOMAIN s
    <3>1. u[j] \in ToSet(s)
      BY <1>2, <2>4 DEF ToSet
    <3>2. u[i] \in ToSet(t)
      BY <1>3, <1>4, <2>4 DEF ToSet
    <3>. QED
      BY <1>6, <3>1, <3>2
  <2>. QED
    BY <2>1, <2>2, <2>3, <2>4
<1>. QED
  BY <1>1, <1>5, <1>6 DEF IsInjective, u

LEMMA SetToSeqFacts ==
  ASSUME NEW S, IsFiniteSet(S)
  PROVE  SetToSeq(S) \in Seq(S) /\ IsInjective(SetToSeq(S)) /\ ToSet(SetToSeq(S)) = S
<1>. DEFINE n == Cardinality(S)
<1>1. n \in Nat /\ ExistsBijection(1 .. n, S)
  BY FS_CardinalityType
<1>. DEFINE f == SetToSeq(S)
<1>2. \E g \in [1 .. n -> S] : IsInjective(g)
  BY <1>1 DEF ExistsBijection, Bijection, Injection
<1>3. f \in [1 .. n -> S] /\ IsInjective(f)
  BY <1>2 DEF SetToSeq
<1>. HIDE DEF f
<1>4. f \in Injection(1 .. n, S)
  BY <1>3 DEF Injection, IsInjective
<1>5. Cardinality(1 .. n) = n
  BY <1>1, FS_Interval
<1>6. f \in Surjection(1 .. n, S)
  BY <1>4, <1>5, FS_Injection
<1>7. ToSet(f) = S
  BY <1>3, <1>6 DEF ToSet, Surjection
<1>. QED
  BY <1>1, <1>3, <1>7 DEF f

LEMMA LengthFacts ==
  ASSUME NEW S, NEW s \in Seq(S), IsInjective(s)
  PROVE  IsFiniteSet(ToSet(s)) /\ Cardinality(ToSet(s)) = Len(s)
<1>1. Len(s) \in Nat /\ DOMAIN s = 1 .. Len(s)
  OBVIOUS
<1>2. s \in Bijection(1 .. Len(s), ToSet(s))
  BY <1>1 DEF Bijection, Injection, Surjection, ToSet, IsInjective
<1>3. ExistsBijection(1 .. Len(s), ToSet(s))
  BY <1>2 DEF ExistsBijection
<1>4. IsFiniteSet(1 .. Len(s)) /\ Cardinality(1 .. Len(s)) = Len(s)
  BY <1>1, FS_Interval
<1>. QED
  BY <1>3, <1>4, FS_Bijection

-----------------------------------------------------------------------------

(***************************************************************************)
(* A family of subsets of a finite set has a largest one.                  *)
(***************************************************************************)
LEMMA LargestMember ==
  ASSUME NEW S, IsFiniteSet(S), NEW F \in SUBSET SUBSET S, F # {}
  PROVE  \E M \in F : \A X \in F : M \subseteq X => X = M
<1>. DEFINE G == {S \ X : X \in F}
<1>1. IsWellFoundedOn(StrictSubsetOrdering(S), SUBSET S)
  BY FS_StrictSubsetOrderingWellFounded, FS_FiniteSubsetsOfFinite
<1>2. G \subseteq SUBSET S /\ G # {}
  <2>1. PICK X \in F : TRUE
    OBVIOUS
  <2>2. S \ X \in G
    OBVIOUS
  <2>3. ASSUME NEW Y \in G PROVE Y \subseteq S
    OBVIOUS
  <2>. HIDE DEF G
  <2>. QED
    BY <2>2, <2>3
<1>. HIDE DEF G
<1>3. PICK T \in G : \A Y \in G : ~ (<<Y, T>> \in StrictSubsetOrdering(S))
  BY <1>1, <1>2, WFMin, Zenon
<1>4. PICK M \in F : T = S \ M
  BY DEF G
<1>5. ASSUME NEW X \in F, M \subseteq X PROVE X = M
  <2>1. S \ X \in G
    BY DEF G
  <2>2. <<S \ X, T>> \in (SUBSET S) \X (SUBSET S)
    BY <1>2, <2>1
  <2>3. ~ (S \ X \subseteq T /\ S \ X # T)
    BY <1>3, <2>1, <2>2 DEF StrictSubsetOrdering
  <2>. QED
    BY <1>4, <1>5, <2>3
<1>. QED
  BY <1>5

(***************************************************************************)
(* Where every package of some set needs another of it, there is a circle: *)
(* a package with the most consumers needs one that has no more, which     *)
(* must then be its consumer.                                              *)
(***************************************************************************)
LEMMA StuckIsCircular ==
  ASSUME GraphInv, NEW U \in SUBSET Ids, U # {}, \A id \in U : Native[id] \cap U # {}
  PROVE  Circular
<1>. DEFINE F == {Below(id) : id \in U}
<1>1. \A id \in Ids : id \in Below(id) /\ Below(id) \subseteq Ids
  BY ConsumersAround DEF Below
<1>2. PICK M \in F : \A X \in F : M \subseteq X => X = M
  <2>1. F \in SUBSET SUBSET Ids /\ F # {}
    BY <1>1
  <2>. HIDE DEF F
  <2>. QED
    BY <2>1, LargestMember DEF GraphInv
<1>3. PICK id \in U : M = Below(id)
  OBVIOUS
<1>4. PICK d \in U : d \in Native[id]
  OBVIOUS
<1>5. id \in Below(d)
  BY <1>1, <1>4, ConsumersClosed DEF Below
<1>6. \A c \in Below(d) : \A e \in Ids : c \in Native[e] => e \in Below(d)
  BY ConsumersClosed DEF Below
<1>7. Below(id) \subseteq Below(d)
  <2>. DEFINE C == Below(d)
  <2>1. C \in SUBSET Ids /\ {id} \subseteq C /\ \A e \in Ids : \A c \in C : c \in Native[e] => e \in C
    BY <1>1, <1>5, <1>6
  <2>. HIDE DEF C
  <2>2. ConsumersOf({id}, Ids, Native) \subseteq C
    BY <2>1, ConsumersLeast
  <2>. QED
    BY <2>2 DEF Below, C
<1>8. Below(d) = Below(id)
  BY <1>2, <1>3, <1>7
<1>. QED
  BY <1>1, <1>4, <1>8 DEF Circular

(***************************************************************************)
(* A package's consumers come after it in a list of all packages in which  *)
(* each comes after what it needs; so there is no circle.                  *)
(***************************************************************************)
LEMMA CompleteIsInOrder ==
  ASSUME GraphInv, ordered \in Seq(Ids), IsInjective(ordered), ToSet(ordered) = Ids,
         NeedsListedFirst
  PROVE  InOrder(ordered) /\ ~ Circular
<1>. DEFINE From(i) == {ordered[k] : k \in {k \in DOMAIN ordered : i <= k}}
<1>1. DOMAIN ordered \subseteq Nat /\ \A i \in DOMAIN ordered : ordered[i] \in Ids
  OBVIOUS
<1>2. ASSUME NEW i \in DOMAIN ordered PROVE Below(ordered[i]) \subseteq From(i)
  <2>1. From(i) \in SUBSET Ids /\ {ordered[i]} \subseteq From(i)
    BY <1>1
  <2>2. ASSUME NEW d \in Ids, NEW c \in From(i), c \in Native[d] PROVE d \in From(i)
    <3>1. PICK k \in DOMAIN ordered : i <= k /\ c = ordered[k]
      OBVIOUS
    <3>2. PICK l \in DOMAIN ordered : d = ordered[l]
      BY DEF ToSet
    <3>3. PICK j \in DOMAIN ordered : j < l /\ ordered[j] = c
      BY <2>2, <3>2 DEF NeedsListedFirst
    <3>4. j = k
      BY <3>1, <3>3 DEF IsInjective
    <3>. QED
      BY <1>1, <3>1, <3>2, <3>3, <3>4
  <2>. HIDE DEF From
  <2>. QED
    BY <2>1, <2>2, ConsumersLeast DEF Below
<1>3. ASSUME NEW i \in DOMAIN ordered, NEW j \in DOMAIN ordered, i < j, ordered[i] \in Below(ordered[j])
      PROVE  FALSE
  <2>1. PICK k \in DOMAIN ordered : j <= k /\ ordered[i] = ordered[k]
    BY <1>2, <1>3
  <2>. QED
    BY <1>1, <1>3, <2>1 DEF IsInjective
<1>4. ASSUME NEW id \in Ids, NEW d \in Native[id], d \in Below(id) PROVE FALSE
  <2>1. PICK i \in DOMAIN ordered : id = ordered[i]
    BY DEF ToSet
  <2>2. PICK j \in DOMAIN ordered : j < i /\ ordered[j] = d
    BY <1>4, <2>1 DEF NeedsListedFirst
  <2>. QED
    BY <1>3, <1>4, <2>1, <2>2
<1>. QED
  BY <1>3, <1>4 DEF InOrder, Circular

-----------------------------------------------------------------------------

LEMMA NativeFacts ==
  ASSUME GraphInv
  PROVE  \A id \in Ids : \A S :
           /\ Native[id] = graph[id].internal /\ Native[id] \subseteq Ids
           /\ IsFiniteSet(Native[id] \ S) /\ Cardinality(Native[id] \ S) \in Nat
           /\ Cardinality(Native[id] \ S) = 0 <=> Native[id] \subseteq S
<1>. SUFFICES ASSUME NEW id \in Ids, NEW S
              PROVE  /\ Native[id] = graph[id].internal /\ Native[id] \subseteq Ids
                     /\ IsFiniteSet(Native[id] \ S) /\ Cardinality(Native[id] \ S) \in Nat
                     /\ Cardinality(Native[id] \ S) = 0 <=> Native[id] \subseteq S
  OBVIOUS
<1>1. Native[id] = graph[id].internal /\ Native[id] \subseteq Ids
  BY DEF Native, GraphInv
<1>2. IsFiniteSet(Native[id] \ S)
  <2>1. Native[id] \ S \in SUBSET Ids
    BY <1>1
  <2>. QED
    BY <2>1, FS_Subset DEF GraphInv
<1>3. Cardinality(Native[id] \ S) \in Nat
  BY <1>2, FS_CardinalityType
<1>4. Cardinality(Native[id] \ S) = 0 <=> Native[id] \ S = {}
  BY <1>2, FS_EmptySet
<1>. QED
  BY <1>1, <1>2, <1>3, <1>4

LEMMA GraphDetermines ==
  ASSUME UNCHANGED graph
  PROVE  /\ Ids' = Ids /\ Native' = Native /\ (Circular' <=> Circular)
         /\ \A id : Below(id)' = Below(id)
<1>1. Ids' = Ids
  BY DEF Ids
<1>2. Native' = Native
  BY <1>1 DEF Native
<1>3. \A id : Below(id)' = Below(id)
  BY <1>1, <1>2 DEF Below, ConsumersOf
<1>4. Circular' <=> Circular
  BY <1>1, <1>2, <1>3 DEF Circular
<1>. QED
  BY <1>1, <1>2, <1>3, <1>4

LEMMA OrderInit == Init => OrderInv
BY DEF Init, OrderInv

LEMMA StartOrderStep == GraphInv /\ OrderInv /\ Intersect => OrderInv'
<1>. SUFFICES ASSUME GraphInv, OrderInv, Intersect PROVE OrderInv'
  OBVIOUS
<1>1. pc = "intersect" /\ UNCHANGED <<inputVars, graph>> /\ ordered = <<>> /\ printed = <<>>
  BY DEF Intersect, At, OrderInv
<1>2. CASE command # "affected"
  BY <1>1, <1>2 DEF Intersect, Go, OrderInv, inputVars
<1>3. CASE command = "affected"
  <2>. DEFINE free == {id \in Ids : NativeDegree(id) = 0}
  <2>1. /\ pc' = "order" /\ ordered' = <<>> /\ printed' = <<>> /\ command' = "affected"
        /\ indegree' = [id \in Ids |-> NativeDegree(id)]
        /\ queue' = SetToSeq(free)
    BY <1>1, <1>3 DEF Intersect, Go, inputVars
  <2>2. ToSet(<<>>) = {} /\ <<>> \in Seq(Ids) /\ IsInjective(<<>>) /\ DOMAIN <<>> = {}
    BY DEF ToSet, IsInjective
  <2>3. \A id \in Ids : /\ NativeDegree(id) = Cardinality(Native[id] \ {})
                        /\ NativeDegree(id) = 0 <=> Native[id] \subseteq {}
    <3>. TAKE id \in Ids
    <3>1. NativeDegree(id) = Cardinality(Native[id]) /\ Native[id] \ {} = Native[id]
      BY NativeFacts DEF NativeDegree
    <3>. QED
      BY <3>1, NativeFacts
  <2>4. free \in SUBSET Ids /\ IsFiniteSet(free)
    BY FS_Subset DEF GraphInv
  <2>5. SetToSeq(free) \in Seq(free) /\ IsInjective(SetToSeq(free)) /\ ToSet(SetToSeq(free)) = free
    BY <2>4, SetToSeqFacts
  <2>6. SetToSeq(free) \in Seq(Ids)
    BY <2>4, <2>5
  <2>7. Ids' = Ids /\ Native' = Native
    BY <1>1, GraphDetermines
  <2>8. Placed'
    <3>1. \A id \in Ids : id \in free <=> Native[id] \subseteq {}
      BY <2>3
    <3>. HIDE DEF free
    <3>2. queue' \in Seq(Ids) /\ IsInjective(queue') /\ ToSet(queue') = free
      BY <2>1, <2>5, <2>6
    <3>3. ordered' \in Seq(Ids) /\ IsInjective(ordered') /\ ToSet(ordered') = {}
      BY <2>1, <2>2
    <3>. QED
      BY <2>7, <3>1, <3>2, <3>3 DEF Placed
  <2>9. Counted'
    <3>1. ToSet(ordered') = {}
      BY <2>1, <2>2
    <3>2. \A id \in Ids : indegree'[id] = Cardinality(Native[id] \ ToSet(ordered'))
      BY <2>1, <2>3, <3>1
    <3>. QED
      BY <2>7, <3>2 DEF Counted
  <2>10. NeedsListedFirst'
    BY <2>1, <2>2 DEF NeedsListedFirst
  <2>. QED
    BY <2>1, <2>8, <2>9, <2>10 DEF Ordering, OrderInv
<1>. QED
  BY <1>2, <1>3

LEMMA OrderPackageStep == GraphInv /\ OrderInv /\ OrderPackage => OrderInv'
<1>. SUFFICES ASSUME GraphInv, OrderInv, OrderPackage PROVE OrderInv'
  OBVIOUS
<1>. DEFINE id   == Head(queue)
            next == {d \in Ids : id \in graph[d].internal}
            free == {d \in next : indegree'[d] = 0}
<1>1. /\ pc = "order" /\ pc' = "order" /\ queue # <<>> /\ UNCHANGED <<inputVars, graph, printed>>
      /\ ordered' = Append(ordered, id)
      /\ indegree' = [d \in Ids |-> IF d \in next THEN indegree[d] - 1 ELSE indegree[d]]
      /\ queue' = Tail(queue) \o SetToSeq(free)
  BY DEF OrderPackage, At
<1>2. Ordering /\ Placed /\ Counted /\ NeedsListedFirst
  BY <1>1 DEF OrderInv, Ordering
<1>3. /\ id \in Ids /\ id \in ToSet(queue) /\ Tail(queue) \in Seq(Ids) /\ IsInjective(Tail(queue))
      /\ ToSet(queue) = ToSet(Tail(queue)) \cup {id} /\ id \notin ToSet(Tail(queue))
  BY <1>1, <1>2, TailFacts DEF Placed
<1>4. id \notin ToSet(ordered)
  BY <1>2, <1>3 DEF Placed
<1>5. /\ ordered' \in Seq(Ids) /\ IsInjective(ordered')
      /\ Len(ordered) \in Nat
      /\ DOMAIN ordered' = DOMAIN ordered \cup {Len(ordered) + 1}
      /\ \A i \in DOMAIN ordered : ordered'[i] = ordered[i] /\ i < Len(ordered) + 1 /\ i \in Nat
      /\ ordered'[Len(ordered) + 1] = id
      /\ ToSet(ordered') = ToSet(ordered) \cup {id}
  BY <1>1, <1>2, <1>3, <1>4, AppendFacts DEF Placed
<1>6. \A d \in Ids : d \in next <=> id \in Native[d]
  BY NativeFacts
<1>7. next \in SUBSET Ids
  OBVIOUS
<1>. HIDE DEF id, next
<1>8. ASSUME NEW d \in Ids PROVE indegree'[d] = Cardinality(Native[d] \ ToSet(ordered'))
  <2>1. indegree[d] = Cardinality(Native[d] \ ToSet(ordered)) /\ indegree[d] \in Nat
    BY <1>2, NativeFacts DEF Counted
  <2>2. Native[d] \ ToSet(ordered') = (Native[d] \ ToSet(ordered)) \ {id}
    BY <1>5
  <2>3. Cardinality((Native[d] \ ToSet(ordered)) \ {id})
          = IF id \in Native[d] \ ToSet(ordered) THEN Cardinality(Native[d] \ ToSet(ordered)) - 1
            ELSE Cardinality(Native[d] \ ToSet(ordered))
    BY NativeFacts, FS_RemoveElement
  <2>. QED
    BY <1>1, <1>4, <1>6, <2>1, <2>2, <2>3
<1>9. \A d \in Ids : d \in free <=> id \in Native[d] /\ Native[d] \subseteq ToSet(ordered')
  BY <1>6, <1>8, NativeFacts
<1>10. free \in SUBSET Ids /\ IsFiniteSet(free)
  BY <1>7, FS_Subset DEF GraphInv
<1>. HIDE DEF free
<1>11. SetToSeq(free) \in Seq(Ids) /\ IsInjective(SetToSeq(free)) /\ ToSet(SetToSeq(free)) = free
  <2>1. SetToSeq(free) \in Seq(free) /\ IsInjective(SetToSeq(free)) /\ ToSet(SetToSeq(free)) = free
    BY <1>10, SetToSeqFacts
  <2>. QED
    BY <1>10, <2>1
<1>12. \A d \in Ids : d \in ToSet(queue) \cup ToSet(ordered) <=> Native[d] \subseteq ToSet(ordered)
  BY <1>2 DEF Placed
<1>13. \A d \in free : d \notin ToSet(queue) /\ d \notin ToSet(ordered)
  BY <1>4, <1>9, <1>10, <1>12
<1>14. ToSet(Tail(queue)) \cap free = {} /\ free \cap ToSet(ordered') = {}
  BY <1>3, <1>5, <1>13
<1>15. /\ queue' \in Seq(Ids) /\ IsInjective(queue')
       /\ ToSet(queue') = ToSet(Tail(queue)) \cup free
  <2>. DEFINE s == Tail(queue)
              t == SetToSeq(free)
  <2>1. /\ s \in Seq(Ids) /\ IsInjective(s) /\ t \in Seq(Ids) /\ IsInjective(t)
        /\ ToSet(s) \cap ToSet(t) = {}
    BY <1>3, <1>11, <1>14
  <2>. HIDE DEF s, t
  <2>2. s \o t \in Seq(Ids) /\ IsInjective(s \o t) /\ ToSet(s \o t) = ToSet(s) \cup ToSet(t)
    BY <2>1, ConcatFacts
  <2>. QED
    BY <1>1, <1>11, <2>2 DEF s, t
<1>16. ToSet(queue') \cap ToSet(ordered') = {}
  BY <1>2, <1>3, <1>5, <1>14, <1>15 DEF Placed
<1>17. ASSUME NEW d \in Ids
       PROVE  d \in ToSet(queue') \cup ToSet(ordered') <=> Native[d] \subseteq ToSet(ordered')
  <2>1. d \in ToSet(queue') \cup ToSet(ordered') <=> d \in ToSet(queue) \cup ToSet(ordered) \cup free
    BY <1>3, <1>5, <1>15
  <2>. QED
    BY <1>5, <1>9, <1>12, <2>1
<1>18. Ids' = Ids /\ Native' = Native
  BY <1>1, GraphDetermines
<1>19. Placed'
  BY <1>5, <1>15, <1>16, <1>17, <1>18 DEF Placed
<1>20. Counted'
  BY <1>8, <1>18 DEF Counted
<1>21. NeedsListedFirst'
  <2>. SUFFICES ASSUME NEW i \in DOMAIN ordered', NEW q \in Native[ordered'[i]]
                PROVE  \E j \in DOMAIN ordered' : j < i /\ ordered'[j] = q
    BY <1>18 DEF NeedsListedFirst
  <2>1. CASE i \in DOMAIN ordered
    BY <1>2, <1>5, <2>1 DEF NeedsListedFirst
  <2>2. CASE i = Len(ordered) + 1
    <3>1. q \in ToSet(ordered)
      BY <1>3, <1>5, <1>12, <2>2
    <3>2. PICK j \in DOMAIN ordered : ordered[j] = q
      BY <3>1 DEF ToSet
    <3>. QED
      BY <1>5, <2>2, <3>2
  <2>. QED
    BY <1>5, <2>1, <2>2
<1>22. Ordering'
  BY <1>1, <1>2, <1>19, <1>20, <1>21 DEF Ordering, inputVars
<1>. QED
  BY <1>1, <1>22 DEF OrderInv

LEMMA EndOrderStep == GraphInv /\ AffectedInv /\ OrderInv /\ EndOrder => OrderInv'
<1>. SUFFICES ASSUME GraphInv, AffectedInv, OrderInv, EndOrder PROVE OrderInv'
  OBVIOUS
<1>1. /\ pc = "order" /\ queue = <<>> /\ UNCHANGED <<inputVars, graph, orderVars, affected>>
      /\ pc' = IF Len(ordered) # Cardinality(Ids) THEN "cycle" ELSE "print"
  BY DEF EndOrder, At, Go, scopeVars
<1>2. Ordering /\ Placed /\ NeedsListedFirst
  BY <1>1 DEF OrderInv, Ordering
<1>3. ToSet(queue) = {} /\ ToSet(<<>>) = {} /\ IsInjective(<<>>) /\ DOMAIN <<>> = {}
  BY <1>1 DEF ToSet, IsInjective
<1>4. /\ ordered \in Seq(Ids) /\ IsInjective(ordered) /\ ToSet(ordered) \subseteq Ids
      /\ Cardinality(ToSet(ordered)) = Len(ordered)
  <2>1. ordered \in Seq(Ids) /\ IsInjective(ordered)
    BY <1>2 DEF Placed
  <2>2. ToSet(ordered) \subseteq Ids
    BY <2>1 DEF ToSet
  <2>. QED
    BY <2>1, <2>2, LengthFacts
<1>5. /\ ordered' = ordered /\ printed' = <<>> /\ affected' = affected
  BY <1>1, <1>2 DEF orderVars, Ordering
<1>6. CASE Len(ordered) # Cardinality(Ids)
  <2>. DEFINE U == Ids \ ToSet(ordered)
  <2>1. U \in SUBSET Ids /\ U # {}
    <3>1. ToSet(ordered) # Ids
      BY <1>4, <1>6
    <3>. QED
      BY <1>4, <3>1
  <2>2. ASSUME NEW id \in U PROVE Native[id] \cap U # {}
    <3>1. ~ (Native[id] \subseteq ToSet(ordered))
      BY <1>2, <1>3 DEF Placed
    <3>. QED
      BY <3>1, NativeFacts
  <2>. HIDE DEF U
  <2>3. Circular
    BY <2>1, <2>2, StuckIsCircular
  <2>. QED
    BY <1>1, <1>6, <2>3, GraphDetermines DEF OrderInv
<1>7. CASE Len(ordered) = Cardinality(Ids)
  <2>1. ToSet(ordered) = Ids
    BY <1>4, <1>7, FS_Subset DEF GraphInv
  <2>2. InOrder(ordered) /\ ~ Circular
    BY <1>2, <1>4, <2>1, CompleteIsInOrder
  <2>3. affected \subseteq Ids
    <3>1. AllAffected \subseteq Ids
      BY DEF AllAffected, ConsumersOf
    <3>2. affected = IF selection = NoSelection THEN AllAffected ELSE AllAffected \cap selected
      BY <1>1, <1>2 DEF AffectedInv, Ordering
    <3>. QED
      BY <3>1, <3>2
  <2>4. Ids' = Ids /\ (Circular' <=> Circular) /\ \A id : Below(id)' = Below(id)
    BY <1>1, GraphDetermines
  <2>5. InOrder(ordered)' /\ InOrder(printed)'
    <3>1. InOrder(ordered)'
      BY <1>5, <2>2, <2>4 DEF InOrder
    <3>2. InOrder(printed)'
      BY <1>3, <1>5 DEF InOrder
    <3>. QED
      BY <3>1, <3>2
  <2>6. printed' \in Seq(Ids) /\ IsInjective(printed') /\ ToSet(printed') = {}
    BY <1>3, <1>5
  <2>7. Printing'
    BY <1>4, <1>5, <2>1, <2>3, <2>4, <2>5, <2>6 DEF Printing
  <2>. QED
    BY <1>1, <1>7, <2>2, <2>4, <2>7 DEF OrderInv
<1>. QED
  BY <1>6, <1>7

LEMMA PrintAffectedStep == OrderInv /\ PrintAffected => OrderInv'
<1>. SUFFICES ASSUME OrderInv, PrintAffected PROVE OrderInv'
  OBVIOUS
<1>. DEFINE id == Head(ordered)
<1>1. /\ pc = "print" /\ pc' = "print" /\ ordered # <<>> /\ UNCHANGED <<inputVars, graph, affected>>
      /\ printed' = IF id \in affected THEN Append(printed, id) ELSE printed
      /\ ordered' = Tail(ordered)
  BY DEF PrintAffected, At, scopeVars
<1>2. ~ Circular /\ Printing
  BY <1>1 DEF OrderInv
<1>3. /\ id \in Ids /\ id \in ToSet(ordered) /\ ordered' \in Seq(Ids) /\ IsInjective(ordered')
      /\ id = ordered[1] /\ 1 \in DOMAIN ordered
      /\ \A i \in DOMAIN ordered' : /\ i \in Nat /\ i + 1 \in DOMAIN ordered
                                   /\ ordered'[i] = ordered[i + 1] /\ 1 < i + 1
      /\ ToSet(ordered) = ToSet(ordered') \cup {id} /\ id \notin ToSet(ordered')
  <2>1. ordered \in Seq(Ids) /\ IsInjective(ordered)
    BY <1>2 DEF Printing
  <2>. QED
    BY <1>1, <2>1, TailFacts
<1>4. Ids' = Ids /\ (Circular' <=> Circular) /\ \A x : Below(x)' = Below(x)
  BY <1>1, GraphDetermines
<1>5. ASSUME NEW i \in DOMAIN ordered', NEW j \in DOMAIN ordered', i < j
      PROVE  ordered'[i] \notin Below(ordered'[j])
  BY <1>2, <1>3, <1>5 DEF Printing, InOrder
<1>6. ASSUME NEW q \in ToSet(ordered') PROVE id \notin Below(q)
  <2>1. PICK j \in DOMAIN ordered' : q = ordered'[j]
    BY <1>6 DEF ToSet
  <2>. QED
    BY <1>2, <1>3, <2>1 DEF Printing, InOrder
<1>7. ASSUME NEW p \in ToSet(printed) PROVE p \notin Below(id)
  BY <1>2, <1>3, <1>7 DEF Printing
<1>8. id \notin ToSet(printed)
  BY <1>2, <1>3 DEF Printing
<1>9. InOrder(ordered)'
  BY <1>4, <1>5 DEF InOrder
<1>. HIDE DEF id
<1>10. CASE id \notin affected
  <2>1. printed' = printed /\ affected' = affected
    BY <1>1, <1>10
  <2>2. InOrder(printed)'
    BY <1>2, <1>4, <2>1 DEF Printing, InOrder
  <2>3. ToSet(printed') \cup (ToSet(ordered') \cap affected') = affected'
    BY <1>2, <1>3, <1>10, <2>1 DEF Printing
  <2>4. \A p \in ToSet(printed') : \A q \in ToSet(ordered') : p \notin Below(q)
    BY <1>2, <1>3, <2>1 DEF Printing
  <2>5. ToSet(printed') \cap ToSet(ordered') = {}
    BY <1>2, <1>3, <2>1 DEF Printing
  <2>6. printed' \in Seq(Ids) /\ IsInjective(printed')
    BY <1>2, <2>1 DEF Printing
  <2>7. Printing'
    BY <1>3, <1>4, <1>9, <2>2, <2>3, <2>4, <2>5, <2>6 DEF Printing
  <2>. QED
    BY <1>1, <1>2, <1>4, <2>7 DEF OrderInv
<1>11. CASE id \in affected
  <2>1. printed' = Append(printed, id) /\ affected' = affected
    BY <1>1, <1>11
  <2>2. printed \in Seq(Ids) /\ IsInjective(printed)
    BY <1>2 DEF Printing
  <2>3. /\ printed' \in Seq(Ids) /\ IsInjective(printed') /\ Len(printed) \in Nat
        /\ DOMAIN printed' = DOMAIN printed \cup {Len(printed) + 1}
        /\ \A i \in DOMAIN printed : printed'[i] = printed[i] /\ i < Len(printed) + 1 /\ i \in Nat
        /\ printed'[Len(printed) + 1] = id
        /\ ToSet(printed') = ToSet(printed) \cup {id}
    BY <1>3, <1>8, <2>1, <2>2, AppendFacts
  <2>4. ASSUME NEW i \in DOMAIN printed', NEW j \in DOMAIN printed', i < j
        PROVE  printed'[i] \notin Below(printed'[j])
    <3>1. i \in DOMAIN printed
      BY <2>3, <2>4
    <3>2. CASE j \in DOMAIN printed
      BY <1>2, <2>3, <2>4, <3>1, <3>2 DEF Printing, InOrder
    <3>3. CASE j = Len(printed) + 1
      <4>1. printed[i] \in ToSet(printed)
        BY <3>1 DEF ToSet
      <4>. QED
        BY <1>7, <2>3, <3>1, <3>3, <4>1
    <3>. QED
      BY <2>3, <3>2, <3>3
  <2>5. InOrder(printed)'
    BY <1>4, <2>4 DEF InOrder
  <2>6. ToSet(printed') \cup (ToSet(ordered') \cap affected') = affected'
    BY <1>2, <1>3, <1>11, <2>1, <2>3 DEF Printing
  <2>7. \A p \in ToSet(printed') : \A q \in ToSet(ordered') : p \notin Below(q)
    BY <1>2, <1>3, <1>6, <2>3 DEF Printing
  <2>8. ToSet(printed') \cap ToSet(ordered') = {}
    BY <1>2, <1>3, <2>3 DEF Printing
  <2>9. Printing'
    BY <1>3, <1>4, <1>9, <2>3, <2>5, <2>6, <2>7, <2>8 DEF Printing
  <2>. QED
    BY <1>1, <1>2, <1>4, <2>9 DEF OrderInv
<1>. QED
  BY <1>10, <1>11

LEMMA EndPrintStep == OrderInv /\ EndPrint => OrderInv'
<1>. SUFFICES ASSUME OrderInv, EndPrint PROVE OrderInv'
  OBVIOUS
<1>1. /\ pc = "print" /\ pc' = "done" /\ ordered = <<>>
      /\ UNCHANGED <<inputVars, graph, affected, printed>> /\ ~ Circular /\ Printing
  BY DEF EndPrint, At, Go, scopeVars, orderVars, OrderInv
<1>2. ToSet(ordered) = {}
  BY <1>1 DEF ToSet
<1>3. IsInjective(printed) /\ ToSet(printed) = affected /\ InOrder(printed)
  BY <1>1, <1>2 DEF Printing
<1>4. (Circular' <=> Circular) /\ \A id : Below(id)' = Below(id)
  BY <1>1, GraphDetermines
<1>5. InOrder(printed)'
  BY <1>1, <1>3, <1>4 DEF InOrder
<1>. QED
  BY <1>1, <1>3, <1>4, <1>5 DEF OrderInv

LEMMA OrderStep == GraphInv /\ AffectedInv /\ OrderInv /\ [Work]_vars => OrderInv'
<1>. SUFFICES ASSUME GraphInv, AffectedInv, OrderInv, [Work]_vars PROVE OrderInv'
  OBVIOUS
<1>1. CASE \/ BuildGraph \/ SelectRoots \/ Select \/ EndSelect
           \/ Diff \/ AssignOwners \/ Propagate \/ EndPropagate
  <2>1. /\ pc \in {"discovered", "roots", "select", "diff", "own", "propagate"}
        /\ pc' \notin {"order", "cycle", "print"}
        /\ pc' = "done" => command' # "affected"
        /\ UNCHANGED orderVars
    BY <1>1 DEF BuildGraph, SelectRoots, Select, EndSelect, Diff, AssignOwners, Propagate,
       EndPropagate, At, Go, inputVars
  <2>. QED
    BY <2>1 DEF OrderInv, orderVars
<1>2. CASE UNCHANGED vars
  <2>1. UNCHANGED <<command, pc, graph, affected, indegree, queue, ordered, printed>>
    BY <1>2 DEF vars, scopeVars, inputVars, orderVars
  <2>2. Ids' = Ids /\ Native' = Native /\ (Circular' <=> Circular) /\ \A id : Below(id)' = Below(id)
    BY <2>1, GraphDetermines
  <2>3. InOrder(ordered)' = InOrder(ordered) /\ InOrder(printed)' = InOrder(printed)
    BY <2>1, <2>2 DEF InOrder
  <2>4. Printing' = Printing
    BY <2>1, <2>2, <2>3 DEF Printing
  <2>5. Placed' = Placed /\ Counted' = Counted /\ NeedsListedFirst' = NeedsListedFirst
    BY <2>1, <2>2 DEF Placed, Counted, NeedsListedFirst
  <2>. QED
    BY <2>1, <2>2, <2>3, <2>4, <2>5 DEF OrderInv, Ordering
<1>. QED
  BY <1>1, <1>2, StartOrderStep, OrderPackageStep, EndOrderStep, PrintAffectedStep, EndPrintStep
     DEF Work

(***************************************************************************)
(* The affected packages are printed once each, after all they need, and   *)
(* the cycle error is given exactly when native dependencies form a circle *)
(* (topological_order, affected_in_native_order).                          *)
(***************************************************************************)
THEOREM AffectedPrintedInOrder == Spec => []PrintedInOrder
<1>1. Init => GraphInv /\ AffectedInv /\ OrderInv
  BY GraphInit, AffectedInit, OrderInit
<1>2. GraphInv /\ AffectedInv /\ OrderInv /\ [Work \/ (Ended /\ UNCHANGED vars)]_vars
        => (GraphInv /\ AffectedInv /\ OrderInv)'
  BY GraphStep, AffectedStep, OrderStep
<1>3. OrderInv => PrintedInOrder
  BY DEF OrderInv, PrintedInOrder, Circular, Below, Native, InOrder, At
<1>. QED
  BY <1>1, <1>2, <1>3, PTL DEF Spec

-----------------------------------------------------------------------------

(* No change is missed *)

(***************************************************************************)
(* A tree of files.  A manifest has all directories of packages above it,  *)
(* and its own is the innermost.                                           *)
(***************************************************************************)
IsTree(tree) ==
  /\ DOMAIN tree \subseteq Seq(STRING) \ {<<>>}
  /\ \A f, g \in DOMAIN tree : IsPrefix(f, g) => f = g

LEMMA TreesAreTrees ==
  ASSUME NEW h \in Histories
  PROVE  IsTree(h.base) /\ IsTree(h.head)
BY HistoriesAssumption DEF IsTree

LEMMA PathFacts ==
  ASSUME NEW f \in Seq(STRING) \ {<<>>}
  PROVE  /\ Directory(f) \in Seq(STRING) /\ Len(Directory(f)) = Len(f) - 1
         /\ Len(f) \in Nat \ {0} /\ SubSeq(f, 1, Len(f)) = f
         /\ Under(f, Directory(f)) /\ IsPrefix(f, f)
<1>1. Len(f) \in Nat \ {0} /\ SubSeq(f, 1, Len(f)) = f
  OBVIOUS
<1>2. SubSeq(f, 1, Len(f) - 1) \in Seq(STRING) /\ Len(SubSeq(f, 1, Len(f) - 1)) = Len(f) - 1
  BY <1>1, SubSeqProperties
<1>. QED
  BY <1>1, <1>2 DEF Directory, Front, Under, IsPrefix

LEMMA OwnDirectoryIsInnermost ==
  ASSUME NEW tree, IsTree(tree), NEW f \in DOMAIN tree, NEW q \in DOMAIN tree,
         Under(f, Directory(q))
  PROVE  Len(Directory(q)) <= Len(Directory(f))
<1>1. /\ f \in Seq(STRING) \ {<<>>} /\ q \in Seq(STRING) \ {<<>>}
      /\ \A a, b \in DOMAIN tree : IsPrefix(a, b) => a = b
  BY DEF IsTree
<1>2. /\ Len(Directory(f)) = Len(f) - 1 /\ Len(Directory(q)) = Len(q) - 1
      /\ Len(f) \in Nat /\ Len(q) \in Nat
      /\ SubSeq(f, 1, Len(f)) = f /\ Directory(q) \in Seq(STRING)
      /\ IsPrefix(Directory(q), q)
  BY <1>1, PathFacts DEF Under
<1>3. ASSUME Len(Directory(q)) = Len(f) PROVE FALSE
  <2>1. Directory(q) = f
    <3>1. SubSeq(Directory(q), 1, Len(f)) = f
      BY <1>2, <1>3 DEF Under, IsPrefix
    <3>2. SubSeq(Directory(q), 1, Len(Directory(q))) = Directory(q)
      BY <1>2
    <3>. QED
      BY <1>3, <3>1, <3>2
  <2>2. f = q
    BY <1>1, <1>2, <2>1
  <2>. QED
    BY <1>2, <1>3, <2>2
<1>4. Len(Directory(q)) <= Len(f)
  BY DEF Under, IsPrefix
<1>. QED
  BY <1>2, <1>3, <1>4

-----------------------------------------------------------------------------

(***************************************************************************)
(* Discovery in two trees.                                                 *)
(***************************************************************************)
Same(base, head, f) ==
  (f \in DOMAIN base <=> f \in DOMAIN head) /\ (f \in DOMAIN base => base[f] = head[f])

LEMMA MemberKept ==
  ASSUME NEW base, NEW head, IsTree(base), IsTree(head), NEW includes, NEW excludes,
         NEW name,
         NEW m \in ExpandMembers(base, includes, excludes, name), m \in DOMAIN head
  PROVE  m \in ExpandMembers(head, includes, excludes, name)
<1>1. /\ m \in DOMAIN base /\ ~ Ignored(m) /\ Last(m) = name
      /\ m \notin ExpandPatterns(base, excludes)
  BY DEF ExpandMembers
<1>2. PICK path \in ExpandPatterns(base, includes) :
        m = IF path \in DOMAIN base THEN path ELSE Append(path, name)
  BY DEF ExpandMembers
<1>3. /\ m \in Seq(STRING) \ {<<>>} /\ name \in STRING
      /\ \A a, b \in DOMAIN head : IsPrefix(a, b) => a = b
  <2>1. m \in Seq(STRING) \ {<<>>}
    BY DEF IsTree
  <2>2. m[Len(m)] \in STRING
    BY <2>1
  <2>. QED
    BY <1>1, <2>1, <2>2 DEF IsTree, Last
<1>4. \A tree : m \in DOMAIN tree => m \in Entries(tree)
  <2>1. m \in Prefixes(m) /\ m # <<>>
    <3>1. Len(m) \in 0 .. Len(m) /\ SubSeq(m, 1, Len(m)) = m
      BY <1>3, PathFacts
    <3>. QED
      BY <1>3, <3>1 DEF Prefixes
  <2>. QED
    BY <2>1 DEF Entries
<1>5. /\ path \in Entries(base) /\ ~ Ignored(path) /\ \E p \in includes : Matches(p, path)
  BY DEF ExpandPatterns
<1>6. m \notin ExpandPatterns(head, excludes)
  BY <1>1, <1>4 DEF ExpandPatterns
<1>7. CASE path \in DOMAIN base
  <2>1. path \in ExpandPatterns(head, includes) /\ path = m
    BY <1>2, <1>4, <1>5, <1>7 DEF ExpandPatterns
  <2>. QED
    BY <1>1, <1>6, <2>1 DEF ExpandMembers
<1>8. CASE path \notin DOMAIN base
  <2>1. path \in Seq(STRING) /\ path # <<>>
    <3>1. PICK f \in DOMAIN base : path \in Prefixes(f)
      BY <1>5 DEF Entries
    <3>2. PICK l \in 0 .. Len(f) : path = SubSeq(f, 1, l)
      BY <3>1 DEF Prefixes
    <3>3. f \in Seq(STRING)
      BY DEF IsTree
    <3>. QED
      BY <1>5, <3>2, <3>3 DEF Entries
  <2>2. /\ Len(path) \in 0 .. Len(m) /\ SubSeq(m, 1, Len(path)) = path
        /\ SubSeq(path, 1, Len(path)) = path /\ Len(path) # Len(m) /\ Len(path) <= Len(m)
    BY <1>2, <1>8, <2>1
  <2>3. path \in Entries(head)
    <3>1. path \in Prefixes(m)
      BY <2>2 DEF Prefixes
    <3>. QED
      BY <2>1, <3>1 DEF Entries
  <2>4. path \notin DOMAIN head
    BY <1>3, <2>2 DEF IsPrefix
  <2>5. path \in ExpandPatterns(head, includes)
    BY <1>5, <2>3 DEF ExpandPatterns
  <2>. QED
    BY <1>1, <1>2, <1>6, <1>8, <2>4, <2>5 DEF ExpandMembers
<1>. QED
  BY <1>7, <1>8

ManifestsOf(tree, e) ==
  CASE e = "cargo" -> CargoManifests(tree)
    [] e = "js"    -> PackageJsonManifests(tree)
    [] OTHER       -> UvManifests(tree)

Parsed(tree, e, path) ==
  CASE e = "cargo" -> ParseCargo(tree, path)
    [] e = "js"    -> ParsePackageJson(tree, path)
    [] OTHER       -> ParsePyProject(tree, path)

RootsSame(base, head) ==
  (\A e \in Ecosystems : Same(base, head, RootManifest(e))) /\ Same(base, head, PnpmFile)

LEMMA ManifestFacts ==
  ASSUME NEW tree, NEW e \in Ecosystems, NEW m \in ManifestsOf(tree, e)
  PROVE  m \in DOMAIN tree /\ Last(m) = ManifestName[e]
<1>1. \A i, x, n : \A l \in ExpandMembers(tree, i, x, n) : l \in DOMAIN tree /\ Last(l) = n
  BY DEF ExpandMembers
<1>2. \A d \in Ecosystems : Last(RootManifest(d)) = ManifestName[d]
  BY DEF Last, RootManifest
<1>. QED
  BY <1>1, <1>2 DEF ManifestsOf, CargoManifests, PackageJsonManifests, UvManifests, Ecosystems

LEMMA ManifestKept ==
  ASSUME NEW base, NEW head, IsTree(base), IsTree(head), RootsSame(base, head),
         NEW e \in Ecosystems, NEW m \in ManifestsOf(base, e), m \in DOMAIN head
  PROVE  m \in ManifestsOf(head, e)
<1>1. \A d \in Ecosystems : \A field :
        Listed(base, RootManifest(d), field) = Listed(head, RootManifest(d), field)
  BY DEF RootsSame, Same, Listed
<1>2. \A field : Listed(base, PnpmFile, field) = Listed(head, PnpmFile, field)
  BY DEF RootsSame, Same, Listed
<1>4. \A d \in Ecosystems : \A i, x :
        m \in ExpandMembers(base, i, x, ManifestName[d]) =>
          m \in ExpandMembers(head, i, x, ManifestName[d])
  BY MemberKept
<1>5. \A d \in Ecosystems :
        m = RootManifest(d) => m \in DOMAIN base /\ m \in DOMAIN head /\ base[m] = head[m]
  BY ManifestFacts DEF RootsSame, Same
<1>6. "cargo" \in Ecosystems /\ "js" \in Ecosystems /\ "uv" \in Ecosystems
  BY DEF Ecosystems
<1>7. CASE e = "cargo"
  <2>1. m \in CargoManifests(base)
    BY <1>7 DEF ManifestsOf
  <2>2. m \in CargoManifests(head)
    BY <1>1, <1>4, <1>5, <1>6, <2>1 DEF CargoManifests
  <2>. QED
    BY <1>7, <2>2 DEF ManifestsOf
<1>8. CASE e = "js"
  <2>1. m \in PackageJsonManifests(base)
    BY <1>8 DEF ManifestsOf
  <2>2. m \in PackageJsonManifests(head)
    BY <1>1, <1>2, <1>4, <1>5, <1>6, <2>1 DEF PackageJsonManifests
  <2>. QED
    BY <1>8, <2>2 DEF ManifestsOf
<1>9. CASE e = "uv"
  <2>1. m \in UvManifests(base)
    BY <1>9 DEF ManifestsOf
  <2>2. m \in UvManifests(head)
    BY <1>1, <1>4, <1>5, <1>6, <2>1 DEF UvManifests
  <2>. QED
    BY <1>9, <2>2 DEF ManifestsOf
<1>. QED
  BY <1>7, <1>8, <1>9 DEF Ecosystems

(***************************************************************************)
(* The greatest of some numbers that have a bound.                         *)
(***************************************************************************)
LEMMA GreatestBelow ==
  ASSUME NEW k \in Nat, NEW S \in SUBSET (0 .. k), S # {}
  PROVE  Max(S) \in S
<1>. DEFINE T == {k - n : n \in S}
<1>1. T \in SUBSET Nat /\ T # {}
  <2>1. \A n \in S : k - n \in Nat
    OBVIOUS
  <2>2. \A u \in T : u \in Nat
    BY <2>1
  <2>3. PICK n \in S : TRUE
    OBVIOUS
  <2>4. k - n \in T
    OBVIOUS
  <2>. HIDE DEF T
  <2>. QED
    BY <2>2, <2>4
<1>2. PICK t \in T : \A u \in T : ~ (<<u, t>> \in OpToRel(<, Nat))
  <2>. HIDE DEF T
  <2>. QED
    BY <1>1, NatLessThanWellFounded, WFMin, Zenon
<1>3. \A u \in T : ~ (u < t)
  BY <1>1, <1>2 DEF OpToRel
<1>4. PICK x \in S : t = k - x
  OBVIOUS
<1>5. ASSUME NEW y \in S PROVE x >= y
  <2>1. k - y \in T /\ x \in Nat /\ y \in Nat
    OBVIOUS
  <2>2. ~ (k - y < k - x)
    BY <1>3, <1>4, <2>1
  <2>. QED
    BY <2>1, <2>2
<1>. QED
  BY <1>5, Zenon DEF Max

LEMMA MaxIs ==
  ASSUME NEW S \in SUBSET Nat, NEW x \in S, \A y \in S : y <= x
  PROVE  Max(S) = x
<1>1. \A y \in S : x >= y
  OBVIOUS
<1>2. Max(S) \in S /\ \A y \in S : Max(S) >= y
  BY <1>1, Zenon DEF Max
<1>3. PICK n \in S : n = Max(S)
  BY <1>2
<1>. QED
  BY <1>2, <1>3

(***************************************************************************)
(* A Cargo manifest inherits the same where the files above it that        *)
(* describe a workspace are the same.                                      *)
(***************************************************************************)
LEMMA InheritsSame ==
  ASSUME NEW base, NEW head, NEW path \in Seq(STRING) \ {<<>>},
         \A n \in 0 .. Len(path) - 1 :
           LET m == Append(SubSeq(path, 1, n), ManifestName["cargo"])
           IN  \/ Same(base, head, m)
               \/ /\ m \in DOMAIN base => base[m].workspace = NoWorkspace
                  /\ m \in DOMAIN head => head[m].workspace = NoWorkspace
  PROVE  InheritedWorkspace(base, path) = InheritedWorkspace(head, path)
<1>. DEFINE Above(n) == Append(SubSeq(path, 1, n), ManifestName["cargo"])
            Describing(tree) == {n \in 0 .. Len(path) - 1 :
                                   Above(n) \in DOMAIN tree /\ tree[Above(n)].workspace # NoWorkspace}
<1>1. Describing(base) = Describing(head)
  BY DEF Same
<1>2. \A n \in Describing(base) : base[Above(n)] = head[Above(n)]
  BY DEF Same
<1>3. Len(path) - 1 \in Nat /\ Describing(base) \in SUBSET (0 .. Len(path) - 1)
  OBVIOUS
<1>4. \A tree : InheritedWorkspace(tree, path)
                  = IF Describing(tree) = {} THEN NoWorkspace
                    ELSE tree[Above(Max(Describing(tree)))].workspace
  BY DEF InheritedWorkspace
<1>5. CASE Describing(base) = {}
  BY <1>1, <1>4, <1>5
<1>6. CASE Describing(base) # {}
  <2>1. Max(Describing(base)) \in Describing(base)
    BY <1>3, <1>6, GreatestBelow
  <2>. QED
    BY <1>1, <1>2, <1>4, <1>6, <2>1
<1>. QED
  BY <1>5, <1>6

(***************************************************************************)
(* A manifest reads the same where it is the same and inherits the same.   *)
(***************************************************************************)
LEMMA ParsedSame ==
  ASSUME NEW base, NEW head, NEW e \in Ecosystems, NEW path, base[path] = head[path],
         e = "cargo" => InheritedWorkspace(base, path) = InheritedWorkspace(head, path)
  PROVE  Parsed(base, e, path) = Parsed(head, e, path)
<1>1. NameOf(base, path) = NameOf(head, path)
  BY DEF NameOf
<1>2. \A section : LocalDependencies(base, path, section) = LocalDependencies(head, path, section)
  BY DEF LocalDependencies
<1>3. ParsePackageJson(base, path) = ParsePackageJson(head, path)
  <2>1. /\ LocalDependencies(base, path, "dependencies") = LocalDependencies(head, path, "dependencies")
        /\ LocalDependencies(base, path, "peerDependencies")
             = LocalDependencies(head, path, "peerDependencies")
        /\ LocalDependencies(base, path, "devDependencies")
             = LocalDependencies(head, path, "devDependencies")
    BY <1>2
  <2>. QED
    BY <1>1, <2>1, Zenon DEF ParsePackageJson
<1>4. ParsePyProject(base, path) = ParsePyProject(head, path)
  <2>1. /\ LocalDependencies(base, path, "dependencies") = LocalDependencies(head, path, "dependencies")
        /\ LocalDependencies(base, path, "optional-dependencies")
             = LocalDependencies(head, path, "optional-dependencies")
        /\ LocalDependencies(base, path, "dependency-groups")
             = LocalDependencies(head, path, "dependency-groups")
        /\ LocalDependencies(base, path, "tool.uv.dev-dependencies")
             = LocalDependencies(head, path, "tool.uv.dev-dependencies")
    BY <1>2
  <2>. QED
    BY <1>1, <2>1, Zenon DEF ParsePyProject
<1>5. ASSUME e = "cargo" PROVE ParseCargo(base, path) = ParseCargo(head, path)
  <2>1. \A section :
          LocalCargoDependencies(base, path, section) = LocalCargoDependencies(head, path, section)
    BY <1>5 DEF LocalCargoDependencies
  <2>2. /\ LocalCargoDependencies(base, path, "dependencies")
             = LocalCargoDependencies(head, path, "dependencies")
        /\ LocalCargoDependencies(base, path, "build-dependencies")
             = LocalCargoDependencies(head, path, "build-dependencies")
        /\ LocalCargoDependencies(base, path, "dev-dependencies")
             = LocalCargoDependencies(head, path, "dev-dependencies")
    BY <2>1
  <2>. QED
    BY <1>1, <1>5, <2>2, Zenon DEF ParseCargo
<1>. QED
  BY <1>3, <1>4, <1>5 DEF Parsed

(***************************************************************************)
(* The packages discovered are those read from the manifests, one each,    *)
(* and their references those that name a package of the ecosystem.        *)
(***************************************************************************)
Resolved(tree, e, names) == {x \in {p.id : p \in Discovered(tree)} : \E n \in names : x = <<e, n>>}

LEMMA RawFacts ==
  ASSUME NEW tree
  PROVE  /\ \A e \in Ecosystems : \A path \in ManifestsOf(tree, e) :
              Parsed(tree, e, path) \in RawPackages(tree)
         /\ \A r \in RawPackages(tree) : \E e \in Ecosystems : \E path \in ManifestsOf(tree, e) :
              r = Parsed(tree, e, path)
<1>1. "cargo" \in Ecosystems /\ "js" \in Ecosystems /\ "uv" \in Ecosystems
  BY DEF Ecosystems
<1>2. /\ ManifestsOf(tree, "cargo") = CargoManifests(tree)
      /\ ManifestsOf(tree, "js") = PackageJsonManifests(tree)
      /\ ManifestsOf(tree, "uv") = UvManifests(tree)
  BY DEF ManifestsOf
<1>3. \A path : /\ Parsed(tree, "cargo", path) = ParseCargo(tree, path)
                /\ Parsed(tree, "js", path) = ParsePackageJson(tree, path)
                /\ Parsed(tree, "uv", path) = ParsePyProject(tree, path)
  BY DEF Parsed
<1>4. ASSUME NEW e \in Ecosystems, NEW path \in ManifestsOf(tree, e)
      PROVE  Parsed(tree, e, path) \in RawPackages(tree)
  <2>1. e = "cargo" \/ e = "js" \/ e = "uv"
    BY DEF Ecosystems
  <2>. QED
    BY <1>2, <1>3, <2>1 DEF RawPackages
<1>5. ASSUME NEW r \in RawPackages(tree)
      PROVE  \E e \in Ecosystems : \E path \in ManifestsOf(tree, e) : r = Parsed(tree, e, path)
  BY <1>1, <1>2, <1>3 DEF RawPackages
<1>. QED
  BY <1>4, <1>5

LEMMA ParsedId ==
  ASSUME NEW tree, NEW e \in Ecosystems, NEW path
  PROVE  \E n : Parsed(tree, e, path).id = <<e, n>>
<1>1. e = "cargo" \/ e = "js" \/ e = "uv"
  BY DEF Ecosystems
<1>. QED
  BY <1>1 DEF Parsed, ParseCargo, ParsePackageJson, ParsePyProject

LEMMA ParsedFacts ==
  ASSUME NEW tree, NEW e \in Ecosystems, NEW path
  PROVE  /\ Parsed(tree, e, path).path = path
         /\ Parsed(tree, e, path).bridges = tree[path].bridges
<1>1. e = "cargo" \/ e = "js" \/ e = "uv"
  BY DEF Ecosystems
<1>. QED
  BY <1>1 DEF Parsed, ParseCargo, ParsePackageJson, ParsePyProject

LEMMA PackageFor ==
  ASSUME NEW tree, ~ DiscoveryFails(tree), NEW r \in RawPackages(tree)
  PROVE  \E p \in Discovered(tree) : p.id = r.id /\ p.path = r.path
<1>. DEFINE Named(names) == {<<r.id[1], n>> : n \in names \cap Candidates(RawPackages(tree), r.id[1])}
            p == [id |-> r.id, path |-> r.path, bridges |-> r.bridges,
                  publishable |-> r.publishable,
                  internal |-> Named(r.declared), development |-> Named(TestOnly(r))]
<1>1. p \in Discovered(tree)
  BY DEF ResolveInternalDependencies, Discovered
<1>2. p.id = r.id /\ p.path = r.path
  OBVIOUS
<1>. QED
  BY <1>1, <1>2

LEMMA PackageOf ==
  ASSUME NEW tree, NEW p \in Discovered(tree)
  PROVE  /\ ~ DiscoveryFails(tree)
         /\ \E e \in Ecosystems : \E path \in ManifestsOf(tree, e) :
              LET r == Parsed(tree, e, path)
              IN  /\ p.id = r.id /\ p.path = path /\ p.bridges = r.bridges
                  /\ p.internal = Resolved(tree, e, r.declared)
                  /\ p.development = Resolved(tree, e, TestOnly(r))
<1>. DEFINE raw == RawPackages(tree)
<1>1. ~ DiscoveryFails(tree) /\ p \in ResolveInternalDependencies(raw)
  BY DEF Discovered
<1>. HIDE DEF raw
<1>2. PICK r \in raw :
        /\ p.id = r.id /\ p.path = r.path /\ p.bridges = r.bridges
        /\ p.internal = {<<r.id[1], n>> : n \in r.declared \cap Candidates(raw, r.id[1])}
        /\ p.development = {<<r.id[1], n>> : n \in TestOnly(r) \cap Candidates(raw, r.id[1])}
  BY <1>1 DEF ResolveInternalDependencies
<1>3. PICK e : e \in Ecosystems /\ \E path \in ManifestsOf(tree, e) : r = Parsed(tree, e, path)
  BY RawFacts DEF raw
<1>4. PICK path \in ManifestsOf(tree, e) : r = Parsed(tree, e, path)
  BY <1>3
<1>5. r.id[1] = e /\ r.path = path
  <2>1. r.id[1] = e
    BY <1>3, <1>4, ParsedId
  <2>2. r.path = path
    BY <1>3, <1>4, ParsedFacts
  <2>. QED
    BY <2>1, <2>2
<1>6. \A q \in raw : \E d, n : q.id = <<d, n>>
  <2>. SUFFICES ASSUME NEW q \in raw PROVE \E d, n : q.id = <<d, n>>
    OBVIOUS
  <2>1. \E d \in Ecosystems : \E file : q = Parsed(tree, d, file)
    BY RawFacts DEF raw
  <2>. QED
    BY <2>1, ParsedId
<1>7. \A n : n \in Candidates(raw, e) <=> <<e, n>> \in {q.id : q \in Discovered(tree)}
  <2>1. ASSUME NEW n \in Candidates(raw, e) PROVE <<e, n>> \in {q.id : q \in Discovered(tree)}
    <3>1. PICK q \in raw : q.id[1] = e /\ n = q.id[2]
      BY <2>1 DEF Candidates
    <3>2. q.id = <<e, n>>
      BY <1>6, <3>1
    <3>. QED
      BY <1>1, <3>2, PackageFor DEF raw
  <2>2. ASSUME NEW n, <<e, n>> \in {q.id : q \in Discovered(tree)} PROVE n \in Candidates(raw, e)
    <3>1. PICK q \in ResolveInternalDependencies(raw) : q.id = <<e, n>>
      BY <1>1, <2>2 DEF Discovered, raw
    <3>2. PICK s \in raw : s.id = q.id
      BY DEF ResolveInternalDependencies
    <3>. QED
      BY <3>1, <3>2 DEF Candidates
  <2>. QED
    BY <2>1, <2>2
<1>8. \A names : {<<e, n>> : n \in names \cap Candidates(raw, e)} = Resolved(tree, e, names)
  BY <1>7 DEF Resolved
<1>. QED
  BY <1>1, <1>2, <1>3, <1>4, <1>5, <1>8

LEMMA KeptHaveTheirIds ==
  ASSUME NEW K, NEW g \in Graphs(K), NEW id \in DOMAIN g
  PROVE  g[id] \in K /\ g[id].id = id
<1>. DEFINE ids == {p.id : p \in K}
<1>1. PICK kept \in SUBSET K :
        /\ \A i \in ids : \E p \in kept : \A q \in kept : q.id = i <=> q = p
        /\ g = [i \in ids |-> CHOOSE p \in kept : p.id = i]
  BY DEF Graphs
<1>2. \E p \in kept : p.id = id
  BY <1>1
<1>. QED
  BY <1>1, <1>2

-----------------------------------------------------------------------------

(***************************************************************************)
(* Where the packages of the base and of the head are compared, and no     *)
(* changed path concerns all of them.                                      *)
(***************************************************************************)
Comparing ==
  /\ GraphInv
  /\ ~ DiscoveryFails(history.head) /\ graph \in Graphs(packages)
  /\ changed = AffectedPaths(ChangedFiles(history.base, history.head))

Assumed == NamesKept /\ OwnersKept /\ ManifestsSeen /\ WorkspacesKept

OwnedOnly ==
  /\ \A f \in changed : ~ ForEverybody(f)
  /\ \A id \in Ids : \A b \in graph[id].bridges : Resolves(graph, b)

Trees == {history.base, history.head}

LEMMA UnchangedIsSame ==
  ASSUME Comparing, Assumed, NEW tree \in Trees, NEW path, path \notin changed,
         WorkspaceWide(path) \/ IsPackageManifest(path)
  PROVE  Same(tree, history.head, path)
<1>1. path \notin ChangedFiles(history.base, history.head)
  BY DEF Assumed, ManifestsSeen
<1>. QED
  BY <1>1 DEF ChangedFiles, Same, Trees

LEMMA RootsAreSame ==
  ASSUME Comparing, Assumed, OwnedOnly, NEW tree \in Trees
  PROVE  RootsSame(tree, history.head)
<1>1. \A path : WorkspaceWide(path) => path \notin changed
  BY DEF OwnedOnly, ForEverybody
<1>2. WorkspaceWide(PnpmFile) /\ \A e \in Ecosystems : WorkspaceWide(RootManifest(e))
  BY DEF WorkspaceWide
<1>. QED
  BY <1>1, <1>2, UnchangedIsSame DEF RootsSame

(***************************************************************************)
(* A package of either tree is one of the head, with the same manifest.    *)
(***************************************************************************)
LEMMA PackageRemains ==
  ASSUME Comparing, Assumed, OwnedOnly, NEW tree \in Trees, NEW p \in Discovered(tree)
  PROVE  p.id \in Ids /\ graph[p.id].path = p.path /\ p.path \in DOMAIN tree
<1>1. PICK e : e \in Ecosystems /\ p.path \in ManifestsOf(tree, e)
  BY PackageOf
<1>2. p.path \in DOMAIN tree /\ Last(p.path) = ManifestName[e]
  BY <1>1, ManifestFacts
<1>3. Ids = {q.id : q \in Discovered(history.head)}
  BY GraphFacts DEF Comparing, GraphInv, Ids
<1>4. \A id \in Ids : graph[id] \in Discovered(history.head) /\ graph[id].id = id
  BY KeptHaveTheirIds DEF Comparing, GraphInv, Ids
<1>5. p.path \in DOMAIN history.head
  <2>. SUFFICES ASSUME p.path \notin DOMAIN history.head PROVE FALSE
    OBVIOUS
  <2>1. IsPackageManifest(p.path)
    BY <1>1, <1>2 DEF IsPackageManifest
  <2>2. ~ Same(tree, history.head, p.path)
    BY <1>2 DEF Same
  <2>3. p.path \in changed
    BY <2>1, <2>2, UnchangedIsSame
  <2>4. PICK id \in Ids : graph[id].path = p.path
    BY <2>1, <2>3 DEF OwnedOnly, ForEverybody
  <2>5. graph[id].path \in DOMAIN history.head
    BY <1>4, <2>4, PackageOf, ManifestFacts
  <2>. QED
    BY <2>4, <2>5
<1>6. IsTree(tree) /\ IsTree(history.head)
  BY TreesAreTrees DEF Trees, Comparing, GraphInv
<1>7. p.path \in ManifestsOf(history.head, e)
  BY <1>1, <1>5, <1>6, RootsAreSame, ManifestKept
<1>8. PICK q \in Discovered(history.head) : q.path = p.path
  <2>1. Parsed(history.head, e, p.path) \in RawPackages(history.head)
    BY <1>1, <1>7, RawFacts
  <2>2. Parsed(history.head, e, p.path).path = p.path
    BY <1>1, ParsedFacts
  <2>. QED
    BY <2>1, <2>2, PackageFor DEF Comparing
<1>9. p.id \in Ids
  <2>1. CASE tree = history.base
    BY <1>3, <1>8, <2>1 DEF Assumed, NamesKept
  <2>2. CASE tree = history.head
    BY <1>3, <2>2
  <2>. QED
    BY <2>1, <2>2 DEF Trees
<1>10. graph[p.id].path = p.path
  BY <1>4, <1>9 DEF Assumed, NamesKept, Trees
<1>. QED
  BY <1>2, <1>9, <1>10

(***************************************************************************)
(* The graph there was, or is, with the names of the model.                *)
(***************************************************************************)
References(g, id) ==
  g[id].internal \cup g[id].development
  \cup {BridgeTarget(g, b) : b \in {b \in g[id].bridges : Resolves(g, b)}}

LEMMA GraphPaths ==
  ASSUME Comparing, Assumed, OwnedOnly, NEW tree \in Trees,
         NEW g \in Graphs(Discovered(tree)), NEW id \in DOMAIN g
  PROVE  /\ id \in Ids /\ g[id] \in Discovered(tree) /\ g[id].id = id
         /\ graph[id].path = g[id].path
BY KeptHaveTheirIds, PackageRemains

LEMMA DirectoriesOf ==
  ASSUME Comparing, NEW d \in Directories
  PROVE  /\ Len(d) \in Nat
         /\ \E id \in Ids : d = Directory(graph[id].path) /\ graph[id].path \in DOMAIN history.head
<1>1. PICK id \in Ids : d = Directory(graph[id].path)
  BY DEF Directories
<1>2. graph[id] \in Discovered(history.head)
  BY KeptHaveTheirIds DEF Comparing, GraphInv, Ids
<1>3. graph[id].path \in DOMAIN history.head
  BY <1>2, PackageOf, ManifestFacts
<1>4. graph[id].path \in Seq(STRING) \ {<<>>}
  BY <1>3, TreesAreTrees DEF IsTree, Comparing, GraphInv
<1>5. Len(d) \in Nat
  BY <1>1, <1>4, PathFacts
<1>. QED
  BY <1>1, <1>3, <1>5

(***************************************************************************)
(* A package whose directory is the innermost around a path owns it.       *)
(***************************************************************************)
LEMMA InnermostOwns ==
  ASSUME Comparing, NEW f, NEW id \in Ids, Under(f, Directory(graph[id].path)),
         \A d \in Around(f) : Len(d) <= Len(Directory(graph[id].path))
  PROVE  id \in Owners(f)
<1>. DEFINE lengths == {Len(d) : d \in Around(f)}
            own == Directory(graph[id].path)
<1>1. own \in Around(f) /\ Around(f) \subseteq Directories
  BY DEF Around, Directories
<1>2. \A n \in lengths : n \in Nat /\ n <= Len(own)
  BY <1>1, DirectoriesOf
<1>3. Len(own) \in lengths /\ lengths \in SUBSET Nat
  BY <1>1, <1>2
<1>. HIDE DEF lengths
<1>4. Max(lengths) = Len(own)
  BY <1>2, <1>3, MaxIs
<1>. QED
  BY <1>4 DEF Owners, lengths

LEMMA OwnsItsManifest ==
  ASSUME Comparing, NEW id \in Ids
  PROVE  id \in Owners(graph[id].path)
<1>. DEFINE f == graph[id].path
<1>1. graph[id] \in Discovered(history.head)
  BY KeptHaveTheirIds DEF Comparing, GraphInv, Ids
<1>2. f \in DOMAIN history.head
  BY <1>1, PackageOf, ManifestFacts
<1>3. IsTree(history.head)
  BY TreesAreTrees DEF Comparing, GraphInv
<1>4. Under(f, Directory(f))
  BY <1>2, <1>3, PathFacts DEF IsTree
<1>5. ASSUME NEW d \in Around(f) PROVE Len(d) <= Len(Directory(f))
  <2>1. d \in Directories /\ Under(f, d)
    BY DEF Around
  <2>2. PICK o \in Ids : d = Directory(graph[o].path) /\ graph[o].path \in DOMAIN history.head
    BY <2>1, DirectoriesOf
  <2>. QED
    BY <1>2, <1>3, <2>1, <2>2, OwnDirectoryIsInnermost
<1>. QED
  BY <1>4, <1>5, InnermostOwns

LEMMA FormerOwnerOwns ==
  ASSUME Comparing, Assumed, OwnedOnly, NEW tree \in Trees,
         NEW g \in Graphs(Discovered(tree)), NEW f \in changed \cap DOMAIN tree,
         NEW id \in DOMAIN g, Under(f, Directory(g[id].path)),
         \A o \in DOMAIN g : Under(f, Directory(g[o].path)) =>
           Len(Directory(g[o].path)) <= Len(Directory(g[id].path))
  PROVE  id \in Owners(f)
<1>1. id \in Ids /\ graph[id].path = g[id].path
  BY GraphPaths
<1>2. DOMAIN g = {p.id : p \in Discovered(tree)}
  BY GraphFacts
<1>3. ASSUME NEW d \in Around(f) PROVE Len(d) <= Len(Directory(graph[id].path))
  <2>1. PICK p \in Discovered(tree) : d = Directory(p.path)
    <3>1. CASE tree = history.base
      BY <3>1 DEF Assumed, OwnersKept
    <3>2. CASE tree = history.head
      <4>1. PICK o \in Ids : d = Directory(graph[o].path)
        BY DirectoriesOf DEF Around
      <4>. QED
        BY <3>2, <4>1, KeptHaveTheirIds DEF Comparing, GraphInv, Ids
    <3>. QED
      BY <3>1, <3>2 DEF Trees
  <2>2. p.id \in DOMAIN g
    BY <1>2
  <2>3. g[p.id].path = graph[p.id].path /\ graph[p.id].path = p.path
    BY <2>2, GraphPaths, PackageRemains
  <2>. QED
    BY <1>1, <2>1, <2>2, <2>3 DEF Around
<1>. QED
  BY <1>1, <1>3, InnermostOwns

(***************************************************************************)
(* A package whose manifest is no changed path refers to what it did.      *)
(***************************************************************************)
LEMMA ReadsSame ==
  ASSUME Comparing, Assumed, OwnedOnly, NEW tree \in Trees,
         NEW e \in Ecosystems, NEW path \in DOMAIN tree, path \notin changed,
         Last(path) = ManifestName[e]
  PROVE  Parsed(tree, e, path) = Parsed(history.head, e, path)
<1>. DEFINE Above(n) == Append(SubSeq(path, 1, n), ManifestName["cargo"])
<1>1. IsPackageManifest(path)
  BY DEF IsPackageManifest
<1>2. Same(tree, history.head, path)
  BY <1>1, UnchangedIsSame
<1>3. path \in Seq(STRING) \ {<<>>}
  BY TreesAreTrees DEF IsTree, Trees, Comparing, GraphInv
<1>4. ASSUME NEW n \in 0 .. Len(path) - 1
      PROVE  \/ Same(tree, history.head, Above(n))
             \/ /\ Above(n) \in DOMAIN tree => tree[Above(n)].workspace = NoWorkspace
                /\ Above(n) \in DOMAIN history.head => history.head[Above(n)].workspace = NoWorkspace
  <2>1. Last(Above(n)) = ManifestName["cargo"]
    <3>1. Len(path) \in Nat /\ \A i \in 1 .. n : path[i] \in STRING
      BY <1>3
    <3>2. SubSeq(path, 1, n) \in Seq(STRING)
      BY <1>4, <3>1, SubSeqProperties
    <3>3. /\ Len(Above(n)) = Len(SubSeq(path, 1, n)) + 1
          /\ Above(n)[Len(SubSeq(path, 1, n)) + 1] = ManifestName["cargo"]
      BY <3>2
    <3>. QED
      BY <3>3 DEF Last
  <2>2. "cargo" \in Ecosystems
    BY DEF Ecosystems
  <2>3. IsPackageManifest(Above(n))
    BY <2>1, <2>2 DEF IsPackageManifest
  <2>. HIDE DEF Above
  <2>4. CASE Above(n) \notin changed
    BY <2>3, <2>4, UnchangedIsSame
  <2>5. CASE Above(n) = RootManifest("cargo")
    BY <2>2, <2>5, RootsAreSame DEF RootsSame
  <2>6. CASE Above(n) \in changed /\ Above(n) # RootManifest("cargo")
    BY <2>1, <2>6 DEF Assumed, WorkspacesKept, Trees
  <2>. QED
    BY <2>4, <2>5, <2>6
<1>5. InheritedWorkspace(tree, path) = InheritedWorkspace(history.head, path)
  BY <1>3, <1>4, InheritsSame
<1>6. tree[path] = history.head[path]
  BY <1>2 DEF Same
<1>. QED
  BY <1>5, <1>6, ParsedSame

LEMMA RefersAsBefore ==
  ASSUME Comparing, Assumed, OwnedOnly, NEW tree \in Trees,
         NEW g \in Graphs(Discovered(tree)), NEW id \in DOMAIN g, g[id].path \notin changed,
         NEW x \in DOMAIN g, x \in References(g, id)
  PROVE  x \in DependsOn(id)
<1>. DEFINE path == g[id].path
            now == history.head
<1>1. /\ id \in Ids /\ x \in Ids /\ g[id] \in Discovered(tree) /\ g[id].id = id
      /\ graph[id].path = path
  BY GraphPaths
<1>2. graph[id] \in Discovered(now) /\ graph[id].id = id
  BY <1>1, KeptHaveTheirIds DEF Comparing, GraphInv, Ids
<1>3. Ids = {q.id : q \in Discovered(now)}
  BY GraphFacts DEF Comparing, GraphInv, Ids
<1>4. PICK e : /\ e \in Ecosystems /\ path \in ManifestsOf(tree, e)
               /\ id = Parsed(tree, e, path).id
               /\ g[id].bridges = Parsed(tree, e, path).bridges
               /\ g[id].internal = Resolved(tree, e, Parsed(tree, e, path).declared)
               /\ g[id].development = Resolved(tree, e, TestOnly(Parsed(tree, e, path)))
  BY <1>1, PackageOf
<1>5. PICK d : /\ d \in Ecosystems /\ id = Parsed(now, d, path).id
               /\ graph[id].bridges = Parsed(now, d, path).bridges
               /\ graph[id].internal = Resolved(now, d, Parsed(now, d, path).declared)
               /\ graph[id].development = Resolved(now, d, TestOnly(Parsed(now, d, path)))
  BY <1>1, <1>2, PackageOf
<1>. HIDE DEF path
<1>6. d = e
  <2>1. PICK n : Parsed(tree, e, path).id = <<e, n>>
    BY <1>4, ParsedId
  <2>2. PICK m : Parsed(now, d, path).id = <<d, m>>
    BY <1>5, ParsedId
  <2>3. <<e, n>> = <<d, m>>
    BY <1>4, <1>5, <2>1, <2>2
  <2>. QED
    BY <2>3
<1>7. path \in DOMAIN tree /\ Last(path) = ManifestName[e]
  BY <1>4, ManifestFacts
<1>8. Parsed(tree, e, path) = Parsed(now, e, path)
  BY <1>4, <1>7, ReadsSame DEF path
<1>9. \A names : x \in Resolved(tree, e, names) => x \in Resolved(now, e, names)
  BY <1>1, <1>3 DEF Resolved
<1>10. CASE x \in g[id].internal
  BY <1>4, <1>5, <1>6, <1>8, <1>9, <1>10 DEF DependsOn
<1>11. CASE x \in g[id].development
  BY <1>4, <1>5, <1>6, <1>8, <1>9, <1>11 DEF DependsOn
<1>12. CASE \E b \in g[id].bridges : Resolves(g, b) /\ x = BridgeTarget(g, b)
  <2>1. PICK b \in g[id].bridges : Resolves(g, b) /\ x = BridgeTarget(g, b)
    BY <1>12
  <2>2. b \in graph[id].bridges
    BY <1>4, <1>5, <1>6, <1>8, <2>1
  <2>3. x \in BridgeMatches(g, b)
    <3>1. BridgeMatches(g, b) # {}
      BY <2>1, FS_EmptySet DEF Resolves
    <3>. QED
      BY <2>1, <3>1 DEF BridgeTarget
  <2>4. x \in BridgeMatches(graph, b)
    BY <1>1, <2>3 DEF BridgeMatches, Ids
  <2>5. BridgeMatches(graph, b) = {BridgeTarget(graph, b)}
    BY <1>1, <2>2, BridgeFacts DEF OwnedOnly, Comparing, GraphInv
  <2>. QED
    BY <2>2, <2>4, <2>5 DEF DependsOn
<1>. QED
  BY <1>10, <1>11, <1>12 DEF References

LEMMA ConsumersFound ==
  ASSUME Comparing, Assumed, OwnedOnly, NEW tree \in Trees,
         NEW g \in Graphs(Discovered(tree)), NEW f \in changed \cap DOMAIN tree
  PROVE  LET Own == {id \in DOMAIN g :
                       /\ Under(f, Directory(g[id].path))
                       /\ \A o \in DOMAIN g : Under(f, Directory(g[o].path)) =>
                            Len(Directory(g[o].path)) <= Len(Directory(g[id].path))}
         IN  ConsumersOf(Own, DOMAIN g, [id \in DOMAIN g |-> References(g, id)]) \subseteq AllAffected
<1>. DEFINE Own == {id \in DOMAIN g :
                      /\ Under(f, Directory(g[id].path))
                      /\ \A o \in DOMAIN g : Under(f, Directory(g[o].path)) =>
                           Len(Directory(g[o].path)) <= Len(Directory(g[id].path))}
            found == ConsumersOf(AllOwners, Ids, Dependencies)
            C == found \cap DOMAIN g
            deps == [id \in DOMAIN g |-> References(g, id)]
<1>1. AllAffected = found
  BY DEF AllAffected, OwnedOnly
<1>2. AllOwners \subseteq found
  <2>1. AllOwners \subseteq Ids
    BY DEF AllOwners, Owners
  <2>. QED
    BY <2>1, ConsumersAround
<1>3. \A id \in DOMAIN g : id \in Ids /\ graph[id].path = g[id].path
  BY GraphPaths
<1>4. \A id \in Own : id \in Owners(f)
  BY FormerOwnerOwns
<1>5. Own \subseteq C
  BY <1>2, <1>4 DEF AllOwners
<1>6. ASSUME NEW d \in DOMAIN g, NEW c \in C, c \in deps[d] PROVE d \in C
  <2>1. CASE g[d].path \in changed
    <3>1. d \in Owners(g[d].path)
      BY <1>3, OwnsItsManifest
    <3>. QED
      BY <1>2, <2>1, <3>1 DEF AllOwners
  <2>2. CASE g[d].path \notin changed
    <3>1. c \in DependsOn(d)
      BY <1>6, <2>2, RefersAsBefore
    <3>2. c \in Dependencies[d] /\ d \in Ids
      BY <1>3, <3>1 DEF Dependencies
    <3>. QED
      BY <3>2, ConsumersClosed
  <2>. QED
    BY <2>1, <2>2
<1>7. C \in SUBSET DOMAIN g
  OBVIOUS
<1>. HIDE DEF C, Own, deps, found
<1>8. ConsumersOf(Own, DOMAIN g, deps) \subseteq C
  BY <1>5, <1>6, <1>7, ConsumersLeast
<1>. QED
  BY <1>1, <1>8 DEF C, Own, deps

(***************************************************************************)
(* What the commands know once they compare: discovery went well, the      *)
(* changed paths are those between base and head, and bridges were         *)
(* followed only where all of them lead to a package.                      *)
(***************************************************************************)
SeenInv ==
  /\ pc # "failed" => ~ DiscoveryFails(history.head)
  /\ pc \notin {"discovered", "failed"} => graph \in Graphs(packages)
  /\ pc \in {"own", "propagate", "intersect", "order", "print", "cycle"} \/ Compared =>
       changed = AffectedPaths(ChangedFiles(history.base, history.head))
  /\ pc \in {"propagate", "intersect", "order", "print", "cycle"} \/ Compared =>
       \/ changed = {}
       \/ \E f \in changed : ForEverybody(f)
       \/ \A id \in Ids : \A b \in graph[id].bridges : Resolves(graph, b)

LEMMA SeenInit == Init => SeenInv
BY DEF Init, SeenInv, Compared

LEMMA SeenStep == SeenInv /\ [Work]_vars => SeenInv'
<1>. SUFFICES ASSUME SeenInv, [Work]_vars PROVE SeenInv'
  OBVIOUS
<1>1. CASE BuildGraph \/ SelectRoots \/ Select \/ EndSelect
  <2>1. /\ pc # "failed" /\ history' = history
        /\ pc' \in {"roots", "select", "diff", "done", "failed"}
        /\ pc' = "done" => command' = "selected"
    BY <1>1 DEF BuildGraph, SelectRoots, Select, EndSelect, At, Go, inputVars
  <2>2. graph' \in Graphs(packages')
    <3>1. CASE BuildGraph
      BY <3>1 DEF BuildGraph
    <3>2. CASE SelectRoots \/ Select \/ EndSelect
      <4>1. pc \in {"roots", "select"} /\ UNCHANGED <<packages, graph>>
        BY <3>2 DEF SelectRoots, Select, EndSelect, At
      <4>. QED
        BY <4>1 DEF SeenInv
    <3>. QED
      BY <1>1, <3>1, <3>2
  <2>. QED
    BY <2>1, <2>2 DEF SeenInv, Compared
<1>2. CASE Diff
  <2>1. /\ pc = "diff" /\ UNCHANGED <<history, graph, packages>> /\ pc' \in {"own", "failed"}
        /\ pc' = "own" => changed' = AffectedPaths(ChangedFiles(history.base, history.head))
    BY <1>2 DEF Diff, At, Go, inputVars
  <2>2. AffectedPaths(ChangedFiles(history.base, history.head))'
          = AffectedPaths(ChangedFiles(history.base, history.head))
    BY <2>1 DEF AffectedPaths, ChangedFiles
  <2>. QED
    BY <2>1, <2>2 DEF SeenInv, Compared
<1>3. CASE AssignOwners
  <2>1. /\ pc = "own" /\ UNCHANGED <<inputVars, history, graph, packages, changed>>
        /\ pc' \in {"intersect", "propagate", "failed"}
    BY <1>3 DEF AssignOwners, At, Go, inputVars
  <2>2. pc' = "failed" \/ changed = {} \/ (\E f \in changed : ForEverybody(f))
        \/ \A id \in Ids : \A b \in graph[id].bridges : Resolves(graph, b)
    BY <1>3 DEF AssignOwners, Go
  <2>3. AffectedPaths(ChangedFiles(history.base, history.head))'
          = AffectedPaths(ChangedFiles(history.base, history.head))
    BY <2>1 DEF AffectedPaths, ChangedFiles
  <2>4. Ids' = Ids /\ \A f : ForEverybody(f)' <=> ForEverybody(f)
    BY <2>1, ChangesDetermine DEF Ids
  <2>. QED
    BY <2>1, <2>2, <2>3, <2>4 DEF SeenInv, Compared
<1>4. CASE \/ Propagate \/ EndPropagate \/ Intersect
           \/ OrderPackage \/ EndOrder \/ PrintAffected \/ EndPrint
  <2>1. /\ pc \in {"propagate", "intersect", "order", "print"}
        /\ pc' \in {"propagate", "intersect", "order", "print", "cycle", "done"}
        /\ UNCHANGED <<inputVars, history, graph, packages, changed>>
    BY <1>4 DEF Propagate, EndPropagate, Intersect, OrderPackage, EndOrder, PrintAffected,
       EndPrint, At, Go, scopeVars, inputVars
  <2>2. AffectedPaths(ChangedFiles(history.base, history.head))'
          = AffectedPaths(ChangedFiles(history.base, history.head))
    BY <2>1 DEF AffectedPaths, ChangedFiles
  <2>3. Ids' = Ids /\ \A f : ForEverybody(f)' <=> ForEverybody(f)
    BY <2>1, ChangesDetermine DEF Ids
  <2>. QED
    BY <2>1, <2>2, <2>3 DEF SeenInv
<1>5. CASE UNCHANGED vars
  <2>1. UNCHANGED <<inputVars, history, command, graph, packages, changed, pc>>
    BY <1>5 DEF vars, scopeVars, inputVars
  <2>2. AffectedPaths(ChangedFiles(history.base, history.head))'
          = AffectedPaths(ChangedFiles(history.base, history.head))
    BY <2>1 DEF AffectedPaths, ChangedFiles
  <2>3. Ids' = Ids /\ \A f : ForEverybody(f)' <=> ForEverybody(f)
    BY <2>1, ChangesDetermine DEF Ids
  <2>. QED
    BY <2>1, <2>2, <2>3 DEF SeenInv, Compared
<1>. QED
  BY <1>1, <1>2, <1>3, <1>4, <1>5 DEF Work

LEMMA ComparedMissesNothing ==
  ASSUME GraphInv, AffectedInv, SeenInv, Compared, Assumed
  PROVE  MissesNoChange
<1>1. Comparing
  BY DEF Comparing, SeenInv, Compared
<1>2. affected = IF selection = NoSelection THEN AllAffected ELSE AllAffected \cap selected
  BY DEF AffectedInv, Compared
<1>3. ASSUME NEW tree \in Trees, NEW g \in Graphs(Discovered(tree)),
             NEW f \in AffectedPaths(DOMAIN tree),
             \E o \in Trees \ {tree} : f \notin DOMAIN o \/ o[f] # tree[f]
      PROVE  LET Own == {id \in DOMAIN g :
                           /\ Under(f, Directory(g[id].path))
                           /\ \A o \in DOMAIN g : Under(f, Directory(g[o].path)) =>
                                Len(Directory(g[o].path)) <= Len(Directory(g[id].path))}
             IN  ConsumersOf(Own, DOMAIN g, [id \in DOMAIN g |-> References(g, id)]) \cap Ids
                   \subseteq AllAffected
  <2>1. f \in changed \cap DOMAIN tree
    <3>1. f \in DOMAIN tree /\ f \in ChangedFiles(history.base, history.head)
      BY <1>3 DEF AffectedPaths, ChangedFiles, Trees
    <3>. QED
      BY <1>1, <3>1 DEF Comparing, AffectedPaths
  <2>2. CASE \E h \in changed : ForEverybody(h)
    BY <2>2 DEF AllAffected
  <2>3. CASE ~ \E h \in changed : ForEverybody(h)
    <3>1. OwnedOnly
      BY <2>1, <2>3 DEF OwnedOnly, SeenInv
    <3>. QED
      BY <1>1, <2>1, <3>1, ConsumersFound
  <2>. QED
    BY <2>2, <2>3
<1>4. \A S : S \cap Ids \subseteq AllAffected =>
        S \cap Ids \subseteq affected \cup (IF selection = NoSelection THEN {} ELSE Ids \ selected)
  BY <1>2
<1>. QED
  BY <1>3, <1>4 DEF MissesNoChange, Trees, References

(***************************************************************************)
(* No package is left out that a changed path concerned at the merge base  *)
(* or concerns now, itself or through what it depended or depends on, as   *)
(* long as names are kept, no package has come between a path and its      *)
(* owner, no manifest is ignored and no crate's manifest that changed      *)
(* describes a workspace (affected_packages, workspace_wide_change).       *)
(***************************************************************************)
THEOREM NoChangeIsMissed == Spec => []NoChangeMissed
<1>1. Init => GraphInv /\ AffectedInv /\ SeenInv
  BY GraphInit, AffectedInit, SeenInit
<1>2. GraphInv /\ AffectedInv /\ SeenInv /\ [Work \/ (Ended /\ UNCHANGED vars)]_vars
        => (GraphInv /\ AffectedInv /\ SeenInv)'
  BY GraphStep, AffectedStep, SeenStep
<1>3. GraphInv /\ AffectedInv /\ SeenInv => NoChangeMissed
  BY ComparedMissesNothing DEF NoChangeMissed, Assumed
<1>. QED
  BY <1>1, <1>2, <1>3, PTL DEF Spec

=============================================================================

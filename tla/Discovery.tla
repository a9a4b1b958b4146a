------------------------------ MODULE Discovery -----------------------------
(***************************************************************************)
(* Workspace discovery (manifest.rs, plugins): from the files of a         *)
(* repository to the packages, the references between them, and the graph  *)
(* the commands work on.                                                   *)
(*                                                                         *)
(* A path is a sequence of names and a tree a function from the paths of   *)
(* its files to what they hold.  What a manifest holds is a record:        *)
(*   package      whether it declares one (a root Cargo.toml may not)      *)
(*   name         its name, or NoName                                      *)
(*   deps         its references: in which section, to which name, and     *)
(*                where from: "path", "workspace" or "registry"            *)
(*   bridges      its bridges: an ecosystem or "any", and a name           *)
(*   publish      "default", "never" or "inherit"                          *)
(*   workspace    NoWorkspace, or what it says of the workspace: patterns  *)
(*                of members, of excludes, and for Cargo the dependencies  *)
(*                and the publish policy that members may inherit          *)
(* A pattern is a path in which "*" stands for any name.                   *)
(***************************************************************************)
EXTENDS Naturals, FiniteSets, Sequences, SequencesExt, FiniteSetsExt

CONSTANTS
  NoName,        \* the manifest gives no name
  NoWorkspace,   \* the manifest describes no workspace
  RootName       \* the name of the directory the repository is in

Ecosystems == {"cargo", "js", "uv"}

ManifestName == [cargo |-> "Cargo.toml", js |-> "package.json", uv |-> "pyproject.toml"]

PnpmFile == <<"pnpm-workspace.yaml">>

RootManifest(e) == <<ManifestName[e]>>

Directory(path) == Front(path)

Under(path, directory) == IsPrefix(directory, path)

-----------------------------------------------------------------------------

(* Patterns of workspace members (plugins/mod.rs) *)

Entries(tree) == (UNION {Prefixes(f) : f \in DOMAIN tree}) \ {<<>>}

Matches(pattern, path) ==
  Len(pattern) = Len(path) /\ \A i \in DOMAIN path : pattern[i] \in {"*", path[i]}

Ignored(path) == ToSet(path) \cap {".git", "target", "node_modules", ".venv", "dist"} # {}

ExpandPatterns(tree, patterns) ==
  {path \in Entries(tree) : ~ Ignored(path) /\ \E p \in patterns : Matches(p, path)}

(***************************************************************************)
(* expand_workspace_members: a directory stands for the manifest in it,    *)
(* but an exclude for what it matches alone.                               *)
(***************************************************************************)
ExpandMembers(tree, includes, excludes, name) ==
  LET Manifest(path) == IF path \in DOMAIN tree THEN path ELSE Append(path, name)
      excluded == ExpandPatterns(tree, excludes)
  IN  {m \in {Manifest(path) : path \in ExpandPatterns(tree, includes)} :
         /\ ~ Ignored(m) /\ Last(m) = name
         /\ m \in DOMAIN tree /\ m \notin excluded}

(***************************************************************************)
(* The patterns of a root file, if there is one that has any.              *)
(***************************************************************************)
Listed(tree, file, field) ==
  IF file \in DOMAIN tree /\ tree[file].workspace # NoWorkspace
  THEN tree[file].workspace[field] ELSE {}

-----------------------------------------------------------------------------

(* discover_manifests of the three plugins *)

CargoManifests(tree) ==
  LET root == RootManifest("cargo")
  IN  {m \in {root} : m \in DOMAIN tree /\ tree[m].package}
      \cup ExpandMembers(tree, Listed(tree, root, "members"), Listed(tree, root, "excludes"),
                         ManifestName["cargo"])

(***************************************************************************)
(* package.json and pnpm-workspace.yaml: their patterns are put together.  *)
(***************************************************************************)
PackageJsonManifests(tree) ==
  LET root == RootManifest("js")
      Both(field) == Listed(tree, root, field) \cup Listed(tree, PnpmFile, field)
  IN  {m \in {root} : m \in DOMAIN tree}
      \cup ExpandMembers(tree, Both("members"), Both("excludes"), ManifestName["js"])

UvManifests(tree) ==
  LET root == RootManifest("uv")
  IN  {m \in {root} : m \in DOMAIN tree}
      \cup ExpandMembers(tree, Listed(tree, root, "members"), Listed(tree, root, "excludes"),
                         ManifestName["uv"])

-----------------------------------------------------------------------------

(* parse_manifest of the three plugins *)

NameOf(tree, path) ==
  IF tree[path].package /\ tree[path].name # NoName THEN tree[path].name
  ELSE IF Len(path) = 1 THEN RootName ELSE path[Len(path) - 1]

(***************************************************************************)
(* inherited_workspace: the innermost Cargo.toml, from this one outwards,  *)
(* that describes a workspace.                                             *)
(***************************************************************************)
InheritedWorkspace(tree, path) ==
  LET Candidates == {n \in 0 .. Len(path) - 1 :
                       LET m == Append(SubSeq(path, 1, n), ManifestName["cargo"])
                       IN  m \in DOMAIN tree /\ tree[m].workspace # NoWorkspace}
  IN  IF Candidates = {} THEN NoWorkspace
      ELSE tree[Append(SubSeq(path, 1, Max(Candidates)), ManifestName["cargo"])].workspace

(***************************************************************************)
(* local_cargo_dependencies: a reference to the workspace takes the name   *)
(* the workspace gives it.                                                 *)
(***************************************************************************)
LocalCargoDependencies(tree, path, section) ==
  LET inherited == InheritedWorkspace(tree, path)
  IN  {IF d.source = "workspace" THEN inherited.dependencies[d.name] ELSE d.name :
         d \in {d \in tree[path].deps : d.section = section /\ d.source # "registry"}}

LocalDependencies(tree, path, section) ==
  {d.name : d \in {d \in tree[path].deps : d.section = section /\ d.source # "registry"}}

(***************************************************************************)
(* A Cargo manifest that inherits what its workspace does not have ends    *)
(* discovery, and with it the command.                                     *)
(***************************************************************************)
CargoBroken(tree, path) ==
  LET inherited == InheritedWorkspace(tree, path)
  IN  \/ \E d \in tree[path].deps :
           /\ d.source = "workspace"
           /\ inherited = NoWorkspace \/ d.name \notin DOMAIN inherited.dependencies
      \/ tree[path].publish = "inherit" /\ (inherited = NoWorkspace \/ inherited.publish = "none")

Warned(names, section) == {[name |-> n, section |-> section] : n \in names}

ParseCargo(tree, path) ==
  LET Local(section) == LocalCargoDependencies(tree, path, section)
      policy == IF tree[path].publish = "inherit"
                THEN InheritedWorkspace(tree, path).publish ELSE tree[path].publish
  IN  [id |-> <<"cargo", NameOf(tree, path)>>, path |-> path,
       declared |-> Local("dependencies") \cup Local("build-dependencies"),
       warned |-> Warned(Local("dev-dependencies"), "dev-dependencies")
                  \cup Warned(Local("build-dependencies"), "build-dependencies"),
       bridges |-> tree[path].bridges, publishable |-> policy = "default"]

ParsePackageJson(tree, path) ==
  LET Local(section) == LocalDependencies(tree, path, section)
  IN  [id |-> <<"js", NameOf(tree, path)>>, path |-> path,
       declared |-> Local("dependencies") \cup Local("peerDependencies"),
       warned |-> Warned(Local("devDependencies"), "devDependencies"),
       bridges |-> tree[path].bridges, publishable |-> FALSE]

ParsePyProject(tree, path) ==
  LET Local(section) == LocalDependencies(tree, path, section)
  IN  [id |-> <<"uv", NameOf(tree, path)>>, path |-> path,
       declared |-> Local("dependencies") \cup Local("optional-dependencies"),
       warned |-> Warned(Local("dependency-groups"), "dependency-groups")
                  \cup Warned(Local("tool.uv.dev-dependencies"), "tool.uv.dev-dependencies"),
       bridges |-> tree[path].bridges, publishable |-> FALSE]

-----------------------------------------------------------------------------

(* discover_workspace (manifest.rs) *)

DiscoveryFails(tree) == \E path \in CargoManifests(tree) : CargoBroken(tree, path)

RawPackages(tree) ==
  {ParseCargo(tree, path) : path \in CargoManifests(tree)}
  \cup {ParsePackageJson(tree, path) : path \in PackageJsonManifests(tree)}
  \cup {ParsePyProject(tree, path) : path \in UvManifests(tree)}

Candidates(raw, e) == {r.id[2] : r \in {r \in raw : r.id[1] = e}}

TestOnly(r) == {w.name : w \in {w \in r.warned : w.section = "dev-dependencies"}}

(***************************************************************************)
(* resolve_internal_dependencies: only references to packages of the same  *)
(* ecosystem remain.  Those that are test-only count under one section     *)
(* name, the Cargo one.                                                    *)
(***************************************************************************)
ResolveInternalDependencies(raw) ==
  {LET e == r.id[1]
       Ids(names) == {<<e, n>> : n \in names \cap Candidates(raw, e)}
   IN  [id |-> r.id, path |-> r.path, bridges |-> r.bridges, publishable |-> r.publishable,
        internal |-> Ids(r.declared), development |-> Ids(TestOnly(r))] : r \in raw}

Discovered(tree) ==
  IF DiscoveryFails(tree) THEN {} ELSE ResolveInternalDependencies(RawPackages(tree))

(***************************************************************************)
(* WorkspaceGraph::new: of packages with the same id one is kept.  Which   *)
(* one is decided by the order of their paths; here it may be any.         *)
(***************************************************************************)
Graphs(packages) ==
  LET ids  == {p.id : p \in packages}
      Kept == {K \in SUBSET packages : \A id \in ids : \E p \in K : \A q \in K : q.id = id <=> q = p}
  IN  {[id \in ids |-> CHOOSE p \in K : p.id = id] : K \in Kept}

-----------------------------------------------------------------------------

(* package_id_by_bridge (graph.rs) *)

BridgeMatches(graph, b) ==
  {id \in DOMAIN graph : id[2] = b[2] /\ b[1] \in {"any", id[1]}}

Resolves(graph, b) == Cardinality(BridgeMatches(graph, b)) = 1

BridgeTarget(graph, b) == CHOOSE id \in BridgeMatches(graph, b) : TRUE

=============================================================================

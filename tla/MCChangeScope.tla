--------------------------- MODULE MCChangeScope ----------------------------
(***************************************************************************)
(* An instance of ChangeScope: a repository of two Cargo crates, one       *)
(* nested in the other's directory, two JavaScript packages, one of them   *)
(* the root, and a Python project, with bridges and references between     *)
(* them, and the commits that change at most two of its files.             *)
(***************************************************************************)
EXTENDS ChangeScope

CONSTANTS
  Edits,    \* bounds the files that differ between base and head
  Absent    \* the content of a file that is not there

Manifest(name, deps, bridges) ==
  [package |-> TRUE, name |-> name, deps |-> deps, bridges |-> bridges,
   publish |-> "default", workspace |-> NoWorkspace]

Dep(section, name, source) == [section |-> section, name |-> name, source |-> source]

Members(members, excludes) ==
  [members |-> members, excludes |-> excludes, dependencies |-> [lib |-> "core"],
   publish |-> "never"]

RootCargo(excludes) ==
  [Manifest(NoName, {}, {}) EXCEPT
     !.package = FALSE,
     !.workspace = Members({<<"crates", "*">>, <<"crates", "core", "inner">>}, excludes)]

RootJs == [Manifest("root", {}, {}) EXCEPT !.workspace = Members({<<"web">>}, {})]

RootUv == [Manifest("py", {Dep("dependency-groups", "core", "path")}, {}) EXCEPT
             !.workspace = Members({}, {})]

Core  == <<"crates", "core", "Cargo.toml">>
Inner == <<"crates", "core", "inner", "Cargo.toml">>
App   == <<"crates", "app", "Cargo.toml">>
Web   == <<"web", "package.json">>

(***************************************************************************)
(* What each file may hold; the first is what most commits start from.     *)
(***************************************************************************)
Contents ==
  [f \in {RootManifest("cargo"), RootManifest("js"), RootManifest("uv"), Core, Inner, App, Web,
          <<"crates", "core", "lib">>, <<"crates", "core", "inner", "lib">>,
          <<"web", "main">>, <<"src", "main">>, <<"ci", "script">>, <<"ci", "docs", "notes">>} |->
    CASE f = RootManifest("cargo") ->
           <<RootCargo({}), RootCargo({<<"crates", "app">>})>>
      [] f = RootManifest("js") -> <<RootJs>>
      [] f = RootManifest("uv") -> <<Absent, RootUv>>
      [] f = Core  ->
           <<Manifest("core", {}, {}),
             Manifest("core", {Dep("dev-dependencies", "app", "path")}, {}), Absent,
             Manifest("core", {Dep("build-dependencies", "app", "path")}, {})>>
      [] f = Inner ->
           <<[Manifest(NoName, {Dep("dev-dependencies", "lib", "workspace")}, {}) EXCEPT
                !.publish = "inherit"],
             Absent, Manifest(NoName, {Dep("dependencies", "other", "workspace")}, {})>>
      [] f = App   ->
           <<Manifest("app", {Dep("dependencies", "lib", "workspace")}, {}),
             Manifest("application", {Dep("dependencies", "lib", "workspace")}, {}),
             Manifest("app", {Dep("dependencies", "core", "registry"),
                              Dep("dependencies", "py", "path")}, {}),
             Manifest("app", {Dep("build-dependencies", "inner", "path")}, {})>>
      [] f = Web   ->
           <<Manifest("web", {Dep("peerDependencies", "root", "workspace")}, {<<"any", "app">>}),
             Manifest("core", {}, {<<"cargo", "app">>}), Absent, Manifest("root", {}, {})>>
      [] f = <<"web", "main">>    -> <<1, Absent, 2>>
      [] f = <<"crates", "core", "inner", "lib">> -> <<Absent, 1>>
      [] OTHER -> <<1, 2>>]

(***************************************************************************)
(* A tree is a choice of what each file holds.                             *)
(***************************************************************************)
Tree(choice) ==
  [f \in {f \in DOMAIN Contents : Contents[f][choice[f]] # Absent} |-> Contents[f][choice[f]]]

First == [f \in DOMAIN Contents |-> 1]

(***************************************************************************)
(* The first choice, and another for up to n files.                        *)
(***************************************************************************)
Near(choice, n) ==
  UNION {{[f \in DOMAIN Contents |-> IF f \in fs THEN other[f] ELSE choice[f]] :
            other \in {o \in [fs -> 1 .. 4] : \A f \in fs : o[f] \in DOMAIN Contents[f]}} :
          fs \in UNION {kSubset(k, DOMAIN Contents) : k \in 0 .. n}}

AllHistories ==
  {[base |-> Tree(base), head |-> Tree(head), ignore |-> {<<"ci", "docs", "*">>}] :
     <<base, head>> \in UNION {{b} \X Near(b, Edits) : b \in Near(First, 1)}}

AllSelections ==
  {[all |-> FALSE, publishable |-> FALSE, dependencies |-> TRUE, bridges |-> TRUE,
    roots |-> {<<"any", "web">>}],
   [all |-> FALSE, publishable |-> TRUE, dependencies |-> FALSE, bridges |-> FALSE,
    roots |-> {}],
   [all |-> FALSE, publishable |-> FALSE, dependencies |-> TRUE, bridges |-> FALSE,
    roots |-> {<<"any", "core">>}]}

=============================================================================

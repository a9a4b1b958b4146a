----------------------------- MODULE MCStamping -----------------------------
(***************************************************************************)
(* An instance of Stamping: two Cargo crates and perhaps one at the root,  *)
(* a crate outside the workspace, two JavaScript packages, of which one    *)
(* has a deno.json and the name of a crate, and a Python project; and a    *)
(* repository without crates.  The versions are 0 and 1, and 2 is stamped. *)
(***************************************************************************)
EXTENDS Stamping, TLC

A == <<"a", "Cargo.toml">>
B == <<"b", "Cargo.toml">>
Vendored == <<"vendored", "Cargo.toml">>
P == <<"p", "package.json">>
Q == <<"q", "package.json">>
Py == <<"pyproject.toml">>

None == [f \in {} |-> 0]

File(kind, name, version, requires) ==
  [kind |-> kind, name |-> name, package |-> TRUE, version |-> version,
   workspace |-> NoVersion, requires |-> requires, deno |-> FALSE]

Scripts(q) ==
  P :> [File("js", "a", 1, Q :> Anything) EXCEPT !.deno = TRUE]
  @@ DenoBeside(P) :> [File("deno", "a", 1, Q :> 1) EXCEPT !.package = FALSE]
  @@ Q :> File("js", "q", q, P :> 1)
  @@ Py :> File("uv", "py", 1, None)

Crates(root, a, b) ==
  Root :> [File("cargo", "root", root, A :> 1 @@ Vendored :> 0) EXCEPT
             !.package = root # NoVersion, !.workspace = 1]
  @@ A :> File("cargo", "a", a, None)
  @@ B :> File("cargo", "b", b, A :> 1 @@ Vendored :> 0)
  @@ Vendored :> [File("cargo", "vendored", 0, A :> Link) EXCEPT !.package = FALSE]

AllRepositories ==
  {Crates(root, a, b) @@ Scripts(q) :
     root \in {NoVersion, Inherit, 1}, a \in {Inherit, 1, 0}, b \in {Inherit, 0, NoVersion},
     q \in {NoVersion, 1, 0}}
  \cup {Root :> [File("cargo", "root", NoVersion, Vendored :> 0) EXCEPT
                   !.package = FALSE, !.workspace = 1]
        @@ Vendored :> [File("cargo", "vendored", 0, None) EXCEPT !.package = FALSE]
        @@ Scripts(1)}

CommandLines ==
  [version : {2}, packages : {{}, {"a"}, {"b", "q"}, {"py"}, {"x"}}, exclude : {{}, {"a"}, {"root", "q"}},
   excludeVersions : {{}, {0}, {1}, {0, 2}}]

=============================================================================

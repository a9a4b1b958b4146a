------------------------------- MODULE Stamping -----------------------------
(***************************************************************************)
(* The stamp command (stamp.rs: stamp_selected): it writes a version into  *)
(* the manifests of the selected packages and into the requirements that   *)
(* point at them, one file after the other, and may fail at any of them;   *)
(* the release job is then run again.                                      *)
(*                                                                         *)
(* What a file holds is a record:                                          *)
(*   kind       "cargo", "js", "uv", or "deno" for a deno.json             *)
(*   name       the package's name                                         *)
(*   package    whether discovery finds a package in it                    *)
(*   version    its version, NoVersion, or Inherit                         *)
(*   workspace  the version that Cargo packages inherit, or NoVersion      *)
(*   requires   for some files the version it requires of their packages,  *)
(*              which is Anything for workspace:*, and Link for file:      *)
(*   deno       whether a deno.json is beside a package.json               *)
(***************************************************************************)
EXTENDS Naturals, FiniteSets, Sequences, SequencesExt

CONSTANTS
  Repositories,  \* what the files may hold at first
  AllOptions,    \* the command lines: version, packages, exclude and excludeVersions
  NoVersion, Inherit, Anything, Link,
  MaxRuns        \* bounds the runs of the command

VARIABLES
  files,     \* what the files hold
  start,     \* what they held before the first run
  options,   \* the command line
  runs,      \* how often the command was started
  pc,        \* "select", "root", "packages", "deno", "done", "failed" or "refused"
  selected,  \* the packages selected
  workspace, \* whether the inherited version is stamped
  todo,      \* selected packages that were not looked at
  deno       \* the package.json whose deno.json comes next

vars == <<files, start, options, runs, pc, selected, workspace, todo, deno>>

inputVars == <<start, options, runs>>

Root == <<"Cargo.toml">>

Packages(fs) == {f \in DOMAIN fs : fs[f].package}

DenoBeside(f) == Append(Front(f), "deno.json")

IsFile(r) ==
  r = [kind |-> r.kind, name |-> r.name, package |-> r.package, version |-> r.version,
       workspace |-> r.workspace, requires |-> [t \in DOMAIN r.requires |-> r.requires[t]],
       deno |-> r.deno]

(***************************************************************************)
(* A deno.json holds no package and lies beside a package.json; only Cargo *)
(* packages inherit; and requirements stay within an ecosystem.            *)
(***************************************************************************)
IsRepository(fs) ==
  /\ fs = [f \in DOMAIN fs |-> fs[f]]
  /\ Root \in DOMAIN fs => fs[Root].kind = "cargo"
  /\ \A f \in DOMAIN fs :
       /\ IsFile(fs[f])
       /\ fs[f].kind \in {"cargo", "js", "uv", "deno"} /\ fs[f].package \in BOOLEAN
       /\ fs[f].deno \in BOOLEAN
       /\ fs[f].package => fs[f].kind # "deno"
       /\ fs[f].version = Inherit => fs[f].kind = "cargo"
       /\ fs[f].deno => DenoBeside(f) \in DOMAIN fs /\ fs[DenoBeside(f)].kind = "deno"
       /\ \A t \in DOMAIN fs[f].requires :
            /\ t \in DOMAIN fs
            /\ fs[t].kind = IF fs[f].kind = "deno" THEN "js" ELSE fs[f].kind

ASSUME RepositoriesAssumption == \A fs \in Repositories : IsRepository(fs)

ASSUME VersionsAssumption ==
  /\ NoVersion # Inherit
  /\ \A o \in AllOptions : o.version \notin {NoVersion, Inherit}

-----------------------------------------------------------------------------

(* Which packages are stamped *)

(***************************************************************************)
(* cargo_workspace_version and package_version                             *)
(***************************************************************************)
WorkspaceVersion(fs) == IF Root \in DOMAIN fs THEN fs[Root].workspace ELSE NoVersion

PackageVersion(fs, f) ==
  IF fs[f].kind = "uv" THEN NoVersion
  ELSE IF fs[f].version = Inherit THEN WorkspaceVersion(fs) ELSE fs[f].version

\* Faulty: an inherited version is not seen.
DeclaredVersion(fs, f) == IF fs[f].version = Inherit THEN NoVersion ELSE fs[f].version

CurrentVersion(fs, f) == PackageVersion(fs, f)

(***************************************************************************)
(* validate_selectors: a selector is a name, in every ecosystem.           *)
(***************************************************************************)
SelectorsMatch ==
  \A n \in options.packages \cup options.exclude : \E f \in Packages(files) : files[f].name = n

Selected ==
  {f \in Packages(files) :
     /\ options.packages = {} \/ files[f].name \in options.packages
     /\ files[f].name \notin options.exclude
     /\ CurrentVersion(files, f) \notin options.excludeVersions
     /\ files[f].kind # "uv"}

Filtered == options.packages \cup options.exclude # {} \/ options.excludeVersions # {}

CargoOf(fs) == {f \in fs : files[f].kind = "cargo"}

StampsWorkspace(chosen) ==
  \/ \E f \in CargoOf(chosen) : files[f].version = Inherit
  \/ ~ Filtered /\ CargoOf(Packages(files)) = {}

-----------------------------------------------------------------------------

(* What a file holds afterwards *)

\* Faulty: a requirement follows whatever it points at.
AllTargets(kind) == DOMAIN files

(***************************************************************************)
(* The files whose requirements follow: those of the selected packages of  *)
(* the kind; with no Cargo package selected, every one a Cargo.toml names. *)
(***************************************************************************)
Targets(kind) ==
  IF kind = "cargo" /\ CargoOf(selected) = {} THEN DOMAIN files
  ELSE {t \in selected : files[t].kind = kind}

Required(f, targets) ==
  [t \in DOMAIN files[f].requires |->
     IF t \in targets /\ files[f].requires[t] # Link THEN options.version
     ELSE files[f].requires[t]]

(***************************************************************************)
(* stamp_cargo_toml_filtered                                               *)
(***************************************************************************)
CargoStamped(f, package, inherited) ==
  [files[f] EXCEPT
     !.version   = IF package /\ @ \notin {NoVersion, Inherit} THEN options.version ELSE @,
     !.workspace = IF inherited /\ @ # NoVersion THEN options.version ELSE @,
     !.requires  = Required(f, Targets("cargo"))]

(***************************************************************************)
(* stamp_package_json: without a version nothing of it is changed.         *)
(***************************************************************************)
PackageJsonStamped(f) ==
  IF files[f].version = NoVersion THEN files[f]
  ELSE [files[f] EXCEPT !.version = options.version, !.requires = Required(f, Targets("js"))]

\* Faulty: what has the version already is left alone.
UnlessUpToDate(f) == files[f].deno /\ files[f].version \notin {NoVersion, options.version}

DenoFollows(f) == files[f].deno /\ files[f].version # NoVersion

(***************************************************************************)
(* stamp_deno_json                                                         *)
(***************************************************************************)
DenoStamped(f) ==
  [files[f] EXCEPT
     !.version  = IF @ = NoVersion THEN @ ELSE options.version,
     !.requires = Required(f, Targets("js"))]

-----------------------------------------------------------------------------

Init ==
  /\ files \in Repositories /\ start = files
  /\ options \in AllOptions
  /\ runs = 1 /\ pc = "select"
  /\ selected = {} /\ workspace = FALSE /\ todo = {} /\ deno = <<>>

Select ==
  /\ pc = "select"
  /\ IF SelectorsMatch
     THEN /\ selected' = Selected /\ todo' = selected'
          /\ workspace' = StampsWorkspace(selected')
          /\ pc' = "root"
     ELSE pc' = "refused" /\ UNCHANGED <<selected, todo, workspace>>
  /\ UNCHANGED <<inputVars, files, deno>>

(***************************************************************************)
(* The root Cargo.toml comes first, and not again if that changed it.      *)
(***************************************************************************)
StampRoot ==
  /\ pc = "root"
  /\ IF Root \in DOMAIN files /\ (CargoOf(selected) # {} \/ workspace)
     THEN /\ files' = [files EXCEPT ![Root] = CargoStamped(Root, Root \in selected, workspace)]
          /\ todo' = IF files' = files THEN todo ELSE todo \ {Root}
     ELSE UNCHANGED <<files, todo>>
  /\ pc' = "packages"
  /\ UNCHANGED <<inputVars, selected, workspace, deno>>

(***************************************************************************)
(* The others follow in the order of discovery, which may be any here.     *)
(***************************************************************************)
StampCargo ==
  /\ pc = "packages"
  /\ \E f \in CargoOf(todo) :
       /\ files' = [files EXCEPT ![f] = CargoStamped(f, TRUE, FALSE)]
       /\ todo' = todo \ {f}
  /\ UNCHANGED <<inputVars, pc, selected, workspace, deno>>

StampPackageJson ==
  /\ pc = "packages"
  /\ \E f \in todo :
       /\ files[f].kind = "js"
       /\ files' = [files EXCEPT ![f] = PackageJsonStamped(f)]
       /\ todo' = todo \ {f}
       /\ IF DenoFollows(f) THEN pc' = "deno" /\ deno' = DenoBeside(f)
          ELSE UNCHANGED <<pc, deno>>
  /\ UNCHANGED <<inputVars, selected, workspace>>

StampDeno ==
  /\ pc = "deno"
  /\ files' = [files EXCEPT ![deno] = DenoStamped(deno)]
  /\ pc' = "packages" /\ deno' = <<>>
  /\ UNCHANGED <<inputVars, selected, workspace, todo>>

Finish ==
  /\ pc = "packages" /\ todo = {}
  /\ pc' = "done"
  /\ UNCHANGED <<inputVars, files, selected, workspace, todo, deno>>

(***************************************************************************)
(* A manifest cannot be read, parsed or written.  What was written before  *)
(* stays; the same command is run again when the cause is gone.            *)
(***************************************************************************)
Fail ==
  /\ pc \in {"select", "root", "packages", "deno"} /\ runs < MaxRuns
  /\ pc' = "failed"
  /\ UNCHANGED <<inputVars, files, selected, workspace, todo, deno>>

Rerun ==
  /\ pc = "failed"
  /\ pc' = "select" /\ runs' = runs + 1
  /\ selected' = {} /\ todo' = {} /\ workspace' = FALSE /\ deno' = <<>>
  /\ UNCHANGED <<start, options, files>>

Next ==
  \/ Select \/ StampRoot \/ StampCargo \/ StampPackageJson \/ StampDeno \/ Finish
  \/ Fail \/ Rerun
  \/ pc \in {"done", "refused"} /\ UNCHANGED vars

Spec == Init /\ [][Next]_vars

-----------------------------------------------------------------------------

(***************************************************************************)
(* What the command line asks for, of the files there were at first.       *)
(***************************************************************************)
Asked ==
  {f \in Packages(start) :
     /\ start[f].kind \in {"cargo", "js"}
     /\ start[f].name \in options.packages \/ options.packages = {}
     /\ start[f].name \notin options.exclude
     /\ PackageVersion(start, f) \notin options.excludeVersions}

\* Packages that inherit one version are asked for together or not at all.
InheritTogether ==
  LET heirs == {f \in Packages(start) : start[f].version = Inherit}
  IN  heirs \subseteq Asked \/ heirs \cap Asked = {}

\* The version asked for is not one that the command line excludes.
NewVersionCounts == options.version \notin options.excludeVersions

(***************************************************************************)
(* Exactly the packages asked for have the new version in the end, however *)
(* often the command failed before (README.md:528-537).  Assumed: packages *)
(* that inherit their version are asked for together.                      *)
(***************************************************************************)
ExactlyAskedStamped ==
  pc = "done" /\ InheritTogether =>
    \A f \in Packages(start) :
      PackageVersion(files, f) =
        IF f \in Asked /\ PackageVersion(start, f) # NoVersion THEN options.version
        ELSE PackageVersion(start, f)

Met(fs, f, t) ==
  \/ fs[f].requires[t] \in {Anything, Link}
  \/ fs[t].package /\ fs[f].requires[t] = PackageVersion(fs, t)
  \/ ~ fs[t].package /\ fs[f].requires[t] = start[f].requires[t]

(***************************************************************************)
(* Whatever a stamped manifest required of another package and had, it     *)
(* still has: requirements follow the packages that change, and no others  *)
(* (README.md:524-526).  Assumed, next to the above: the packages that are *)
(* pointed at have a version, and so has a package.json that points.       *)
(***************************************************************************)
RequirementsFollow ==
  pc = "done" /\ InheritTogether /\ NewVersionCounts =>
    \A f \in Asked : \A t \in DOMAIN start[f].requires :
      /\ start[f].kind = "js" => start[f].version # NoVersion
      /\ t \in Asked => PackageVersion(start, t) # NoVersion
      /\ Met(start, f, t)
      => Met(files, f, t)

(***************************************************************************)
(* What a run without a failure makes of the files there were at first.    *)
(***************************************************************************)
AskedOf(kind) == {f \in Asked : start[f].kind = kind}

WorkspaceAsked ==
  \/ \E f \in AskedOf("cargo") : start[f].version = Inherit
  \/ ~ Filtered /\ \A f \in Packages(start) : start[f].kind # "cargo"

RootTouched == Root \in DOMAIN start /\ (AskedOf("cargo") # {} \/ WorkspaceAsked)

Touched ==
  LET jsons == {f \in AskedOf("js") : start[f].version # NoVersion}
  IN  AskedOf("cargo") \cup jsons \cup {f \in {Root} : RootTouched}
      \cup {DenoBeside(f) : f \in {f \in jsons : start[f].deno}}

Follows(f, t) ==
  /\ start[f].requires[t] # Link
  /\ IF start[f].kind = "cargo" THEN AskedOf("cargo") = {} \/ t \in AskedOf("cargo")
     ELSE t \in AskedOf("js")

Stamped(f) ==
  [start[f] EXCEPT
     !.version   = IF @ \in {NoVersion, Inherit} \/ (f = Root /\ f \notin Asked)
                   THEN @ ELSE options.version,
     !.workspace = IF WorkspaceAsked /\ f = Root /\ @ # NoVersion THEN options.version ELSE @,
     !.requires  = [t \in DOMAIN @ |-> IF Follows(f, t) THEN options.version ELSE @[t]]]

Uninterrupted == [f \in DOMAIN start |-> IF f \in Touched THEN Stamped(f) ELSE start[f]]

(***************************************************************************)
(* A run that failed leaves no trace: the files in the end are those of a  *)
(* run without a failure.                                                  *)
(***************************************************************************)
RerunRepairs == pc = "done" /\ NewVersionCounts => files = Uninterrupted

=============================================================================

----------------------------- MODULE Workspace ------------------------------
(***************************************************************************)
(* The workspace and the task policy a plan is made from, and what the     *)
(* code derives from them without changing anything: the predicates of     *)
(* tasks.rs and the graph walks of graph.rs that only read.                *)
(*                                                                         *)
(* A workspace is a record:                                                *)
(*   ecosystem[p]        the ecosystem of package p                        *)
(*   native[p]           internal_dependencies, in manifest order          *)
(*   bridges[p]          bridged_dependencies, resolved to packages        *)
(*   optsIn              the <<p, t>> a manifest opts into                 *)
(*   commands            the <<e, t>> for which flux.toml has a command    *)
(*   autoapply[t]        "none", "inherit" or "all"                        *)
(*   cascade[t]          "none", "bridge-only" or "all"                    *)
(*   dependsOn[t]        the same-package dependencies of t, in order      *)
(*   targeted[t][e]      ecosystem_depends_on for a package of ecosystem   *)
(*                       e: a sequence of <<ecosystem, task>>              *)
(***************************************************************************)
EXTENDS Naturals, FiniteSets, Sequences, SequencesExt

CONSTANTS
  Packages,     \* the packages, numbered in PackageId order
  Tasks,        \* the task names of flux.toml
  Ecosystems    \* cargo, js, uv

IsWorkspace(ws) ==
  /\ ws.ecosystem \in [Packages -> Ecosystems]
  /\ ws.native \in [Packages -> Seq(Packages)]
  /\ \A p \in Packages : \A q \in ToSet(ws.native[p]) : ws.ecosystem[q] = ws.ecosystem[p]
  /\ ws.bridges \in [Packages -> Seq(Packages)]
  /\ ws.optsIn \in SUBSET (Packages \X Tasks)
  /\ ws.commands \in SUBSET (Ecosystems \X Tasks)
  /\ ws.autoapply \in [Tasks -> {"none", "inherit", "all"}]
  /\ ws.cascade \in [Tasks -> {"none", "bridge-only", "all"}]
  /\ ws.dependsOn \in [Tasks -> Seq(Tasks)]
  /\ ws.targeted \in [Tasks -> [Ecosystems -> Seq(Ecosystems \X Tasks)]]

-----------------------------------------------------------------------------

(* Task policy (tasks.rs) *)

CanInherit(ws, p, t) ==
  ws.autoapply[t] \in {"inherit", "all"} /\ <<ws.ecosystem[p], t>> \in ws.commands

SeedsAll(ws, p, t) ==
  ws.autoapply[t] = "all" /\ <<ws.ecosystem[p], t>> \in ws.commands

Participates(ws, p, t) == <<p, t>> \in ws.optsIn \/ CanInherit(ws, p, t)

CascadesNatively(ws, t) == ws.cascade[t] = "all"
CascadesAcross(ws, t)   == ws.cascade[t] # "none"

(***************************************************************************)
(* should_include_task: who may receive t, by the way it is reached.       *)
(***************************************************************************)
ShouldInclude(ws, p, t, reason) ==
  \/ reason = "entrypoint"
  \/ <<p, t>> \in ws.optsIn
  \/ reason = "native" /\ CascadesNatively(ws, t) /\ CanInherit(ws, p, t)
  \/ reason \in {"bridge", "dependency"} /\ CascadesAcross(ws, t) /\ CanInherit(ws, p, t)
  \/ reason = "targeted" /\ Participates(ws, p, t)

(***************************************************************************)
(* should_propagate_same_task_across_bridge: not where t names a task to   *)
(* run in the target's ecosystem itself.                                   *)
(***************************************************************************)
Propagates(ws, p, q, t) ==
  \/ ws.ecosystem[p] = ws.ecosystem[q]
  \/ \A d \in ToSet(ws.targeted[t][ws.ecosystem[p]]) : d[1] # ws.ecosystem[q]

-----------------------------------------------------------------------------

(* The package graph (graph.rs) *)

Native(ws, p)     == ToSet(ws.native[p])
Bridged(ws, p)    == ToSet(ws.bridges[p])
Successors(ws, p) == Native(ws, p) \cup Bridged(ws, p)

(***************************************************************************)
(* The packages a native walk from p visits, p included.                   *)
(***************************************************************************)
NativeClosure(ws, p) ==
  {q \in Packages : \A S \in SUBSET Packages :
     p \in S /\ (\A s \in S : Native(ws, s) \subseteq S) => q \in S}

(***************************************************************************)
(* collect_reachable_packages_matching: the walk enters every package that *)
(* is not of ecosystem e, stops at those that are, and returns them.       *)
(***************************************************************************)
ReachableMatching(ws, p, e) ==
  LET Passed(s) == {q \in Successors(ws, s) : ws.ecosystem[q] # e}
      Entered   == {q \in Packages : \A S \in SUBSET Packages :
                      p \in S /\ (\A s \in S : Passed(s) \subseteq S) => q \in S}
  IN  {q \in Packages : ws.ecosystem[q] = e /\ \E s \in Entered : q \in Successors(ws, s)}

=============================================================================

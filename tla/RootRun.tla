------------------------------ MODULE RootRun -------------------------------
(***************************************************************************)
(* flux run (main.rs): the root plan is executed task by task with its     *)
(* conditions, outputs and caches, then the package tasks, then the report *)
(* is decided and written.  What a command prints and whether it succeeds, *)
(* and how a cache answers, are free choices; the caches themselves are    *)
(* not modelled here.  A configuration has one more field:                 *)
(*   reportFile   what is at the path of --report before the run: "absent" *)
(*                or "old"; "unwanted" without --report                    *)
(***************************************************************************)
EXTENDS RootPlan

VARIABLES
  mode,      \* the cache flag: "default", "no_cache", "required" or "hit_required"
  packages,  \* whether the package plan has tasks
  stage,     \* "planning", "next", "execute", "done", or why the run failed
  position,  \* the place of the task at hand in the plan
  outcomes,  \* completed or skipped, for the root tasks already decided
  outputs,   \* the captured output, "empty" or "full", of those that produce one
  session,   \* of the task at hand: "none", "miss" or "hit"
  report,    \* the outcome reported, or "none"
  reportFile, \* what is at the path of --report: as above, or an outcome
  temp       \* the temporary file of the report: "none", "partial" or "whole"

fileVars == <<reportFile, temp>>
runVars  == <<mode, packages, stage, position, outcomes, outputs, session, report, fileVars>>
allVars  == <<vars, runVars>>

Modes == {"default", "no_cache", "required", "hit_required"}

Cached(t) == t \in conf.cached /\ mode # "no_cache"
Required  == mode \in {"required", "hit_required"}

\* Faulty: the run is skipped only if everything was.
AllSkipped == \A t \in DOMAIN outcomes : outcomes[t] = "skipped"

AnySkipped == \E t \in DOMAIN outcomes : outcomes[t] = "skipped"

Current == rootPlan[position]
Left    == position <= Len(rootPlan)

-----------------------------------------------------------------------------

(***************************************************************************)
(* An affected run in which nothing changed has no root plan at all.       *)
(***************************************************************************)
InitRun ==
  /\ Init
  /\ mode \in Modes /\ packages \in BOOLEAN
  /\ stage = "planning" /\ position = 1
  /\ outcomes = <<>> /\ outputs = <<>>
  /\ session = "none" /\ report = "none"
  /\ reportFile = conf.reportFile /\ temp = "none"

Plan ==
  /\ stage = "planning" /\ Collect
  /\ stage' = IF pc' \in {"cycle", "invalid"} THEN "failed planning" ELSE stage
  /\ UNCHANGED <<mode, packages, position, outcomes, outputs, session, report, fileVars>>

SkipRootPlan ==
  /\ stage = "planning" /\ pc = "collect" /\ visiting \cup completed = {}
  /\ pc' = "planned" /\ stack' = <<>>
  /\ UNCHANGED <<conf, visiting, completed, rootPlan, runVars>>

(***************************************************************************)
(* --cache-hit-required needs a cached task in a plan that is not empty.   *)
(***************************************************************************)
StartRun ==
  /\ stage = "planning" /\ pc = "planned"
  /\ stage' = IF /\ mode = "hit_required"
                 /\ rootPlan # <<>> \/ packages
                 /\ \A t \in ToSet(rootPlan) : ~ Cached(t)
              THEN "failed: no cached task" ELSE "next"
  /\ UNCHANGED <<vars, mode, packages, position, outcomes, outputs, session, report, fileVars>>

\* Faulty: only the first dependency is looked at.
FirstDependencySkipped(t) ==
  \E u \in {conf.dependsOn[t][i] : i \in DOMAIN conf.dependsOn[t] \cap {1}} \cap DOMAIN outcomes :
    outcomes[u] = "skipped"

\* Faulty: a task with a condition of its own looks at nothing else.
DependencySkippedUnconditioned(t) ==
  /\ conf.condition[t] = NoTask
  /\ \E u \in DependsOn(t) \cap DOMAIN outcomes : outcomes[u] = "skipped"

DependencySkipped(t) == \E u \in DependsOn(t) \cap DOMAIN outcomes : outcomes[u] = "skipped"

ConditionMet(t) ==
  \/ conf.condition[t] = NoTask
  \/ conf.condition[t] \in DOMAIN outputs /\ outputs[conf.condition[t]] # "empty"

Decide(t, outcome) == outcomes' = [u \in DOMAIN outcomes \cup {t} |->
                                     IF u = t THEN outcome ELSE outcomes[u]]

HitMissing(t, found) == Cached(t) /\ mode = "hit_required" /\ found # "hit"

SkipTask ==
  /\ stage = "next" /\ Left
  /\ DependencySkipped(Current) \/ ~ ConditionMet(Current)
  /\ Decide(Current, "skipped") /\ position' = position + 1
  /\ UNCHANGED <<vars, mode, packages, stage, outputs, session, report, fileVars>>

(***************************************************************************)
(* Outputs are substituted, the cache is prepared and restored; a cache    *)
(* that cannot be prepared is not used, and one that cannot be restored is *)
(* a miss, unless the cache is required.                                   *)
(***************************************************************************)
StartTask ==
  /\ stage = "next" /\ Left
  /\ LET t == Current
     IN  /\ ~ DependencySkipped(t) /\ ConditionMet(t)
         /\ IF ~ (conf.references[t] \subseteq DOMAIN outputs)
            THEN stage' = "failed: missing output" /\ session' = "none"
            ELSE \E found \in IF Cached(t) THEN {"unprepared", "unrestored", "miss", "hit"}
                              ELSE {"none"} :
                   LET broken == found \in {"unprepared", "unrestored"}
                   IN  /\ session' = CASE found = "unprepared" -> "none"
                                       [] found = "unrestored" -> "miss"
                                       [] OTHER -> found
                       /\ stage' = IF broken /\ Required THEN "failed: cache"
                                   ELSE IF HitMissing(t, found) THEN "failed: no hit"
                                   ELSE "execute"
  /\ UNCHANGED <<vars, mode, packages, position, outcomes, outputs, report, fileVars>>

(***************************************************************************)
(* The commands run, hit or not; then the cache is saved, then the output  *)
(* is published.                                                           *)
(***************************************************************************)
FinishRootTask ==
  /\ stage = "execute"
  /\ \E saved \in IF session = "none" THEN {TRUE} ELSE BOOLEAN,
        printed \in {"empty", "full"} :
       IF ~ saved /\ Required
       THEN stage' = "failed: cache" /\ UNCHANGED <<position, outcomes, outputs>>
       ELSE /\ stage' = "next" /\ position' = position + 1
            /\ Decide(Current, "completed")
            /\ outputs' = IF Current \in conf.produces
                          THEN [u \in DOMAIN outputs \cup {Current} |->
                                  IF u = Current THEN printed ELSE outputs[u]]
                          ELSE outputs
  /\ session' = "none"
  /\ UNCHANGED <<vars, mode, packages, report, fileVars>>

CommandFails ==
  /\ stage = "execute"
  /\ stage' = "failed: command"
  /\ UNCHANGED <<vars, mode, packages, position, outcomes, outputs, session, report, fileVars>>

(***************************************************************************)
(* The package tasks run if no root task was skipped, and the outcome is   *)
(* reported.                                                               *)
(***************************************************************************)
FinishRun ==
  /\ stage = "next" /\ ~ Left
  /\ stage' = IF reportFile = "unwanted" THEN "done" ELSE "report"
  /\ report' = IF AnySkipped \/ (rootPlan = <<>> /\ ~ packages) THEN "skipped" ELSE "completed"
  /\ UNCHANGED <<vars, mode, packages, position, outcomes, outputs, session, fileVars>>

PackageTaskFails ==
  /\ stage = "next" /\ ~ Left
  /\ packages /\ ~ AnySkipped
  /\ stage' = "failed: command"
  /\ UNCHANGED <<vars, mode, packages, position, outcomes, outputs, session, report, fileVars>>

(***************************************************************************)
(* write_execution_report: a temporary file is written and synced, the old *)
(* report removed, and the file renamed.  Each step may fail, and the      *)
(* process may be killed before it.                                        *)
(***************************************************************************)
WriteTemp ==
  /\ stage = "report" /\ temp = "none"
  /\ \/ temp' = "whole" /\ UNCHANGED stage
     \/ temp' = "partial" /\ stage' = "failed: report"
  /\ UNCHANGED <<vars, mode, packages, position, outcomes, outputs, session, report, reportFile>>

RemoveReport ==
  /\ stage = "report" /\ temp = "whole" /\ reportFile = "old"
  /\ reportFile' = "absent"
  /\ UNCHANGED <<vars, mode, packages, stage, position, outcomes, outputs, session, report, temp>>

RenameReport ==
  /\ stage = "report" /\ temp = "whole" /\ reportFile = "absent"
  /\ \/ reportFile' = report /\ stage' = "done"
     \/ stage' = "failed: report" /\ UNCHANGED reportFile
  /\ temp' = "none"
  /\ UNCHANGED <<vars, mode, packages, position, outcomes, outputs, session, report>>

KilledWhileReporting ==
  /\ stage = "report"
  /\ stage' = "failed: report"
  /\ UNCHANGED <<vars, mode, packages, position, outcomes, outputs, session, report, fileVars>>

Work ==
  \/ Plan \/ SkipRootPlan \/ StartRun
  \/ SkipTask \/ StartTask \/ FinishRootTask \/ CommandFails
  \/ FinishRun \/ PackageTaskFails
  \/ WriteTemp \/ RemoveReport \/ RenameReport \/ KilledWhileReporting

Going == stage \in {"planning", "next", "execute", "report"}
Over  == ~ Going /\ UNCHANGED allVars

SpecRun     == InitRun /\ [][Work \/ Over]_allVars
FairSpecRun == SpecRun /\ WF_allVars(Work)

-----------------------------------------------------------------------------

(***************************************************************************)
(* Substituting outputs into a task that is to run never fails: the tasks  *)
(* it takes them from have all run, for had one been skipped, the skip     *)
(* would have reached this task through the dependencies in between.       *)
(***************************************************************************)
OutputsAvailable == stage # "failed: missing output"

(***************************************************************************)
(* No command starts below a skipped task, however far: the skip of a      *)
(* release decision stops stamping, tagging and publishing alike.          *)
(***************************************************************************)
SkipSpreads ==
  stage = "execute" =>
    \A t \in TransitiveDependencies(Current) \cap DOMAIN outcomes : outcomes[t] = "completed"

(***************************************************************************)
(* The outcome reported is that of the task asked for (README.md:326),     *)
(* though it is computed from any task that was skipped; and whoever reads *)
(* the file, at any time and after any failure, finds the old report, none *)
(* or this whole one, which is there if the run succeeds.                  *)
(***************************************************************************)
ReportIsTargetOutcome ==
  /\ report # "none" /\ Target \in ToSet(rootPlan) => report = outcomes[Target]
  /\ reportFile \in {conf.reportFile, "absent", report}
  /\ stage = "done" => reportFile \in {"unwanted", report}
  /\ stage \notin {"report", "failed: report", "done"} => reportFile = conf.reportFile

(***************************************************************************)
(* Planning returns, whatever the dependencies, and so does the run: no    *)
(* step of the recursion enters a task from its own dependencies.          *)
(***************************************************************************)
RunEnds == [][NoTaskWithinItself']_vars /\ <>(~ Going)

=============================================================================

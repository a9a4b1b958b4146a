----------------------------- MODULE PackageRun -----------------------------
(***************************************************************************)
(* The package phase of `flux run` (main.rs): the scheduler's units are    *)
(* executed one after the other, each by one process, and a failing unit   *)
(* either ends the run or is warned about and passed over, depending on    *)
(* whether its packages opted into the task or merely inherited it.        *)
(*                                                                         *)
(* All units are made before the first is executed, so the scheduler's     *)
(* steps all come first, and if it returns an error nothing is executed.   *)
(***************************************************************************)
EXTENDS BatchScheduler

VARIABLES
  explicit,   \* the tasks whose package opted in explicitly
  position,   \* the number of units executed
  result,     \* what became of each task
  status      \* "running", "finished", "aborted", or "failed" to be scheduled

runVars == <<explicit, position, result, status>>

(***************************************************************************)
(* "cut": a batch is one process; when a member fails, cargo may or may    *)
(* not have got to the others.                                             *)
(***************************************************************************)
Results == {"none", "ok", "failed", "cut"}

InitRun ==
  /\ Init
  /\ explicit \in SUBSET Tasks
  /\ position = 0
  /\ result = [i \in Tasks |-> "none"]
  /\ status = "running"

Plan == Schedule /\ UNCHANGED runVars

\* Faulty: every member must have opted in.
AllOptedIn(unit) == unit \subseteq explicit

(***************************************************************************)
(* BatchedExecution.explicitly_opted_in: any member; a single task is the  *)
(* same test on one member.                                                *)
(***************************************************************************)
ExplicitlyOptedIn(unit) == unit \cap explicit # {}

ProcessResults(unit) ==
  {r \in [unit -> {"ok", "failed", "cut"}] :
     (\E i \in unit : r[i] = "cut") => (\E i \in unit : r[i] = "failed")}

(***************************************************************************)
(* execute_unit, and handle_unit_failure when its process fails.           *)
(***************************************************************************)
ExecuteUnit ==
  /\ pc = "done" /\ status = "running"
  /\ position < Len(units)
  /\ LET unit == units[position + 1]
     IN  \E r \in ProcessResults(unit) :
           /\ result' = [i \in Tasks |-> IF i \in unit THEN r[i] ELSE result[i]]
           /\ status' = IF ExplicitlyOptedIn(unit) /\ \E i \in unit : r[i] = "failed"
                        THEN "aborted" ELSE status
  /\ position' = position + 1
  /\ UNCHANGED <<vars, explicit>>

ScheduleFails ==
  /\ pc = "cycle" /\ status = "running"
  /\ status' = "failed"
  /\ UNCHANGED <<vars, explicit, position, result>>

EndRun ==
  /\ pc = "done" /\ status = "running"
  /\ position = Len(units)
  /\ status' = "finished"
  /\ UNCHANGED <<vars, explicit, position, result>>

Work == Plan \/ ScheduleFails \/ ExecuteUnit \/ EndRun

Over == status # "running" /\ UNCHANGED <<vars, runVars>>

NextRun == Work \/ Over

SpecRun     == InitRun /\ [][NextRun]_<<vars, runVars>>
FairSpecRun == SpecRun /\ WF_<<vars, runVars>>(Work)

-----------------------------------------------------------------------------

Started == {i \in Tasks : result[i] # "none"}

(***************************************************************************)
(* A run that finishes has not swallowed the failure of a task its package *)
(* asked for, on its own or in a batch with inherited ones, and has left   *)
(* no task out.                                                            *)
(***************************************************************************)
ExplicitFailureEndsRun ==
  status = "finished" =>
    /\ Started = Tasks
    /\ \A i \in explicit : result[i] = "ok"

(***************************************************************************)
(* A run ends, whatever fails on the way and whatever the plan waits for.  *)
(***************************************************************************)
RunEnds == <>(status # "running")
=============================================================================

------------------------------- MODULE DagRun -------------------------------
(***************************************************************************)
(* What a schedule of a task graph promises, whoever makes it: tasks are   *)
(* taken in groups, each task once, and never before the tasks it waits    *)
(* for, except that a group may hold a task together with prerequisites    *)
(* the task allows it to absorb, if the group can be ordered inside.       *)
(***************************************************************************)
EXTENDS Naturals

CONSTANTS Tasks

VARIABLES
  prerequisites,   \* what each task waits for
  absorbable,      \* the prerequisites it may share a group with
  taken            \* the tasks taken so far

vars == <<prerequisites, absorbable, taken>>

Init ==
  /\ prerequisites \in [Tasks -> SUBSET Tasks]
  /\ absorbable \in [Tasks -> SUBSET Tasks]
  /\ taken = {}

Orderable(B) ==
  \A S \in SUBSET B : S # {} => \E i \in S : prerequisites[i] \cap S = {}

Take(B) ==
  /\ B # {}
  /\ B \cap taken = {}
  /\ \A i \in B : prerequisites[i] \subseteq taken \cup (B \cap absorbable[i])
  /\ Orderable(B)
  /\ taken' = taken \cup B
  /\ UNCHANGED <<prerequisites, absorbable>>

Next == \E B \in SUBSET Tasks : Take(B)

Spec == Init /\ [][Next]_vars
=============================================================================

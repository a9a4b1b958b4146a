------------------------- MODULE MCPrioritySchedule -------------------------
(***************************************************************************)
(* Instances of PrioritySchedule: every prerequisite relation over a few   *)
(* nodes, self-loops included (nothing stops a task from naming itself in  *)
(* depends_on).                                                            *)
(***************************************************************************)
EXTENDS PrioritySchedule

CONSTANTS Bound

MCNodes == 1 .. Bound

AnyGraphs == [MCNodes -> SUBSET MCNodes]
=============================================================================

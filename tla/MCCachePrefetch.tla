-------------------------- MODULE MCCachePrefetch ---------------------------
(***************************************************************************)
(* Instances of CachePrefetch.                                             *)
(***************************************************************************)
EXTENDS CachePrefetch

BothTasks == <<1, 2>>
=============================================================================

----------------------------- MODULE MCRootRun ------------------------------
(***************************************************************************)
(* Instances of RootRun: four tasks, of which 4 is asked for.              *)
(***************************************************************************)
EXTENDS RootRun

MCTasks == 1 .. 4

Sorted(S) == SetToSortSeq(S, <)

(***************************************************************************)
(* Every dependency graph over tasks 2 to 4, in which 2 may be undefined,  *)
(* and it or the target may have no root command.                          *)
(***************************************************************************)
Graphs ==
  {[defined |-> d, root |-> r, packaged |-> {}, cached |-> {}, produces |-> {},
    dependsOn |-> <<(<<>>)>> \o [i \in 1 .. 3 |-> Sorted(g[i + 1])],
    condition |-> [t \in MCTasks |-> NoTask], references |-> [t \in MCTasks |-> {}],
    reportFile |-> "unwanted"] :
     d \in {MCTasks, MCTasks \ {2}}, r \in {{2, 3}, {3, 4}},
     g \in [2 .. 4 -> SUBSET (2 .. 4)]}

(***************************************************************************)
(* Acyclic graphs of tasks with outputs, conditions, references and        *)
(* caches.  In some of them 3 produces an output and 2 none, 1 has no root    *)
(* command, or 4 also has a command for packages.                          *)
(***************************************************************************)
Kinds ==
  {[root |-> MCTasks, packaged |-> {}, produces |-> {1, 2}, cached |-> {3}],
   [root |-> MCTasks, packaged |-> {}, produces |-> {1, 3}, cached |-> {}],
   [root |-> {2, 3, 4}, packaged |-> {}, produces |-> {1, 2}, cached |-> {}],
   [root |-> MCTasks, packaged |-> {4}, produces |-> {1, 2}, cached |-> {}]}

Outputs ==
  {[defined |-> MCTasks, root |-> k.root, packaged |-> k.packaged, cached |-> k.cached,
    produces |-> k.produces,
    dependsOn |-> <<(<<>>), d2, d3, d4>>,
    condition |-> <<NoTask, w2, w3, w4>>, references |-> <<{}, {}, r3, r4>>,
    reportFile |-> IF k.cached = {} THEN "old" ELSE "absent"] :
     k \in Kinds,
     d2 \in {<<>>, <<1>>}, d3 \in {<<1>>, <<2>>, <<1, 2>>},
     d4 \in {<<2>>, <<3>>, <<2, 3>>},
     w2 \in {NoTask, 1}, w3 \in {NoTask, 1}, w4 \in {NoTask, 2},
     r3 \in {{}, {2}}, r4 \in {{}, {2}, {3}}}

GraphsAndOutputs == Graphs \cup Outputs

=============================================================================

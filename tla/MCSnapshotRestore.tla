-------------------------- MODULE MCSnapshotRestore -------------------------
(***************************************************************************)
(* An instance of SnapshotRestore: two keys, two files, of which one is    *)
(* not in every snapshot.                                                  *)
(***************************************************************************)
EXTENDS SnapshotRestore

TwoKeys == <<"first", "second">>

TwoSnapshots == {[f \in Files |-> 0], [f \in Files |-> f]}

=============================================================================

---------------------------- MODULE SnapshotStore ---------------------------
(***************************************************************************)
(* Storage snapshots (storage.rs, storage/parallel.rs): what an archive    *)
(* is, and when unpack accepts it.  Saving and restoring run on different  *)
(* machines and share nothing but the objects in a store.                  *)
(*                                                                         *)
(* The contents of a file are a version.  A file is declared through a     *)
(* directory of its own, so it may be absent: odd versions stand for that. *)
(*                                                                         *)
(* An archive is a record:                                                 *)
(*   key        the storage key it was made for                            *)
(*   digests    the manifest: what each archived file was hashed to        *)
(*   payload    the compressed blocks, in the order they were written      *)
(*   shards     for each shard its files and its extents, the places of    *)
(*              its blocks in the payload                                  *)
(* An archive of an older flux has no shards and is read as one.           *)
(***************************************************************************)
EXTENDS Naturals, FiniteSets, SequencesExt

CONSTANTS
  Files,      \* the files under the declared paths, numbered in path order
  Nothing,    \* no object
  Damaged,    \* an object no archive can be read from
  InFlight    \* how many parts or ranges are moved at a time (4 in the code)

ASSUME FilesAssumption == Files \subseteq Nat \ {0} /\ IsFiniteSet(Files)
ASSUME InFlightAssumption == InFlight \in Nat \ {0}

Present(v) == v % 2 = 0

-----------------------------------------------------------------------------

(***************************************************************************)
(* A file is archived in two blocks, since it may change while it is read. *)
(* What ends a shard belongs to its last block.                            *)
(***************************************************************************)
Block(f, part, v) == [file |-> f, part |-> part, version |-> v]

(***************************************************************************)
(* The blocks of a shard whose files, in this order, have these contents.  *)
(***************************************************************************)
Blocks(order, contents) ==
  [i \in 1 .. 2 * Len(order) |->
     LET f == order[(i + 1) \div 2]
     IN  Block(f, IF i % 2 = 1 THEN "first" ELSE "second", contents[f])]

(***************************************************************************)
(* ExtentReader: the blocks a shard's extents name, in their order.        *)
(***************************************************************************)
Content(a, s) == [i \in DOMAIN s.extents |-> a.payload[s.extents[i]]]

\* Faulty: files are not compared with their digests.
SameNames(block, expected) == block.file = expected.file /\ block.part = expected.part

Same(block, expected) == block = expected

(***************************************************************************)
(* A shard is extracted and verified: it holds its files and no others, in *)
(* any order, whole, with the contents the manifest gives them.            *)
(***************************************************************************)
ShardValid(a, s) ==
  LET content == Content(a, s)
  IN  \E order \in SetToSeqs(s.files) :
        LET expected == Blocks(order, a.digests)
        IN  /\ Len(content) = Len(expected)
            /\ \A i \in DOMAIN content : Same(content[i], expected[i])

(***************************************************************************)
(* unpack's checks of the index: the extents cover the payload without gap *)
(* or overlap, and every file is in one shard.                             *)
(***************************************************************************)
IndexValid(a) ==
  LET Extents(n) == ToSet(a.shards[n].extents)
  IN  /\ \A n \in DOMAIN a.shards : IsInjective(a.shards[n].extents)
      /\ \A n, o \in DOMAIN a.shards : n # o =>
           /\ Extents(n) \cap Extents(o) = {}
           /\ a.shards[n].files \cap a.shards[o].files = {}
      /\ UNION {Extents(n) : n \in DOMAIN a.shards} = DOMAIN a.payload
      /\ UNION {a.shards[n].files : n \in DOMAIN a.shards} = DOMAIN a.digests

Valid(a, key) ==
  /\ a # Damaged
  /\ a.key = key
  /\ IndexValid(a)
  /\ \A n \in DOMAIN a.shards : ShardValid(a, a.shards[n])

=============================================================================

--------------------------- MODULE SnapshotRestore --------------------------
(***************************************************************************)
(* storage::restore: the keys are tried in order, each where it lies now   *)
(* and where an older flux put it; what is found is downloaded, unpacked   *)
(* beside the workspace, verified and moved into place path by path.  All  *)
(* the while other runs replace the objects, which also expire or rot.     *)
(* --required turns a miss into an error once all is over.                 *)
(***************************************************************************)
EXTENDS SnapshotStore

CONSTANTS
  Keys,         \* the storage keys, a sequence
  Saved,        \* the contents other runs archive
  Pieces        \* the ranges of a large object

ASSUME RestoreAssumption ==
  /\ Keys \in Seq(ToSet(Keys)) /\ Keys # <<>>
  /\ Pieces \subseteq Nat /\ IsFiniteSet(Pieces)

Locations == ToSet(Keys) \X {"v2", "legacy"}

VARIABLES
  store,        \* the object at each location
  lasting,      \* the locations that have not been empty yet (for a property)
  transport,    \* "local" or "s3"
  restoring,    \* where the restore is; "hit", "miss" or "error" at the end
  attempt,      \* the place being tried
  pinned,       \* the object a download by ranges began with
  asked,        \* the pieces asked for
  fetched,      \* the object each piece was fetched from
  download,     \* the archive that was downloaded
  staged,       \* what the files unpacked beside the workspace hold
  removed,      \* the paths whose old output was removed
  replaced      \* the paths the staged output was moved to

remoteVars  == <<store, lasting>>
fetchVars   == <<pinned, asked, fetched>>
outputVars  == <<staged, removed, replaced>>
restorerVars  == <<transport, restoring, attempt, fetchVars, download, outputVars>>
restoreVars == <<remoteVars, restorerVars>>

AtRestore(s) == restoring = s

Fail == restoring' = "error"

-----------------------------------------------------------------------------

(***************************************************************************)
(* What a finished save stores; one shard is enough here, and unpack takes *)
(* its files in any order.                                                 *)
(***************************************************************************)
ArchiveOf(key, contents) ==
  LET files   == {f \in Files : Present(contents[f])}
      payload == Blocks(SetToSeq(files), contents)
  IN  [key |-> key, digests |-> [f \in files |-> contents[f]], payload |-> payload,
       shards |-> <<[files |-> files, extents |-> [i \in DOMAIN payload |-> i]]>>]

Archives == [k \in ToSet(Keys) |-> {ArchiveOf(k, c) : c \in Saved}]

(***************************************************************************)
(* The same with other contents in one block.                              *)
(***************************************************************************)
Rotten(a) == {[a EXCEPT !.payload[i].version = @ + 2] : i \in DOMAIN a.payload}

ASSUME NothingAssumption ==
  /\ Nothing # Damaged
  /\ \A k \in ToSet(Keys) : \A a \in Archives[k] : Nothing \notin {a} \cup Rotten(a)

InitRestore ==
  /\ store \in {s \in [Locations -> {Nothing} \cup UNION {Archives[k] : k \in ToSet(Keys)}] :
                  \A l \in Locations : s[l] \in {Nothing} \cup Archives[l[1]]}
  /\ lasting = {l \in Locations : store[l] # Nothing}
  /\ transport \in {"local", "s3"}
  /\ restoring = "look" /\ attempt = 1
  /\ pinned = Nothing /\ asked = {} /\ fetched = <<>> /\ download = Nothing
  /\ staged = <<>> /\ removed = {} /\ replaced = {}

(***************************************************************************)
(* Other runs, and the store itself.  Nothing writes any more where an     *)
(* older flux did; at most one object is rotten (a bound).                 *)
(***************************************************************************)
OtherSave ==
  /\ \E k \in ToSet(Keys) : \E a \in Archives[k] :
       /\ store[<<k, "v2">>] # a
       /\ store' = [store EXCEPT ![<<k, "v2">>] = a]
  /\ UNCHANGED <<lasting, restorerVars>>

Rot ==
  /\ \A l \in Locations : store[l] \in {Nothing} \cup Archives[l[1]]
  /\ \E l \in Locations :
       /\ store[l] # Nothing
       /\ \E a \in {Damaged} \cup Rotten(store[l]) : store' = [store EXCEPT ![l] = a]
  /\ UNCHANGED <<lasting, restorerVars>>

Expire ==
  /\ \E l \in Locations :
       /\ store[l] # Nothing
       /\ store' = [store EXCEPT ![l] = Nothing]
       /\ lasting' = lasting \ {l}
  /\ UNCHANGED restorerVars

-----------------------------------------------------------------------------

\* Faulty: where an older flux put it is tried for the first key only.
PlacesOnce ==
  [i \in 1 .. Len(Keys) + 1 |->
     IF i = 2 THEN <<Keys[1], "legacy">> ELSE <<Keys[IF i = 1 THEN 1 ELSE i - 1], "v2">>]

(***************************************************************************)
(* Where restore looks, in its order.                                      *)
(***************************************************************************)
Places ==
  [i \in 1 .. 2 * Len(Keys) |->
     <<Keys[(i + 1) \div 2], IF i % 2 = 1 THEN "v2" ELSE "legacy">>]

Place == Places[attempt]

TryNext ==
  IF attempt = Len(Places) THEN restoring' = "miss" /\ UNCHANGED attempt
  ELSE attempt' = attempt + 1 /\ UNCHANGED restoring

(***************************************************************************)
(* A local object is copied, which may fail.                               *)
(***************************************************************************)
Copy ==
  /\ AtRestore("look") /\ transport = "local"
  /\ \/ store[Place] = Nothing /\ TryNext /\ UNCHANGED download
     \/ /\ store[Place] # Nothing
        /\ download' = store[Place] /\ restoring' = "unpack"
        /\ UNCHANGED attempt
     \/ Fail /\ UNCHANGED <<attempt, download>>
  /\ UNCHANGED <<remoteVars, transport, fetchVars, outputVars>>

(***************************************************************************)
(* The server answers the request for the metadata: the object is fetched  *)
(* by ranges if it is large, and the next place is tried without one.      *)
(***************************************************************************)
AnswerHead ==
  /\ AtRestore("look") /\ transport = "s3"
  /\ IF store[Place] = Nothing THEN TryNext /\ UNCHANGED pinned
     ELSE /\ \/ restoring' = "whole" /\ UNCHANGED pinned
             \/ restoring' = "ranges" /\ pinned' = store[Place]
          /\ UNCHANGED attempt
  /\ UNCHANGED <<remoteVars, transport, asked, fetched, download, outputVars>>

(***************************************************************************)
(* The answer to a single request is one object; that it is no longer      *)
(* there is an error now.                                                  *)
(***************************************************************************)
AnswerWhole ==
  /\ AtRestore("whole")
  /\ IF store[Place] = Nothing THEN Fail /\ UNCHANGED download
     ELSE download' = store[Place] /\ restoring' = "unpack"
  /\ UNCHANGED <<remoteVars, transport, attempt, fetchVars, outputVars>>

(***************************************************************************)
(* Ranges are asked for in order, a few at a time, and answered in any     *)
(* order, if the object still has the ETag the request names; or it fails. *)
(***************************************************************************)
AskPiece ==
  /\ AtRestore("ranges") /\ Cardinality(asked \ DOMAIN fetched) < InFlight
  /\ \E p \in Pieces \ asked : (\A q \in Pieces \ asked : p <= q) /\ asked' = asked \cup {p}
  /\ UNCHANGED <<remoteVars, transport, restoring, attempt, pinned, fetched, download,
                 outputVars>>

AnswerPiece ==
  /\ AtRestore("ranges")
  /\ \E p \in asked \ DOMAIN fetched :
       /\ store[Place] = pinned
       /\ fetched' = [q \in DOMAIN fetched \cup {p} |->
                        IF q = p THEN store[Place] ELSE fetched[q]]
  /\ UNCHANGED <<remoteVars, transport, restoring, attempt, pinned, asked, download,
                 outputVars>>

(***************************************************************************)
(* An index in the last piece names the payload of its own archive: pieces *)
(* of several objects would make none.                                     *)
(***************************************************************************)
EndFetch ==
  /\ AtRestore("ranges") /\ DOMAIN fetched = Pieces
  /\ restoring' = "unpack"
  /\ \E a \in {fetched[p] : p \in Pieces} :
       download' = IF \A p \in Pieces : fetched[p] = a THEN a ELSE Damaged
  /\ pinned' = Nothing /\ asked' = {} /\ fetched' = <<>>
  /\ UNCHANGED <<remoteVars, transport, attempt, outputVars>>

\* Faulty: ranges have no deadline.
DeadlineWithoutRanges == {"look", "whole"}

FetchDeadline == {"look", "whole", "ranges"}

(***************************************************************************)
(* A request that failed, or the deadline of the whole download.           *)
(***************************************************************************)
GiveUpFetch ==
  /\ transport = "s3" /\ restoring \in FetchDeadline
  /\ Fail
  /\ pinned' = Nothing /\ asked' = {} /\ fetched' = <<>>
  /\ UNCHANGED <<remoteVars, transport, attempt, download, outputVars>>

-----------------------------------------------------------------------------

Extracted(a) ==
  [f \in DOMAIN a.digests |->
     {b.version : b \in {b \in ToSet(a.payload) : b.file = f}}]

(***************************************************************************)
(* unpack: an archive that is refused ends the restore, and the keys left  *)
(* are not tried.                                                          *)
(***************************************************************************)
Unpack ==
  /\ AtRestore("unpack")
  /\ IF Valid(download, Place[1])
     THEN staged' = Extracted(download) /\ restoring' = "replace"
     ELSE Fail /\ UNCHANGED staged
  /\ UNCHANGED <<remoteVars, transport, attempt, fetchVars, download, removed, replaced>>

(***************************************************************************)
(* Path by path, the old output is removed and the staged one renamed.     *)
(* Either may fail.                                                        *)
(***************************************************************************)
RemoveOutput ==
  /\ AtRestore("replace") /\ removed = replaced
  /\ \E f \in Files \ replaced :
       (\A g \in Files \ replaced : f <= g) /\ removed' = removed \cup {f}
  /\ UNCHANGED <<remoteVars, transport, restoring, attempt, fetchVars, download, staged,
                 replaced>>

RenameOutput ==
  /\ AtRestore("replace") /\ removed # replaced
  /\ replaced' = removed
  /\ UNCHANGED <<remoteVars, transport, restoring, attempt, fetchVars, download, staged,
                 removed>>

ReplaceFails ==
  /\ AtRestore("replace") /\ replaced # Files
  /\ Fail
  /\ UNCHANGED <<remoteVars, transport, attempt, fetchVars, download, outputVars>>

EndReplace ==
  /\ AtRestore("replace") /\ replaced = Files
  /\ restoring' = "hit"
  /\ UNCHANGED <<remoteVars, transport, attempt, fetchVars, download, outputVars>>

-----------------------------------------------------------------------------

Restore == \/ Copy \/ AskPiece \/ EndFetch \/ GiveUpFetch
           \/ Unpack \/ RemoveOutput \/ RenameOutput \/ ReplaceFails \/ EndReplace

StoreAnswers == AnswerHead \/ AnswerWhole \/ AnswerPiece

Others == OtherSave \/ Rot \/ Expire

RestoreOver == restoring \in {"hit", "miss", "error"}

(***************************************************************************)
(* The store changes as long as that can make a difference.                *)
(***************************************************************************)
SpecRestore ==
  /\ InitRestore
  /\ [][\/ Restore \/ StoreAnswers
        \/ restoring \in {"look", "whole", "ranges"} /\ Others
        \/ RestoreOver /\ UNCHANGED restoreVars]_restoreVars
  /\ WF_restoreVars(Restore)

-----------------------------------------------------------------------------

(***************************************************************************)
(* Outputs are touched only once everything was verified (storage.rs:373), *)
(* and what is put there belongs to one snapshot some run saved, all of it *)
(* after a hit, whatever happened to the object and during the download.   *)
(***************************************************************************)
RestoredIsSnapshot ==
  /\ removed # {} => Valid(download, Place[1])
  /\ replaced # {} => \E c \in Saved : \A f \in replaced :
       IF Present(c[f]) THEN f \in DOMAIN staged /\ staged[f] = {c[f]}
       ELSE f \notin DOMAIN staged
  /\ restoring = "hit" => replaced = Files

(***************************************************************************)
(* A miss is reported only if there was nothing to find: every place was   *)
(* empty at some time during the restore.                                  *)
(***************************************************************************)
MissIsReal == restoring = "miss" => lasting = {}

(***************************************************************************)
(* The restore returns though the server may never answer.                 *)
(***************************************************************************)
RestoreEnds == <>RestoreOver

=============================================================================

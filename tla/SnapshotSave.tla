---------------------------- MODULE SnapshotSave ----------------------------
(***************************************************************************)
(* storage::save: hash the files, archive them in shards written           *)
(* concurrently into one file, check that nothing changed, upload.  Other  *)
(* processes may be writing the files all the while, and a server may      *)
(* handle a request after the client has stopped waiting for it.           *)
(***************************************************************************)
EXTENDS SnapshotStore

CONSTANTS
  Key,           \* the storage key saved under
  MaxVersion,    \* bounds the changes of a file
  Transports,    \* "local", "put" or "create", a multipart upload
  Older,         \* what the store may hold before
  Parts          \* the parts of a multipart upload

ShardSet == [files : SUBSET Files, extents : Seq(Nat)]
BlockSet == [file : Files, part : {"first", "second"}, version : Nat]

ASSUME SaveAssumption ==
  /\ MaxVersion \in Nat
  /\ Parts \subseteq Nat /\ IsFiniteSet(Parts)
  /\ Transports \subseteq {"local", "put", "create"}
  /\ Damaged \notin [key : {Key}, digests : UNION {[S -> Nat] : S \in SUBSET Files},
                     payload : Seq(BlockSet), shards : Seq(ShardSet)]

VARIABLES
  files,       \* what each file holds
  saving,      \* where the save is; "saved" or "failed" at the end
  walked,      \* the files whose directory the current walk has read
  found,       \* those it found
  checked,     \* the files hashed in the current pass
  digests,     \* what the first pass hashed them to
  coherent,    \* whether they all held that when the pass ended (for a property)
  shards,      \* the shards, as they are written
  payload,     \* the archive file
  sent,        \* the parts whose upload was started
  received,    \* requests a server has and has not handled
  stored,      \* the parts the server has
  upload,      \* the server's multipart upload: "none", "open" or "closed"
  object       \* what lies under the key

passVars    == <<walked, found, checked>>
archiveVars == <<digests, coherent, shards, payload>>
clientVars  == <<files, saving, passVars, archiveVars, sent>>
serverVars  == <<received, stored, upload, object>>
saveVars    == <<clientVars, serverVars>>

Archive == [key |-> Key, digests |-> digests, payload |-> payload, shards |-> shards]

At(s)   == saving = s
FailSave == saving' = "failed"

-----------------------------------------------------------------------------

InitSave ==
  /\ files \in [Files -> {0, 1}]
  /\ saving = "walk"
  /\ walked = {} /\ found = {} /\ checked = {}
  /\ digests = <<>> /\ coherent = TRUE /\ shards = <<>> /\ payload = <<>>
  /\ sent = {} /\ received = {} /\ stored = {} /\ upload = "none"
  /\ object \in Older

(***************************************************************************)
(* collect: directory by directory.  The second walk must find the files   *)
(* of the first.                                                           *)
(***************************************************************************)
Walk ==
  /\ At("walk") \/ At("walk again")
  /\ \E f \in Files \ walked :
       /\ walked' = walked \cup {f}
       /\ found' = IF Present(files[f]) THEN found \cup {f} ELSE found
  /\ UNCHANGED <<files, saving, checked, archiveVars, sent, serverVars>>

EndWalk ==
  /\ At("walk") \/ At("walk again")
  /\ walked = Files /\ walked' = {}
  /\ saving' = IF At("walk") THEN "hash"
               ELSE IF found = DOMAIN digests THEN "hash again" ELSE "failed"
  /\ UNCHANGED <<files, found, checked, archiveVars, sent, serverVars>>

(***************************************************************************)
(* map_files with file_state: the files are hashed in any order, each at a *)
(* moment of its own; one that has gone is an error.                       *)
(***************************************************************************)
Hash ==
  /\ At("hash")
  /\ \E f \in found \ checked :
       IF Present(files[f])
       THEN /\ checked' = checked \cup {f}
            /\ digests' = [g \in DOMAIN digests \cup {f} |->
                             IF g = f THEN files[f] ELSE digests[g]]
            /\ UNCHANGED saving
       ELSE FailSave /\ UNCHANGED <<checked, digests>>
  /\ UNCHANGED <<files, walked, found, coherent, shards, payload,
                 sent, serverVars>>

(***************************************************************************)
(* parallel::save: the files are dealt out to the shards by size, none of  *)
(* which stays empty if there are files.                                   *)
(***************************************************************************)
Groupings ==
  LET Onto(n) == {g \in [found -> 1 .. n] : \A s \in 1 .. n : \E f \in found : g[f] = s}
  IN  IF found = {} THEN {<<{}>>}
      ELSE UNION {{[s \in 1 .. n |-> {f \in found : g[f] = s}] : g \in Onto(n)} :
                    n \in 1 .. Cardinality(found)}

StartArchive ==
  /\ At("hash") /\ checked = found
  /\ checked' = {} /\ found' = {}
  /\ coherent' = \A f \in found : files[f] = digests[f]
  /\ \E groups \in Groupings :
       shards' = [s \in DOMAIN groups |-> [files |-> groups[s], extents |-> <<>>]]
  /\ saving' = IF \A f \in found : Present(files[f]) THEN "archive" ELSE "failed"
  /\ UNCHANGED <<files, walked, digests, payload, sent, serverVars>>

-----------------------------------------------------------------------------

(***************************************************************************)
(* The blocks of a shard, but for the contents the archiver will find.  It *)
(* takes the files by path: that it is one order is all that matters here. *)
(***************************************************************************)
Expected(s) == Blocks(SetToSeq(shards[s].files), digests)

Written(s) == Len(shards[s].extents) = 2 * Cardinality(shards[s].files)

(***************************************************************************)
(* What the archiver may read for the next block: a file replaced after it *)
(* was opened may still be read as it was.                                 *)
(***************************************************************************)
Readable(s) ==
  LET next == Expected(s)[Len(shards[s].extents) + 1]
      now  == {v \in {files[next.file]} : Present(v)}
      before == payload[Last(shards[s].extents)].version
  IN  {Block(next.file, next.part, v) :
         v \in IF next.part = "first" THEN now ELSE now \cup {before}}

(***************************************************************************)
(* ExtentWriter::write: the place is asked for under the lock the block is *)
(* written under.                                                          *)
(***************************************************************************)
NextPlace(s) == Len(payload) + 1

WriteBlock(s) ==
  /\ At("archive") /\ ~ Written(s)
  /\ IF Readable(s) = {}
     THEN FailSave /\ UNCHANGED <<shards, payload>>
     ELSE /\ \E b \in Readable(s) : payload' = Append(payload, b)
          /\ shards' = [shards EXCEPT ![s].extents = Append(@, NextPlace(s))]
          /\ UNCHANGED saving
  /\ UNCHANGED <<files, passVars, digests, coherent, sent, serverVars>>

EndArchive ==
  /\ At("archive")
  /\ \A s \in DOMAIN shards : Written(s)
  /\ saving' = "walk again"
  /\ UNCHANGED <<files, passVars, archiveVars, sent, serverVars>>

\* Faulty: only the list of files is checked again.
UnchangedUnread(f) == TRUE

SameDigest(f) == files[f] = digests[f]

HashAgain ==
  /\ At("hash again")
  /\ \E f \in found \ checked :
       IF SameDigest(f) THEN checked' = checked \cup {f} /\ UNCHANGED saving
       ELSE FailSave /\ UNCHANGED checked
  /\ UNCHANGED <<files, walked, found, archiveVars, sent, serverVars>>

EndHashAgain ==
  /\ At("hash again") /\ checked = found
  /\ saving' = "upload"
  /\ UNCHANGED <<files, passVars, archiveVars, sent, serverVars>>

(***************************************************************************)
(* A file is written, removed or created while the save reads; contents do *)
(* not come back.  After that only the archive matters.                    *)
(***************************************************************************)
Edit ==
  /\ saving \in {"walk", "hash", "archive", "walk again", "hash again"}
  /\ \E f \in Files, v \in 0 .. MaxVersion :
       /\ v > files[f]
       /\ files' = [files EXCEPT ![f] = v]
  /\ UNCHANGED <<saving, passVars, archiveVars, sent, serverVars>>

-----------------------------------------------------------------------------

(***************************************************************************)
(* transfer, to a directory: a temporary file is renamed into place.       *)
(***************************************************************************)
SaveLocally ==
  /\ At("upload") /\ "local" \in Transports
  /\ \/ object' = Archive /\ saving' = "saved"
     \/ FailSave /\ UNCHANGED object
  /\ UNCHANGED <<files, passVars, archiveVars, sent, received, stored, upload>>

(***************************************************************************)
(* s3::transfer: an archive of up to one part is put in a single request,  *)
(* for another a multipart upload is created.  The client sends a request  *)
(* and waits.                                                              *)
(***************************************************************************)
Request(r) == received' = received \cup {r} /\ saving' = r

UnchangedBut == UNCHANGED <<files, passVars, archiveVars>>

StartUpload ==
  /\ At("upload")
  /\ \E r \in Transports \ {"local"} : Request(r)
  /\ UnchangedBut /\ UNCHANGED <<sent, stored, upload, object>>

StartParts ==
  /\ At("create") /\ upload = "open"
  /\ saving' = "parts"
  /\ UnchangedBut /\ UNCHANGED <<sent, serverVars>>

(***************************************************************************)
(* The parts are sent in order, a few at a time, and stored in any order.  *)
(***************************************************************************)
SendPart ==
  /\ At("parts") /\ Cardinality(sent \ stored) < InFlight
  /\ \E p \in Parts \ sent : (\A q \in Parts \ sent : p <= q) /\ sent' = sent \cup {p}
  /\ UnchangedBut /\ UNCHANGED <<saving, serverVars>>

\* Faulty: the parts still in flight are not waited for.
PartsDoneSent == sent = Parts

PartsDone == sent = Parts /\ stored = Parts

CompleteUpload ==
  /\ At("parts") /\ PartsDone
  /\ Request("complete")
  /\ UnchangedBut /\ UNCHANGED <<sent, stored, upload, object>>

(***************************************************************************)
(* The answer the client waits for.                                        *)
(***************************************************************************)
Answer ==
  /\ saving \in {"put", "complete"} /\ saving \notin received
  /\ saving' = "saved"
  /\ UnchangedBut /\ UNCHANGED <<sent, serverVars>>

\* Faulty: the parts have no deadline.
DeadlineWithoutParts == {"put", "create", "complete"}

Deadline == {"put", "create", "parts", "complete"}

(***************************************************************************)
(* An error, or the deadline of the whole upload: a multipart upload whose *)
(* creation was answered is aborted.                                       *)
(***************************************************************************)
GiveUp ==
  /\ saving \in Deadline
  /\ IF saving \in {"parts", "complete"} THEN Request("abort")
     ELSE FailSave /\ UNCHANGED received
  /\ UnchangedBut /\ UNCHANGED <<sent, stored, upload, object>>

(***************************************************************************)
(* The abort is answered, fails, or meets a deadline of its own.           *)
(***************************************************************************)
EndAbort ==
  /\ At("abort") /\ FailSave
  /\ UnchangedBut /\ UNCHANGED <<sent, serverVars>>

-----------------------------------------------------------------------------

(***************************************************************************)
(* The network and the server, in their own time: a request is handled     *)
(* even if the client has given up, may never be, or may be twice, when an *)
(* answer is lost and the client retries.  Of a second upload created that *)
(* way the client knows nothing.                                           *)
(***************************************************************************)
Resend ==
  /\ saving \in {"put", "create", "complete"}
  /\ received' = received \cup {saving}
  /\ UNCHANGED <<clientVars, stored, upload, object>>

ServerPut ==
  /\ "put" \in received /\ received' = received \ {"put"}
  /\ object' = Archive
  /\ UNCHANGED <<clientVars, stored, upload>>

ServerCreate ==
  /\ "create" \in received /\ received' = received \ {"create"}
  /\ upload' = IF upload = "none" THEN "open" ELSE upload
  /\ UNCHANGED <<clientVars, stored, object>>

ServerPart ==
  /\ upload = "open"
  /\ \E p \in sent \ stored : stored' = stored \cup {p}
  /\ UNCHANGED <<clientVars, received, upload, object>>

ServerComplete ==
  /\ "complete" \in received /\ received' = received \ {"complete"}
  /\ IF upload = "open"
     THEN /\ upload' = "closed"
          /\ object' = IF stored = Parts THEN Archive ELSE Damaged
     ELSE UNCHANGED <<upload, object>>
  /\ UNCHANGED <<clientVars, stored>>

ServerAbort ==
  /\ "abort" \in received /\ received' = received \ {"abort"}
  /\ upload' = "closed"
  /\ UNCHANGED <<clientVars, stored, object>>

Save ==
  \/ Walk \/ EndWalk \/ Hash \/ StartArchive
  \/ (\E s \in DOMAIN shards : WriteBlock(s)) \/ EndArchive
  \/ HashAgain \/ EndHashAgain
  \/ SaveLocally \/ StartUpload \/ StartParts \/ SendPart \/ CompleteUpload
  \/ Answer \/ GiveUp \/ EndAbort

Server == Resend \/ ServerPut \/ ServerCreate \/ ServerPart \/ ServerComplete \/ ServerAbort

Ended == saving \in {"saved", "failed"}

SaveOver == Ended /\ UNCHANGED saveVars

SpecSave ==
  /\ InitSave /\ [][Save \/ Edit \/ Server \/ SaveOver]_saveVars
  /\ WF_saveVars(Save)

-----------------------------------------------------------------------------

Prepared == saving \in {"upload", "put", "create", "parts", "complete", "abort", "saved"}

(***************************************************************************)
(* What passes the second check is an archive unpack accepts, and a state  *)
(* its files were in together, whatever was written meanwhile.             *)
(***************************************************************************)
SnapshotExisted ==
  Prepared =>
    /\ Valid(Archive, Key)
    /\ coherent

(***************************************************************************)
(* Under the key lies what was there before or the whole archive, whatever *)
(* is lost, late or aborted, and success is reported only of the archive.  *)
(***************************************************************************)
UploadIsAtomic ==
  /\ object \in Older \cup {Archive}
  /\ saving = "saved" => object = Archive

(***************************************************************************)
(* The save returns though the server may never answer.                    *)
(***************************************************************************)
SaveEnds == <>Ended

=============================================================================

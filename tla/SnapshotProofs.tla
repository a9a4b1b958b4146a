--------------------------- MODULE SnapshotProofs ---------------------------
(***************************************************************************)
(* Proofs that an upload is atomic and that what is uploaded is a snapshot *)
(* the files were in, for any files, contents, shards and parts; and that  *)
(* a restore puts back what one run saved, and reports a miss only where   *)
(* nothing was, for any keys, files, snapshots and pieces, whatever        *)
(* becomes of the objects meanwhile.                                       *)
(***************************************************************************)
EXTENDS SnapshotSave, SnapshotRestore, FiniteSetTheorems, TLAPS

(* Saving *)

Reading == {"walk", "hash", "archive", "walk again", "hash again"}

-----------------------------------------------------------------------------

(***************************************************************************)
(* The upload.  Nothing is sent before the archive is ready; the upload is *)
(* completed only with all parts; what an answer tells has happened; and   *)
(* the client aborts only what it will not complete.                       *)
(***************************************************************************)
Unsent ==
  saving \in Reading \cup {"upload"} =>
    received = {} /\ sent = {} /\ stored = {} /\ upload = "none" /\ object \in Older

PartsInv ==
  /\ sent \subseteq Parts /\ stored \subseteq Parts
  /\ "complete" \in received \/ saving = "complete" => stored = Parts

AnswerInv ==
  /\ object \in Older \cup {Archive}
  /\ saving = "put" => "put" \in received \/ object = Archive
  /\ saving = "complete" => "complete" \in received \/ upload = "closed"
  /\ saving = "saved" => object = Archive

AbortInv ==
  /\ saving \in {"put", "create", "parts", "complete"} => "abort" \notin received
  /\ saving \in {"parts", "complete"} =>
       /\ upload \in {"open", "closed"}
       /\ upload = "closed" => object = Archive

UploadInv == Unsent /\ PartsInv /\ AnswerInv /\ AbortInv

LEMMA UploadInit == InitSave => UploadInv
BY DEF InitSave, UploadInv, Unsent, PartsInv, AnswerInv, AbortInv, Reading

(***************************************************************************)
(* While the files are read the store is as it was.                        *)
(***************************************************************************)
LEMMA ReadingKeepsUpload ==
  ASSUME UploadInv, saving \in Reading, saving' \in Reading \cup {"upload", "failed"},
         UNCHANGED <<sent, serverVars>>
  PROVE  UploadInv'
BY DEF UploadInv, Unsent, PartsInv, AnswerInv, AbortInv, Reading, serverVars

LEMMA ReadingSteps ==
  ASSUME Walk \/ EndWalk \/ Hash \/ StartArchive \/ (\E s \in DOMAIN shards : WriteBlock(s))
           \/ EndArchive \/ HashAgain \/ EndHashAgain \/ Edit
  PROVE  /\ saving \in Reading /\ saving' \in Reading \cup {"upload", "failed"}
         /\ UNCHANGED <<sent, serverVars>>
<1>1. CASE Walk \/ EndWalk
  BY <1>1 DEF Walk, EndWalk, At, Reading
<1>2. CASE Hash \/ StartArchive
  BY <1>2 DEF Hash, StartArchive, At, FailSave, Reading
<1>3. CASE \E s \in DOMAIN shards : WriteBlock(s)
  BY <1>3 DEF WriteBlock, At, FailSave, Reading
<1>4. CASE EndArchive \/ HashAgain \/ EndHashAgain \/ Edit
  BY <1>4 DEF EndArchive, HashAgain, EndHashAgain, Edit, At, FailSave, Reading
<1>. QED
  BY <1>1, <1>2, <1>3, <1>4

LEMMA ClientKeepsUpload ==
  ASSUME UploadInv,
         SaveLocally \/ StartUpload \/ StartParts \/ SendPart \/ CompleteUpload
           \/ Answer \/ GiveUp \/ EndAbort
  PROVE  UploadInv'
<1>1. Archive' = Archive
  BY DEF Archive, archiveVars, UnchangedBut, SaveLocally, StartUpload, StartParts, SendPart,
         CompleteUpload, Answer, GiveUp, EndAbort
<1>2. CASE SaveLocally
  BY <1>1, <1>2 DEF SaveLocally, At, FailSave, UploadInv, Unsent, PartsInv, AnswerInv, AbortInv, Reading
<1>3. CASE StartUpload
  <2>1. PICK r : r \in Transports \ {"local"} /\ received' = received \cup {r} /\ saving' = r
    BY <1>3 DEF StartUpload, Request
  <2>2. r \in {"put", "create"}
    BY <2>1, SaveAssumption
  <2>. QED
    BY <1>1, <1>3, <2>1, <2>2
       DEF StartUpload, At, UploadInv, Unsent, PartsInv, AnswerInv, AbortInv, Reading
<1>4. CASE StartParts
  BY <1>1, <1>4 DEF StartParts, At, serverVars, UploadInv, Unsent, PartsInv, AnswerInv, AbortInv, Reading
<1>5. CASE SendPart
  BY <1>1, <1>5 DEF SendPart, At, serverVars, UploadInv, Unsent, PartsInv, AnswerInv, AbortInv, Reading
<1>6. CASE CompleteUpload
  BY <1>1, <1>6 DEF CompleteUpload, At, Request, PartsDone, UploadInv, Unsent, PartsInv, AnswerInv,
                    AbortInv, Reading
<1>7. CASE Answer
  BY <1>1, <1>7 DEF Answer, serverVars, UploadInv, Unsent, PartsInv, AnswerInv, AbortInv, Reading
<1>8. CASE GiveUp
  BY <1>1, <1>8 DEF GiveUp, Request, FailSave, Deadline, UploadInv, Unsent, PartsInv, AnswerInv,
                    AbortInv, Reading
<1>9. CASE EndAbort
  BY <1>1, <1>9 DEF EndAbort, At, FailSave, serverVars, UploadInv, Unsent, PartsInv, AnswerInv,
                    AbortInv, Reading
<1>. QED
  BY <1>2, <1>3, <1>4, <1>5, <1>6, <1>7, <1>8, <1>9

LEMMA ServerKeepsUpload == ASSUME UploadInv, Server PROVE UploadInv'
<1>1. Archive' = Archive /\ saving' = saving /\ sent' = sent
  BY DEF Server, Resend, ServerPut, ServerCreate, ServerPart, ServerComplete, ServerAbort,
         clientVars, archiveVars, Archive
<1>2. CASE Resend
  BY <1>1, <1>2 DEF Resend, UploadInv, Unsent, PartsInv, AnswerInv, AbortInv, Reading
<1>3. CASE ServerPut \/ ServerCreate
  BY <1>1, <1>3 DEF ServerPut, ServerCreate, UploadInv, Unsent, PartsInv, AnswerInv, AbortInv, Reading
<1>4. CASE ServerPart
  BY <1>1, <1>4 DEF ServerPart, UploadInv, Unsent, PartsInv, AnswerInv, AbortInv, Reading
<1>5. CASE ServerComplete
  BY <1>1, <1>5 DEF ServerComplete, UploadInv, Unsent, PartsInv, AnswerInv, AbortInv, Reading
<1>6. CASE ServerAbort
  BY <1>1, <1>6 DEF ServerAbort, UploadInv, Unsent, PartsInv, AnswerInv, AbortInv, Reading
<1>. QED
  BY <1>2, <1>3, <1>4, <1>5, <1>6 DEF Server

(***************************************************************************)
(* Under the key lies what was there or the whole archive, and success is  *)
(* reported of the archive only (s3::transfer, storage::save).             *)
(***************************************************************************)
THEOREM UploadAtomic == SpecSave => []UploadIsAtomic
<1>1. UploadInv /\ [Save \/ Edit \/ Server \/ SaveOver]_saveVars => UploadInv'
  <2>. SUFFICES ASSUME UploadInv, [Save \/ Edit \/ Server \/ SaveOver]_saveVars PROVE UploadInv'
    OBVIOUS
  <2>1. CASE UNCHANGED saveVars
    BY <2>1 DEF UploadInv, Unsent, PartsInv, AnswerInv, AbortInv, Archive,
                saveVars, clientVars, serverVars, archiveVars
  <2>. QED
    BY <2>1, ReadingSteps, ReadingKeepsUpload, ClientKeepsUpload, ServerKeepsUpload DEF Save, SaveOver
<1>2. UploadInv => UploadIsAtomic
  BY DEF UploadInv, AnswerInv, UploadIsAtomic
<1>. QED
  BY <1>1, <1>2, UploadInit, PTL DEF SpecSave

-----------------------------------------------------------------------------

(***************************************************************************)
(* The archive.  Contents only grow, so a digest is at most what its file  *)
(* holds now, and so is what an archiver read of it.                       *)
(***************************************************************************)
Archived == saving \in {"archive", "walk again", "hash again"} \/ Prepared

SaveTypes ==
  /\ files \in [Files -> Nat]
  /\ walked \subseteq Files /\ found \subseteq Files /\ checked \subseteq Files
  /\ DOMAIN digests \subseteq Files /\ digests \in [DOMAIN digests -> Nat]
  /\ shards \in Seq(ShardSet) /\ payload \in Seq(BlockSet)

HashInv ==
  /\ saving \in {"walk", "hash"} => DOMAIN digests = checked /\ payload = <<>>
  /\ saving = "walk" => checked = {}
  /\ saving = "hash" => checked \subseteq found
  /\ saving \in {"archive", "walk again"} => checked = {}
  /\ saving = "hash again" => found = DOMAIN digests
  /\ saving \in Reading => \A f \in DOMAIN digests : digests[f] <= files[f]

(***************************************************************************)
(* The files checked again hold what they were hashed to, and one that did *)
(* not when the archive was started is not among them.                     *)
(***************************************************************************)
CoherentInv ==
  Archived /\ ~ coherent =>
    /\ saving \in Reading
    /\ \E f \in DOMAIN digests :
         /\ digests[f] < files[f]
         /\ saving = "hash again" => f \notin checked

(***************************************************************************)
(* IndexValid, place by place.                                             *)
(***************************************************************************)
IndexRight(sh, pl, dg) ==
  /\ \A n \in DOMAIN sh : IsInjective(sh[n].extents)
  /\ \A n, o \in DOMAIN sh : n # o =>
       /\ ToSet(sh[n].extents) \cap ToSet(sh[o].extents) = {}
       /\ sh[n].files \cap sh[o].files = {}
  /\ \A n \in DOMAIN sh : ToSet(sh[n].extents) \subseteq DOMAIN pl /\ sh[n].files \subseteq DOMAIN dg
  /\ \A q \in DOMAIN pl : \E n \in DOMAIN sh : q \in ToSet(sh[n].extents)
  /\ \A f \in DOMAIN dg : \E n \in DOMAIN sh : f \in sh[n].files

(***************************************************************************)
(* The shards pass the index checks while they are written, and every      *)
(* block is the next of its shard, with contents its file had since it was *)
(* hashed: the digest itself once the file was checked again.              *)
(***************************************************************************)
ShardInv == Archived => IndexRight(shards, payload, digests)

Known(b) == Prepared \/ (saving = "hash again" /\ b.file \in checked)

BlockRight(b, e) ==
  /\ b.file = e.file /\ b.part = e.part
  /\ digests[b.file] <= b.version
  /\ saving \in Reading => b.version <= files[b.file]
  /\ Known(b) => b.version = digests[b.file]

BlockInv ==
  Archived => \A s \in DOMAIN shards :
    /\ Len(shards[s].extents) <= 2 * Cardinality(shards[s].files)
    /\ saving # "archive" => Written(s)
    /\ \A i \in DOMAIN shards[s].extents :
         BlockRight(payload[shards[s].extents[i]], Expected(s)[i])

ArchiveInv == SaveTypes /\ HashInv /\ CoherentInv /\ ShardInv /\ BlockInv

(***************************************************************************)
(* Facts about orders, blocks and groups                                   *)
(***************************************************************************)
LEMMA OrderFacts ==
  ASSUME NEW S \in SUBSET Files
  PROVE  /\ Cardinality(S) \in Nat
         /\ SetToSeq(S) \in [1 .. Cardinality(S) -> S]
         /\ Len(SetToSeq(S)) = Cardinality(S)
         /\ SetToSeq(S) \in SetToSeqs(S)
<1>1. IsFiniteSet(S)
  BY FilesAssumption, FS_Subset
<1>2. Cardinality(S) \in Nat /\ ExistsBijection(1 .. Cardinality(S), S)
  BY <1>1, FS_CardinalityType
<1>3. \E f \in [1 .. Cardinality(S) -> S] : IsInjective(f)
  BY <1>2 DEF ExistsBijection, Bijection, Injection
<1>4. SetToSeq(S) \in [1 .. Cardinality(S) -> S] /\ IsInjective(SetToSeq(S))
  BY <1>3 DEF SetToSeq
<1>5. Len(SetToSeq(S)) = Cardinality(S)
  BY <1>2, <1>4
<1>. QED
  BY <1>2, <1>4, <1>5 DEF SetToSeqs, IsInjective

LEMMA BlockFacts ==
  ASSUME NEW S \in SUBSET Files, NEW c
  PROVE  LET n == Cardinality(S)
             e == Blocks(SetToSeq(S), c)
         IN  /\ n \in Nat /\ DOMAIN e = 1 .. 2 * n /\ Len(e) = 2 * n
             /\ \A i \in 1 .. 2 * n : /\ e[i].file \in S /\ e[i].part \in {"first", "second"}
                                     /\ e[i] = Block(e[i].file, e[i].part, c[e[i].file])
             /\ \A i \in 1 .. 2 * n : e[i].part # "first" =>
                  i - 1 \in 1 .. 2 * n /\ e[i - 1].file = e[i].file
<1>. DEFINE n == Cardinality(S)
            order == SetToSeq(S)
            e == Blocks(order, c)
<1>1. n \in Nat /\ order \in [1 .. n -> S] /\ Len(order) = n
  BY OrderFacts
<1>. HIDE DEF n, order
<1>2. e = [i \in 1 .. 2 * n |->
             Block(order[(i + 1) \div 2], IF i % 2 = 1 THEN "first" ELSE "second",
                   c[order[(i + 1) \div 2]])]
  BY <1>1 DEF Blocks
<1>. HIDE DEF e
<1>3. DOMAIN e = 1 .. 2 * n /\ Len(e) = 2 * n
  BY <1>1, <1>2
<1>4. ASSUME NEW i \in 1 .. 2 * n
      PROVE  /\ e[i].file = order[(i + 1) \div 2] /\ e[i].file \in S
             /\ e[i].part = IF i % 2 = 1 THEN "first" ELSE "second"
             /\ e[i] = Block(e[i].file, e[i].part, c[e[i].file])
  <2>1. (i + 1) \div 2 \in 1 .. n
    BY <1>1
  <2>. DEFINE f == order[(i + 1) \div 2]
              p == IF i % 2 = 1 THEN "first" ELSE "second"
  <2>2. f \in S
    BY <1>1, <2>1
  <2>3. e[i] = Block(f, p, c[f])
    BY <1>2
  <2>. HIDE DEF f, p
  <2>4. e[i].file = f /\ e[i].part = p
    BY <2>3 DEF Block
  <2>. QED
    BY <2>2, <2>3, <2>4 DEF f, p
<1>5. ASSUME NEW i \in 1 .. 2 * n, e[i].part # "first"
      PROVE  i - 1 \in 1 .. 2 * n /\ e[i - 1].file = e[i].file
  <2>1. i % 2 # 1
    BY <1>4, <1>5
  <2>2. i - 1 \in 1 .. 2 * n /\ ((i - 1) + 1) \div 2 = (i + 1) \div 2
    BY <1>1, <2>1
  <2>. QED
    BY <1>4, <2>2
<1>. QED
  BY <1>1, <1>3, <1>4, <1>5 DEF e, n, order

LEMMA IndexFacts == IndexValid(Archive) <=> IndexRight(shards, payload, digests)
<1>. DEFINE E(n) == ToSet(shards[n].extents)
            F(n) == shards[n].files
<1>1. IndexValid(Archive) <=>
        /\ \A n \in DOMAIN shards : IsInjective(shards[n].extents)
        /\ \A n, o \in DOMAIN shards : n # o => E(n) \cap E(o) = {} /\ F(n) \cap F(o) = {}
        /\ UNION {E(n) : n \in DOMAIN shards} = DOMAIN payload
        /\ UNION {F(n) : n \in DOMAIN shards} = DOMAIN digests
  BY DEF IndexValid, Archive
<1>. HIDE DEF E, F
<1>2. UNION {E(n) : n \in DOMAIN shards} = DOMAIN payload <=>
        /\ \A n \in DOMAIN shards : E(n) \subseteq DOMAIN payload
        /\ \A q \in DOMAIN payload : \E n \in DOMAIN shards : q \in E(n)
  OBVIOUS
<1>3. UNION {F(n) : n \in DOMAIN shards} = DOMAIN digests <=>
        /\ \A n \in DOMAIN shards : F(n) \subseteq DOMAIN digests
        /\ \A f \in DOMAIN digests : \E n \in DOMAIN shards : f \in F(n)
  OBVIOUS
<1>4. IndexRight(shards, payload, digests) <=>
        /\ \A n \in DOMAIN shards : IsInjective(shards[n].extents)
        /\ \A n, o \in DOMAIN shards : n # o => E(n) \cap E(o) = {} /\ F(n) \cap F(o) = {}
        /\ \A n \in DOMAIN shards : E(n) \subseteq DOMAIN payload /\ F(n) \subseteq DOMAIN digests
        /\ \A q \in DOMAIN payload : \E n \in DOMAIN shards : q \in E(n)
        /\ \A f \in DOMAIN digests : \E n \in DOMAIN shards : f \in F(n)
  BY DEF IndexRight, E, F
<1>. QED
  BY <1>1, <1>2, <1>3, <1>4

LEMMA GroupingFacts ==
  ASSUME SaveTypes, NEW groups \in Groupings
  PROVE  \E n \in Nat :
           /\ DOMAIN groups = 1 .. n
           /\ \A s \in 1 .. n : groups[s] \subseteq found
           /\ \A s, o \in 1 .. n : s # o => groups[s] \cap groups[o] = {}
           /\ UNION {groups[s] : s \in 1 .. n} = found
<1>1. CASE found = {}
  <2>1. groups = <<{}>>
    BY <1>1 DEF Groupings
  <2>2. DOMAIN groups = 1 .. 1 /\ groups[1] = {} /\ 1 .. 1 = {1}
    BY <2>1
  <2>. QED
    BY <1>1, <2>2
<1>2. CASE found # {}
  <2>1. Cardinality(found) \in Nat
    BY FilesAssumption, FS_Subset, FS_CardinalityType DEF SaveTypes
  <2>. DEFINE Onto(n) == {g \in [found -> 1 .. n] : \A s \in 1 .. n : \E f \in found : g[f] = s}
  <2>2. groups \in UNION {{[s \in 1 .. n |-> {f \in found : g[f] = s}] : g \in Onto(n)} :
                            n \in 1 .. Cardinality(found)}
    BY <1>2 DEF Groupings
  <2>3. PICK n \in 1 .. Cardinality(found) :
          groups \in {[s \in 1 .. n |-> {f \in found : g[f] = s}] : g \in Onto(n)}
    BY <2>2
  <2>4. PICK g \in Onto(n) : groups = [s \in 1 .. n |-> {f \in found : g[f] = s}]
    BY <2>3
  <2>5. n \in Nat /\ \A f \in found : g[f] \in 1 .. n
    BY <2>1
  <2>. HIDE DEF Onto
  <2>6. DOMAIN groups = 1 .. n /\ \A s \in 1 .. n : groups[s] = {f \in found : g[f] = s}
    BY <2>4
  <2>. QED
    BY <2>5, <2>6
<1>. QED
  BY <1>1, <1>2

LEMMA BeforeServer ==
  ASSUME Server \/ SaveLocally \/ StartUpload \/ StartParts \/ SendPart \/ CompleteUpload
           \/ Answer \/ GiveUp \/ EndAbort
  PROVE  /\ UNCHANGED <<files, passVars, archiveVars>>
         /\ \/ saving' = saving
            \/ Prepared /\ saving' \in {"put", "create", "parts", "complete", "abort", "saved", "failed"}
<1>1. CASE Server
  BY <1>1 DEF Server, Resend, ServerPut, ServerCreate, ServerPart, ServerComplete, ServerAbort, clientVars
<1>2. CASE SaveLocally \/ EndAbort \/ Answer \/ SendPart \/ StartParts
  BY <1>2 DEF SaveLocally, EndAbort, Answer, SendPart, StartParts, At, FailSave, UnchangedBut, Prepared
<1>3. CASE StartUpload
  BY <1>3, SaveAssumption DEF StartUpload, Request, At, UnchangedBut, Prepared
<1>4. CASE CompleteUpload
  BY <1>4 DEF CompleteUpload, Request, At, UnchangedBut, Prepared
<1>5. CASE GiveUp
  BY <1>5 DEF GiveUp, Request, FailSave, Deadline, UnchangedBut, Prepared
<1>. QED
  BY <1>1, <1>2, <1>3, <1>4, <1>5

-----------------------------------------------------------------------------

LEMMA ArchiveInit == InitSave => ArchiveInv
<1>. SUFFICES ASSUME InitSave PROVE ArchiveInv
  OBVIOUS
<1>1. saving = "walk" /\ ~ Archived
  BY DEF InitSave, Archived, Prepared
<1>2. SaveTypes
  BY DEF InitSave, SaveTypes
<1>. QED
  BY <1>1, <1>2 DEF InitSave, ArchiveInv, HashInv, CoherentInv, ShardInv, BlockInv

LEMMA ExtentInPayload ==
  ASSUME SaveTypes, ShardInv, Archived, NEW s \in DOMAIN shards, NEW i \in DOMAIN shards[s].extents
  PROVE  /\ shards[s].extents[i] \in DOMAIN payload
         /\ payload[shards[s].extents[i]] \in BlockSet
<1>1. shards[s].extents[i] \in DOMAIN payload
  BY DEF ShardInv, IndexRight, ToSet
<1>. QED
  BY <1>1 DEF SaveTypes

LEMMA ExpectedFiles ==
  ASSUME SaveTypes, ShardInv, Archived, NEW s \in DOMAIN shards, NEW i \in DOMAIN shards[s].extents,
         Len(shards[s].extents) <= 2 * Cardinality(shards[s].files)
  PROVE  Expected(s)[i].file \in DOMAIN digests
<1>. DEFINE S == shards[s].files
<1>1. S \in SUBSET Files /\ shards[s].extents \in Seq(Nat)
  <2>1. shards[s] \in ShardSet
    BY DEF SaveTypes
  <2>. QED
    BY <2>1 DEF ShardSet
<1>2. S \subseteq DOMAIN digests
  BY DEF ShardInv, IndexRight
<1>3. Cardinality(S) \in Nat /\ \A j \in 1 .. 2 * Cardinality(S) : Blocks(SetToSeq(S), digests)[j].file \in S
  BY <1>1, BlockFacts
<1>4. i \in 1 .. 2 * Cardinality(S)
  BY <1>1, <1>3
<1>. QED
  BY <1>2, <1>3, <1>4 DEF Expected

LEMMA BlocksStayRight ==
  ASSUME BlockInv, Archived, UNCHANGED <<files, digests, shards, payload>>,
         saving' \in Reading => saving \in Reading,
         saving = "archive" => saving' = "archive" \/ \A s \in DOMAIN shards : Written(s),
         \A b : Known(b)' => Known(b)
  PROVE  BlockInv'
<1>1. \A s \in DOMAIN shards : Expected(s)' = Expected(s) /\ (Written(s)' <=> Written(s))
  BY DEF Expected, Written
<1>2. ASSUME NEW s \in DOMAIN shards, NEW i \in DOMAIN shards[s].extents
      PROVE  BlockRight(payload[shards[s].extents[i]], Expected(s)[i])'
  <2>. DEFINE b == payload[shards[s].extents[i]]
              e == Expected(s)[i]
  <2>1. BlockRight(b, e)
    BY DEF BlockInv
  <2>2. b' = b /\ e' = e
    BY <1>1
  <2>. HIDE DEF b, e
  <2>3. Known(b)' => Known(b)
    BY <2>2 DEF Known
  <2>. QED
    BY <2>1, <2>2, <2>3 DEF BlockRight, b, e
<1>. QED
  BY <1>1, <1>2 DEF BlockInv

(***************************************************************************)
(* A step that leaves the archive and the files alone keeps it right, if   *)
(* it goes on where the archive is already known to be.                    *)
(***************************************************************************)
LEMMA SavedStaysRight ==
  ASSUME ArchiveInv, UNCHANGED <<files, passVars, archiveVars>>,
         \/ saving' = saving
         \/ Prepared /\ saving' \in {"put", "create", "parts", "complete", "abort", "saved", "failed"}
  PROVE  ArchiveInv'
<1>. UNCHANGED <<files, walked, found, checked, digests, coherent, shards, payload>>
  BY DEF passVars, archiveVars
<1>1. (saving' \in Reading => saving' = saving) /\ (Archived' => Archived) /\ (~ Archived' \/ (Prepared <=> Prepared'))
  BY DEF Prepared, Archived, Reading
<1>2. SaveTypes'
  BY DEF ArchiveInv, SaveTypes
<1>3. HashInv'
  BY <1>1 DEF ArchiveInv, HashInv, Reading
<1>4. CoherentInv'
  BY <1>1 DEF ArchiveInv, CoherentInv, Archived, Prepared, Reading
<1>5. ShardInv'
  BY <1>1 DEF ArchiveInv, ShardInv, Archive
<1>6. BlockInv'
  <2>1. CASE ~ Archived'
    BY <2>1 DEF BlockInv
  <2>2. CASE Archived'
    <3>1. \A b : Known(b)' => Known(b)
      BY <1>1, <2>2 DEF Known, Reading
    <3>2. saving = "archive" => saving' = "archive"
      BY DEF Prepared
    <3>. QED
      BY <1>1, <2>2, <3>1, <3>2, BlocksStayRight DEF ArchiveInv
  <2>. QED
    BY <2>1, <2>2
<1>. QED
  BY <1>2, <1>3, <1>4, <1>5, <1>6 DEF ArchiveInv

LEMMA WalkKeepsArchive == ASSUME ArchiveInv, Walk PROVE ArchiveInv'
<1>. UNCHANGED <<saving, files, checked, digests, coherent, shards, payload>>
  BY DEF Walk, archiveVars
<1>1. SaveTypes'
  BY DEF Walk, ArchiveInv, SaveTypes
<1>2. saving \in {"walk", "walk again"} /\ (Archived' <=> Archived)
  BY DEF Walk, At, Archived, Prepared
<1>3. HashInv'
  BY <1>2 DEF ArchiveInv, HashInv, Reading
<1>4. CoherentInv' /\ ShardInv'
  BY <1>2 DEF ArchiveInv, CoherentInv, ShardInv, Archive, Reading
<1>5. BlockInv'
  <2>1. \A b : Known(b)' => Known(b)
    BY DEF Known, Prepared
  <2>. QED
    BY <1>2, <2>1, BlocksStayRight DEF ArchiveInv, BlockInv
<1>. QED
  BY <1>1, <1>3, <1>4, <1>5 DEF ArchiveInv

LEMMA EndWalkKeepsArchive == ASSUME ArchiveInv, EndWalk PROVE ArchiveInv'
<1>1. SaveTypes'
  BY DEF EndWalk, ArchiveInv, SaveTypes, archiveVars
<1>2. CASE At("walk")
  <2>1. saving' = "hash" /\ ~ Archived'
    BY <1>2 DEF EndWalk, At, Archived, Prepared
  <2>. QED
    BY <1>1, <1>2, <2>1 DEF EndWalk, At, ArchiveInv, HashInv, CoherentInv, ShardInv, BlockInv, Reading,
                            archiveVars
<1>3. CASE At("walk again") /\ found = DOMAIN digests
  <2>1. saving = "walk again" /\ saving' = "hash again" /\ checked' = checked /\ checked = {}
    BY <1>3 DEF EndWalk, At, ArchiveInv, HashInv
  <2>2. Archived /\ Archived' /\ ~ Prepared' /\ ~ Prepared
    BY <2>1 DEF Archived, Prepared
  <2>3. HashInv'
    BY <1>3, <2>1 DEF EndWalk, ArchiveInv, HashInv, Reading, archiveVars
  <2>4. CoherentInv' /\ ShardInv'
    BY <2>1, <2>2 DEF EndWalk, ArchiveInv, CoherentInv, ShardInv, Archive, Reading, archiveVars
  <2>5. BlockInv'
    <3>1. \A b : Known(b)' => Known(b)
      BY <2>1, <2>2 DEF Known
    <3>. QED
      BY <2>1, <2>2, <3>1, BlocksStayRight DEF EndWalk, ArchiveInv, Reading, archiveVars
  <2>. QED
    BY <1>1, <2>3, <2>4, <2>5 DEF ArchiveInv
<1>4. CASE At("walk again") /\ found # DOMAIN digests
  <2>1. saving' = "failed" /\ ~ Archived'
    BY <1>4 DEF EndWalk, At, Archived, Prepared
  <2>. QED
    BY <1>1, <2>1 DEF ArchiveInv, HashInv, CoherentInv, ShardInv, BlockInv, Reading
<1>. QED
  BY <1>2, <1>3, <1>4 DEF EndWalk

LEMMA HashKeepsArchive == ASSUME ArchiveInv, Hash PROVE ArchiveInv'
<1>1. PICK f \in found \ checked :
        IF Present(files[f])
        THEN /\ checked' = checked \cup {f}
             /\ digests' = [g \in DOMAIN digests \cup {f} |-> IF g = f THEN files[f] ELSE digests[g]]
             /\ UNCHANGED saving
        ELSE FailSave /\ UNCHANGED <<checked, digests>>
  BY DEF Hash
<1>2. f \in Files /\ files[f] \in Nat /\ saving = "hash" /\ UNCHANGED <<files, walked, found, coherent, shards, payload>>
  BY DEF Hash, At, ArchiveInv, SaveTypes
<1>3. CASE ~ Present(files[f])
  <2>1. saving' = "failed" /\ ~ Archived' /\ UNCHANGED <<checked, digests>>
    BY <1>1, <1>3 DEF FailSave, Archived, Prepared
  <2>. QED
    BY <1>2, <2>1 DEF ArchiveInv, SaveTypes, HashInv, CoherentInv, ShardInv, BlockInv, Reading
<1>4. CASE Present(files[f])
  <2>1. /\ saving' = "hash" /\ ~ Archived' /\ checked' = checked \cup {f}
        /\ DOMAIN digests' = DOMAIN digests \cup {f}
        /\ \A g \in DOMAIN digests' : digests'[g] = IF g = f THEN files[f] ELSE digests[g]
        /\ digests' = [g \in DOMAIN digests' |-> digests'[g]]
    BY <1>1, <1>2, <1>4 DEF Archived, Prepared
  <2>2. SaveTypes'
    BY <1>1, <1>2, <2>1 DEF ArchiveInv, SaveTypes
  <2>3. HashInv'
    BY <1>1, <1>2, <2>1 DEF ArchiveInv, SaveTypes, HashInv, Reading
  <2>. QED
    BY <2>1, <2>2, <2>3 DEF ArchiveInv, CoherentInv, ShardInv, BlockInv
<1>. QED
  BY <1>3, <1>4

LEMMA EndArchiveKeepsArchive == ASSUME ArchiveInv, EndArchive PROVE ArchiveInv'
<1>1. /\ saving = "archive" /\ saving' = "walk again" /\ \A s \in DOMAIN shards : Written(s)
      /\ UNCHANGED <<files, walked, found, checked, digests, coherent, shards, payload>>
  BY DEF EndArchive, At, passVars, archiveVars
<1>2. Archived /\ Archived' /\ ~ Prepared' /\ checked = {}
  BY <1>1 DEF Archived, Prepared, ArchiveInv, HashInv
<1>3. SaveTypes' /\ HashInv'
  BY <1>1 DEF ArchiveInv, SaveTypes, HashInv, Reading
<1>4. CoherentInv' /\ ShardInv'
  BY <1>1, <1>2 DEF ArchiveInv, CoherentInv, ShardInv, Archive, Reading
<1>5. BlockInv'
  <2>1. \A b : ~ Known(b)'
    BY <1>1, <1>2 DEF Known
  <2>. QED
    BY <1>1, <1>2, <2>1, BlocksStayRight DEF ArchiveInv, Reading
<1>. QED
  BY <1>3, <1>4, <1>5 DEF ArchiveInv

(***************************************************************************)
(* A file found as it was hashed cannot have held anything else meanwhile: *)
(* contents do not come back.                                              *)
(***************************************************************************)
LEMMA HashAgainKeepsArchive == ASSUME ArchiveInv, HashAgain PROVE ArchiveInv'
<1>1. /\ saving = "hash again"
      /\ UNCHANGED <<files, walked, found, digests, coherent, shards, payload>>
  BY DEF HashAgain, At, archiveVars
<1>2. PICK f \in found \ checked :
        IF SameDigest(f) THEN checked' = checked \cup {f} /\ UNCHANGED saving
        ELSE FailSave /\ UNCHANGED checked
  BY DEF HashAgain
<1>3. CASE ~ SameDigest(f)
  <2>1. saving' = "failed" /\ checked' = checked /\ ~ Archived'
    BY <1>2, <1>3 DEF FailSave, Archived, Prepared
  <2>. QED
    BY <1>1, <2>1 DEF ArchiveInv, SaveTypes, HashInv, CoherentInv, ShardInv, BlockInv, Reading
<1>4. CASE SameDigest(f)
  <2>1. /\ saving' = saving /\ checked' = checked \cup {f} /\ files[f] = digests[f] /\ f \in Files
        /\ f \in DOMAIN digests /\ Archived /\ Archived' /\ ~ Prepared /\ ~ Prepared' /\ saving \in Reading
    BY <1>1, <1>2, <1>4 DEF SameDigest, Archived, Prepared, ArchiveInv, SaveTypes, HashInv, Reading
  <2>2. SaveTypes'
    BY <1>1, <2>1 DEF ArchiveInv, SaveTypes
  <2>3. HashInv'
    BY <1>1, <2>1 DEF ArchiveInv, HashInv, Reading
  <2>4. CoherentInv'
    <3>1. SUFFICES ASSUME ~ coherent PROVE CoherentInv'
      BY <1>1 DEF CoherentInv
    <3>2. PICK g \in DOMAIN digests : digests[g] < files[g] /\ g \notin checked
      BY <1>1, <2>1, <3>1 DEF ArchiveInv, CoherentInv
    <3>3. g # f
      BY <2>1, <3>2 DEF ArchiveInv, SaveTypes
    <3>. QED
      BY <1>1, <2>1, <3>2, <3>3 DEF CoherentInv
  <2>5. ShardInv'
    BY <1>1, <2>1 DEF ArchiveInv, ShardInv, Archive
  <2>6. BlockInv'
    <3>1. \A s \in DOMAIN shards : Expected(s)' = Expected(s) /\ (Written(s)' <=> Written(s))
      BY <1>1 DEF Expected, Written
    <3>2. ASSUME NEW s \in DOMAIN shards, NEW i \in DOMAIN shards[s].extents
          PROVE  BlockRight(payload[shards[s].extents[i]], Expected(s)[i])'
      <4>. DEFINE b == payload[shards[s].extents[i]]
                  e == Expected(s)[i]
      <4>1. BlockRight(b, e) /\ b \in BlockSet
        BY <2>1, ExtentInPayload DEF ArchiveInv, SaveTypes, BlockInv
      <4>2. b' = b /\ e' = e
        BY <1>1, <3>1
      <4>. HIDE DEF b, e
      <4>3. Known(b)' => Known(b) \/ b.file = f
        BY <2>1, <4>2 DEF Known
      <4>4. b.version \in Nat /\ b.file \in Files /\ files[b.file] \in Nat
        BY <4>1 DEF BlockSet, ArchiveInv, SaveTypes
      <4>5. b.file = f => b.version = digests[b.file]
        BY <2>1, <4>1, <4>4 DEF BlockRight
      <4>. QED
        BY <1>1, <2>1, <4>1, <4>2, <4>3, <4>5 DEF BlockRight, b, e
    <3>. QED
      BY <1>1, <2>1, <3>1, <3>2 DEF ArchiveInv, BlockInv
  <2>. QED
    BY <2>2, <2>3, <2>4, <2>5, <2>6 DEF ArchiveInv
<1>. QED
  BY <1>3, <1>4

LEMMA EndHashAgainKeepsArchive == ASSUME ArchiveInv, EndHashAgain PROVE ArchiveInv'
<1>1. /\ saving = "hash again" /\ saving' = "upload" /\ checked = DOMAIN digests
      /\ UNCHANGED <<files, walked, found, checked, digests, coherent, shards, payload>>
  BY DEF EndHashAgain, At, passVars, archiveVars, ArchiveInv, HashInv
<1>2. Archived /\ Archived' /\ ~ Prepared /\ Prepared'
  BY <1>1 DEF Archived, Prepared
<1>3. SaveTypes' /\ HashInv'
  BY <1>1 DEF ArchiveInv, SaveTypes, HashInv, Reading
<1>4. coherent
  BY <1>1, <1>2 DEF ArchiveInv, CoherentInv
<1>5. CoherentInv' /\ ShardInv'
  BY <1>1, <1>2, <1>4 DEF ArchiveInv, CoherentInv, ShardInv, Archive
<1>6. BlockInv'
  <2>1. \A s \in DOMAIN shards : Expected(s)' = Expected(s) /\ (Written(s)' <=> Written(s))
    BY <1>1 DEF Expected, Written
  <2>2. ASSUME NEW s \in DOMAIN shards, NEW i \in DOMAIN shards[s].extents
        PROVE  BlockRight(payload[shards[s].extents[i]], Expected(s)[i])'
    <3>. DEFINE b == payload[shards[s].extents[i]]
                e == Expected(s)[i]
    <3>1. BlockRight(b, e)
      BY <1>2 DEF ArchiveInv, BlockInv
    <3>2. b' = b /\ e' = e
      BY <1>1, <2>1
    <3>3. e.file \in DOMAIN digests
      BY <1>2, ExpectedFiles DEF ArchiveInv, BlockInv
    <3>. HIDE DEF b, e
    <3>4. b.version = digests[b.file]
      BY <1>1, <3>1, <3>3 DEF BlockRight, Known
    <3>. QED
      BY <1>1, <3>1, <3>2, <3>4 DEF BlockRight, Reading, b, e
  <2>. QED
    BY <1>1, <1>2, <2>1, <2>2 DEF ArchiveInv, BlockInv
<1>. QED
  BY <1>3, <1>5, <1>6 DEF ArchiveInv

LEMMA EditKeepsArchive == ASSUME ArchiveInv, Edit PROVE ArchiveInv'
<1>1. /\ saving \in Reading
      /\ UNCHANGED <<saving, walked, found, checked, digests, coherent, shards, payload>>
  BY DEF Edit, Reading, passVars, archiveVars
<1>2. (Archived' <=> Archived) /\ ~ Prepared /\ ~ Prepared'
  BY <1>1 DEF Archived, Prepared, Reading
<1>3. PICK f \in Files, v \in 0 .. MaxVersion : v > files[f] /\ files' = [files EXCEPT ![f] = v]
  BY DEF Edit
<1>4. files' \in [Files -> Nat] /\ \A g \in Files : files[g] \in Nat /\ files[g] <= files'[g]
  BY <1>3, SaveAssumption DEF ArchiveInv, SaveTypes
<1>5. SaveTypes'
  BY <1>1, <1>4 DEF ArchiveInv, SaveTypes
<1>6. \A g \in DOMAIN digests :
        /\ digests[g] \in Nat /\ files[g] \in Nat /\ files'[g] \in Nat
        /\ digests[g] <= files[g] => digests[g] <= files'[g]
        /\ digests[g] < files[g] => digests[g] < files'[g]
  <2>. TAKE g \in DOMAIN digests
  <2>1. g \in Files /\ digests[g] \in Nat
    BY DEF ArchiveInv, SaveTypes
  <2>2. files[g] \in Nat /\ files'[g] \in Nat /\ files[g] <= files'[g]
    BY <1>4, <2>1
  <2>. QED
    BY <2>1, <2>2
<1>7. HashInv'
  <2>1. saving \in Reading => \A g \in DOMAIN digests : digests[g] <= files'[g]
    BY <1>6 DEF ArchiveInv, HashInv
  <2>. QED
    BY <1>1, <2>1 DEF ArchiveInv, HashInv
<1>8. CoherentInv' /\ ShardInv'
  <2>1. ASSUME Archived, ~ coherent
        PROVE  \E g \in DOMAIN digests : digests[g] < files'[g] /\ (saving = "hash again" => g \notin checked)
    BY <1>6, <2>1 DEF ArchiveInv, CoherentInv
  <2>2. CoherentInv'
    BY <1>1, <1>2, <2>1 DEF CoherentInv
  <2>. QED
    BY <1>1, <1>2, <2>2 DEF ArchiveInv, ShardInv, Archive
<1>9. BlockInv'
  <2>1. \A s \in DOMAIN shards : Expected(s)' = Expected(s) /\ (Written(s)' <=> Written(s))
    BY <1>1 DEF Expected, Written
  <2>2. ASSUME Archived, NEW s \in DOMAIN shards, NEW i \in DOMAIN shards[s].extents
        PROVE  BlockRight(payload[shards[s].extents[i]], Expected(s)[i])'
    <3>. DEFINE b == payload[shards[s].extents[i]]
                e == Expected(s)[i]
    <3>1. BlockRight(b, e) /\ b \in BlockSet
      BY <2>2, ExtentInPayload DEF ArchiveInv, BlockInv
    <3>2. b' = b /\ e' = e
      BY <1>1, <2>1
    <3>. HIDE DEF b, e
    <3>3. b.file \in Files /\ b.version \in Nat /\ (Known(b)' => Known(b))
      BY <1>1, <1>2, <3>1, <3>2 DEF BlockSet, Known
    <3>4. b.version <= files[b.file] /\ files[b.file] <= files'[b.file] /\ files[b.file] \in Nat
          /\ files'[b.file] \in Nat
      BY <1>1, <1>4, <3>1, <3>3 DEF BlockRight
    <3>5. b.version <= files'[b.file]
      BY <3>3, <3>4
    <3>. QED
      BY <1>1, <3>1, <3>2, <3>3, <3>5 DEF BlockRight, b, e
  <2>. QED
    BY <1>1, <1>2, <2>1, <2>2 DEF ArchiveInv, BlockInv
<1>. QED
  BY <1>5, <1>7, <1>8, <1>9 DEF ArchiveInv

LEMMA StartArchiveKeepsArchive == ASSUME ArchiveInv, StartArchive PROVE ArchiveInv'
<1>1. /\ saving = "hash" /\ checked = found /\ checked' = {} /\ found' = {}
      /\ coherent' = (\A f \in found : files[f] = digests[f])
      /\ saving' \in {"archive", "failed"}
      /\ UNCHANGED <<files, walked, digests, payload>>
  BY DEF StartArchive, At
<1>2. PICK groups \in Groupings : shards' = [s \in DOMAIN groups |-> [files |-> groups[s], extents |-> <<>>]]
  BY DEF StartArchive
<1>3. PICK n \in Nat :
        /\ DOMAIN groups = 1 .. n
        /\ \A s \in 1 .. n : groups[s] \subseteq found
        /\ \A s, o \in 1 .. n : s # o => groups[s] \cap groups[o] = {}
        /\ UNION {groups[s] : s \in 1 .. n} = found
  BY GroupingFacts DEF ArchiveInv
<1>4. shards' = [s \in 1 .. n |-> [files |-> groups[s], extents |-> <<>>]] /\ DOMAIN shards' = 1 .. n
  BY <1>2, <1>3
<1>5. \A s \in 1 .. n : /\ shards'[s].files = groups[s] /\ shards'[s].extents = <<>>
                        /\ groups[s] \in SUBSET Files
  BY <1>3, <1>4 DEF ArchiveInv, SaveTypes
<1>6. found = DOMAIN digests /\ payload = <<>> /\ \A f \in DOMAIN digests : digests[f] <= files[f]
  BY <1>1 DEF ArchiveInv, HashInv, Reading
<1>7. SaveTypes'
  <2>1. \A s \in 1 .. n : [files |-> groups[s], extents |-> <<>>] \in ShardSet
    BY <1>5 DEF ShardSet
  <2>2. shards' \in Seq(ShardSet)
    BY <1>4, <2>1
  <2>. QED
    BY <1>1, <2>2 DEF ArchiveInv, SaveTypes
<1>8. HashInv'
  BY <1>1, <1>6 DEF HashInv, Reading
<1>9. CoherentInv'
  <2>1. SUFFICES ASSUME Archived', ~ coherent' PROVE CoherentInv'
    BY DEF CoherentInv
  <2>2. PICK f \in DOMAIN digests : files[f] # digests[f]
    BY <1>1, <1>6, <2>1
  <2>3. f \in Files /\ digests[f] \in Nat /\ files[f] \in Nat /\ digests[f] <= files[f]
    BY <1>6, <2>2 DEF ArchiveInv, SaveTypes
  <2>4. digests[f] < files[f]
    BY <2>2, <2>3
  <2>5. saving' \in Reading /\ saving' # "hash again"
    BY <1>1, <2>1 DEF Archived, Prepared, Reading
  <2>. QED
    BY <1>1, <2>4, <2>5 DEF CoherentInv
<1>10. ShardInv'
  <2>1. \A s \in 1 .. n : ToSet(shards'[s].extents) = {} /\ IsInjective(shards'[s].extents)
    <3>1. ToSet(<<>>) = {} /\ IsInjective(<<>>)
      BY DEF ToSet, IsInjective
    <3>. QED
      BY <1>5, <3>1
  <2>2. \A f \in DOMAIN digests : \E s \in 1 .. n : f \in shards'[s].files
    BY <1>3, <1>5, <1>6
  <2>3. DOMAIN payload' = {}
    BY <1>1, <1>6
  <2>4. IndexRight(shards', payload', digests')
    BY <1>1, <1>3, <1>4, <1>5, <1>6, <2>1, <2>2, <2>3 DEF IndexRight
  <2>. QED
    BY <2>4 DEF ShardInv
<1>11. BlockInv'
  <2>1. \A s \in 1 .. n : Cardinality(groups[s]) \in Nat
    BY <1>5, FilesAssumption, FS_Subset, FS_CardinalityType
  <2>2. saving' = "archive" \/ ~ Archived'
    BY <1>1 DEF Archived, Prepared
  <2>3. \A s \in 1 .. n : /\ Len(shards'[s].extents) = 0 /\ DOMAIN shards'[s].extents = {}
                          /\ 0 <= 2 * Cardinality(shards'[s].files)
    BY <1>5, <2>1
  <2>. QED
    BY <1>4, <2>2, <2>3 DEF BlockInv
<1>. QED
  BY <1>7, <1>8, <1>9, <1>10, <1>11 DEF ArchiveInv

(***************************************************************************)
(* What an archiver reads is no older than the digest and no newer than    *)
(* the file, also when the file was replaced after it was opened.          *)
(***************************************************************************)
LEMMA ReadableRight ==
  ASSUME ArchiveInv, saving = "archive", NEW s \in DOMAIN shards, ~ Written(s), NEW b \in Readable(s)
  PROVE  b \in BlockSet /\ BlockRight(b, Expected(s)[Len(shards[s].extents) + 1])
<1>. DEFINE x == shards[s].extents
            S == shards[s].files
            i == Len(x) + 1
            e == Expected(s)
<1>1. Archived /\ ~ Prepared /\ saving \in Reading
  BY DEF Archived, Prepared, Reading
<1>2. x \in Seq(Nat) /\ S \in SUBSET Files /\ S \subseteq DOMAIN digests
  <2>1. shards[s] \in ShardSet
    BY DEF ArchiveInv, SaveTypes
  <2>2. S \subseteq DOMAIN digests
    BY <1>1 DEF ArchiveInv, ShardInv, IndexRight
  <2>. QED
    BY <2>1, <2>2 DEF ShardSet
<1>3. Cardinality(S) \in Nat /\ i \in 1 .. 2 * Cardinality(S)
  <2>1. Cardinality(S) \in Nat
    BY <1>2, BlockFacts
  <2>2. Len(x) <= 2 * Cardinality(S) /\ Len(x) # 2 * Cardinality(S)
    BY <1>1 DEF ArchiveInv, BlockInv, Written
  <2>. QED
    BY <1>2, <2>1, <2>2
<1>4. /\ e[i].file \in S /\ e[i].part \in {"first", "second"}
      /\ e[i].part # "first" => i - 1 \in 1 .. 2 * Cardinality(S) /\ e[i - 1].file = e[i].file
  BY <1>2, <1>3, BlockFacts DEF Expected
<1>5. /\ e[i].file \in Files /\ e[i].file \in DOMAIN digests
      /\ files[e[i].file] \in Nat /\ digests[e[i].file] \in Nat /\ digests[e[i].file] <= files[e[i].file]
  BY <1>1, <1>2, <1>4 DEF ArchiveInv, SaveTypes, HashInv
<1>. HIDE DEF i, e, S
<1>6. PICK v : /\ b = Block(e[i].file, e[i].part, v)
               /\ v = files[e[i].file] \/ (e[i].part # "first" /\ v = payload[Last(x)].version)
  BY DEF Readable, i, e
<1>7. v \in Nat /\ digests[e[i].file] <= v /\ v <= files[e[i].file]
  <2>1. CASE v = files[e[i].file]
    BY <1>5, <2>1
  <2>2. CASE e[i].part # "first" /\ v = payload[Last(x)].version
    <3>1. Len(x) \in DOMAIN x /\ Last(x) = x[Len(x)] /\ Len(x) = i - 1
      BY <1>2, <1>3, <1>4, <2>2 DEF Last, i
    <3>2. BlockRight(payload[x[i - 1]], e[i - 1]) /\ payload[x[i - 1]] \in BlockSet
      BY <1>1, <3>1, ExtentInPayload DEF ArchiveInv, BlockInv, e
    <3>3. payload[x[i - 1]].version \in Nat
      BY <3>2 DEF BlockSet
    <3>. QED
      BY <1>1, <1>4, <2>2, <3>1, <3>2, <3>3 DEF BlockRight
  <2>. QED
    BY <1>6, <2>1, <2>2
<1>8. b.file = e[i].file /\ b.part = e[i].part /\ b.version = v
  BY <1>6 DEF Block
<1>9. b \in BlockSet
  BY <1>4, <1>5, <1>6, <1>7 DEF Block, BlockSet
<1>10. ~ Known(b)
  BY <1>1 DEF Known
<1>11. BlockRight(b, e[i])
  BY <1>7, <1>8, <1>10 DEF BlockRight
<1>. QED
  BY <1>9, <1>11 DEF i, e

(***************************************************************************)
(* ExtentWriter: a block written at the end of the payload, wherever its   *)
(* shard stands, keeps the index valid.                                    *)
(***************************************************************************)
LEMMA AppendKeepsIndex ==
  ASSUME SaveTypes, IndexRight(shards, payload, digests), NEW s \in DOMAIN shards, NEW b \in BlockSet, digests' = digests,
         payload' = Append(payload, b),
         shards' = [shards EXCEPT ![s].extents = Append(@, Len(payload) + 1)]
  PROVE  IndexRight(shards, payload, digests)'
<1>. DEFINE p == Len(payload) + 1
<1>1. payload \in Seq(BlockSet) /\ p \in Nat /\ p \notin DOMAIN payload /\ DOMAIN payload' = DOMAIN payload \cup {p}
  BY DEF SaveTypes
<1>2. \A n \in DOMAIN shards : shards[n] \in ShardSet
  BY DEF SaveTypes
<1>3. \A n \in DOMAIN shards : shards[n].extents \in Seq(Nat)
  BY <1>2 DEF ShardSet
<1>4. DOMAIN shards' = DOMAIN shards /\ \A n \in DOMAIN shards : n # s => shards'[n] = shards[n]
  OBVIOUS
<1>5. shards'[s].files = shards[s].files /\ shards'[s].extents = Append(shards[s].extents, p)
  BY <1>2 DEF ShardSet
<1>6. /\ \A n \in DOMAIN shards : IsInjective(shards[n].extents)
      /\ \A n, o \in DOMAIN shards : n # o =>
           /\ ToSet(shards[n].extents) \cap ToSet(shards[o].extents) = {}
           /\ shards[n].files \cap shards[o].files = {}
      /\ \A n \in DOMAIN shards :
           ToSet(shards[n].extents) \subseteq DOMAIN payload /\ shards[n].files \subseteq DOMAIN digests
      /\ \A q \in DOMAIN payload : \E n \in DOMAIN shards : q \in ToSet(shards[n].extents)
      /\ \A f \in DOMAIN digests : \E n \in DOMAIN shards : f \in shards[n].files
  BY DEF IndexRight
<1>. HIDE DEF p
<1>7. /\ ToSet(shards'[s].extents) = ToSet(shards[s].extents) \cup {p}
      /\ IsInjective(shards'[s].extents)
  <2>. DEFINE x == shards[s].extents
  <2>1. x \in Seq(Nat) /\ IsInjective(x) /\ \A i \in DOMAIN x : x[i] \in DOMAIN payload
    BY <1>3, <1>6 DEF ToSet
  <2>. HIDE DEF x
  <2>2. /\ DOMAIN Append(x, p) = DOMAIN x \cup {Len(x) + 1} /\ Len(x) + 1 \notin DOMAIN x
        /\ Append(x, p)[Len(x) + 1] = p
        /\ \A i \in DOMAIN x : Append(x, p)[i] = x[i]
    BY <1>1, <2>1
  <2>3. ToSet(Append(x, p)) = ToSet(x) \cup {p}
    BY <2>2 DEF ToSet
  <2>4. IsInjective(Append(x, p))
    BY <1>1, <2>1, <2>2 DEF IsInjective
  <2>. QED
    BY <1>5, <2>3, <2>4 DEF x
<1>8. \A n \in DOMAIN shards : n # s => ToSet(shards'[n].extents) = ToSet(shards[n].extents)
  BY <1>4
<1>9. \A n \in DOMAIN shards : p \notin ToSet(shards[n].extents)
  BY <1>1, <1>6
<1>10. /\ \A n \in DOMAIN shards : ToSet(shards'[n].extents) \subseteq DOMAIN payload'
       /\ \A q \in DOMAIN payload' : \E n \in DOMAIN shards : q \in ToSet(shards'[n].extents)
  BY <1>1, <1>6, <1>7, <1>8
<1>11. \A n \in DOMAIN shards : shards'[n].files = shards[n].files
  BY <1>4, <1>5
<1>12. /\ \A n \in DOMAIN shards : shards'[n].files \subseteq DOMAIN digests
       /\ \A f \in DOMAIN digests : \E n \in DOMAIN shards : f \in shards'[n].files
  BY <1>6, <1>11
<1>13. \A n \in DOMAIN shards : IsInjective(shards'[n].extents)
  BY <1>4, <1>6, <1>7
<1>14. \A n, o \in DOMAIN shards : n # o =>
         /\ ToSet(shards'[n].extents) \cap ToSet(shards'[o].extents) = {}
         /\ shards'[n].files \cap shards'[o].files = {}
  <2>. TAKE n, o \in DOMAIN shards
  <2>. HAVE n # o
  <2>1. ToSet(shards'[n].extents) \cap ToSet(shards'[o].extents) = {}
    <3>. DEFINE E(m) == ToSet(shards[m].extents)
                Eafter(m) == ToSet(shards'[m].extents)
    <3>1. E(n) \cap E(o) = {} /\ p \notin E(n) /\ p \notin E(o)
      BY <1>6, <1>9
    <3>2. /\ Eafter(n) = IF n = s THEN E(n) \cup {p} ELSE E(n)
          /\ Eafter(o) = IF o = s THEN E(o) \cup {p} ELSE E(o)
      BY <1>7, <1>8
    <3>. HIDE DEF E, Eafter
    <3>3. Eafter(n) \cap Eafter(o) = {}
      BY <3>1, <3>2
    <3>. QED
      BY <3>3 DEF Eafter
  <2>. QED
    BY <1>6, <1>11, <2>1
<1>. QED
  BY <1>4, <1>10, <1>12, <1>13, <1>14 DEF IndexRight

LEMMA WriteKeepsArchive ==
  ASSUME ArchiveInv, NEW s \in DOMAIN shards, WriteBlock(s)
  PROVE  ArchiveInv'
<1>1. /\ saving = "archive" /\ ~ Written(s)
      /\ UNCHANGED <<files, walked, found, checked, digests, coherent>>
  BY DEF WriteBlock, At, passVars
<1>2. Archived /\ ~ Prepared /\ saving \in Reading /\ checked = {}
  BY <1>1 DEF Archived, Prepared, Reading, ArchiveInv, HashInv
<1>3. CASE Readable(s) = {}
  <2>1. saving' = "failed" /\ ~ Archived' /\ UNCHANGED <<shards, payload>>
    BY <1>3 DEF WriteBlock, FailSave, Archived, Prepared
  <2>. QED
    BY <1>1, <2>1 DEF ArchiveInv, SaveTypes, HashInv, CoherentInv, ShardInv, BlockInv, Reading
<1>4. CASE Readable(s) # {}
  <2>1. PICK b \in Readable(s) : payload' = Append(payload, b)
    BY <1>4 DEF WriteBlock
  <2>. DEFINE x == shards[s].extents
              p == Len(payload) + 1
  <2>2. saving' = saving /\ shards' = [shards EXCEPT ![s].extents = Append(@, p)]
    BY <1>4 DEF WriteBlock, NextPlace
  <2>3. b \in BlockSet /\ BlockRight(b, Expected(s)[Len(x) + 1])
    BY <1>1, ReadableRight
  <2>4. Archived' /\ ~ Prepared'
    BY <1>1, <2>2 DEF Archived, Prepared
  <2>5. payload \in Seq(BlockSet) /\ shards \in Seq(ShardSet) /\ p \in Nat
    BY DEF ArchiveInv, SaveTypes
  <2>6. shards[s] \in ShardSet /\ x \in Seq(Nat) /\ shards[s].files \in SUBSET Files
    <3>1. shards[s] \in ShardSet
      BY <2>5
    <3>. QED
      BY <3>1 DEF ShardSet
  <2>7. /\ DOMAIN shards' = DOMAIN shards /\ \A n \in DOMAIN shards : n # s => shards'[n] = shards[n]
        /\ shards'[s].files = shards[s].files /\ shards'[s].extents = Append(x, p)
    BY <2>2, <2>6 DEF ShardSet
  <2>8. SaveTypes'
    <3>1. shards'[s] = [files |-> shards[s].files, extents |-> Append(x, p)]
      BY <2>2, <2>6 DEF ShardSet
    <3>2. shards'[s] \in ShardSet
      BY <2>5, <2>6, <3>1 DEF ShardSet
    <3>3. shards' \in Seq(ShardSet)
      BY <2>2, <2>5, <2>7, <3>2
    <3>4. payload' \in Seq(BlockSet)
      BY <2>1, <2>3, <2>5
    <3>. QED
      BY <1>1, <3>3, <3>4 DEF ArchiveInv, SaveTypes
  <2>9. HashInv'
    BY <1>1, <2>2 DEF ArchiveInv, HashInv
  <2>10. CoherentInv'
    BY <1>1, <1>2, <2>2 DEF ArchiveInv, CoherentInv
  <2>11. ShardInv'
    BY <1>1, <1>2, <2>1, <2>2, <2>3, AppendKeepsIndex DEF ArchiveInv, ShardInv
  <2>12. BlockInv'
    <3>1. \A n \in DOMAIN shards : Expected(n)' = Expected(n)
      BY <1>1, <2>7 DEF Expected
    <3>2. \A c : ~ Known(c)'
      BY <1>1, <2>2, <2>4 DEF Known
    <3>3. payload'[p] = b /\ \A i \in DOMAIN payload : payload'[i] = payload[i]
      BY <2>1, <2>3, <2>5
    <3>4. ASSUME NEW n \in DOMAIN shards, NEW i \in DOMAIN shards'[n].extents
          PROVE  BlockRight(payload[shards[n].extents[i]], Expected(n)[i])'
      <4>. DEFINE c == payload'[shards'[n].extents[i]]
                  e == Expected(n)[i]
      <4>1. BlockRight(c, e)
        <5>1. CASE i \in DOMAIN shards[n].extents
          <6>1. shards'[n].extents[i] = shards[n].extents[i]
            <7>1. CASE n = s
              <8>1. i \in DOMAIN x => Append(x, p)[i] = x[i]
                BY <2>5, <2>6
              <8>. QED
                BY <2>7, <5>1, <7>1, <8>1
            <7>2. CASE n # s
              BY <2>7, <7>2
            <7>. QED
              BY <7>1, <7>2
          <6>2. c = payload[shards[n].extents[i]]
            BY <1>2, <3>3, <5>1, <6>1, ExtentInPayload DEF ArchiveInv
          <6>. QED
            BY <1>2, <5>1, <6>2 DEF ArchiveInv, BlockInv
        <5>2. CASE i \notin DOMAIN shards[n].extents
          <6>1. n = s /\ i = Len(x) + 1 /\ shards'[n].extents[i] = p
            BY <2>5, <2>6, <2>7, <5>2
          <6>. QED
            BY <2>3, <3>3, <6>1
        <5>. QED
          BY <5>1, <5>2
      <4>2. PICK d, f : d = c /\ f = e
        OBVIOUS
      <4>3. d = (payload[shards[n].extents[i]])' /\ f = (Expected(n)[i])'
        BY <3>1, <4>2
      <4>4. BlockRight(d, f) /\ ~ Known(d)'
        BY <3>2, <4>1, <4>2
      <4>5. BlockRight(d, f)'
        BY <1>1, <2>2, <4>4 DEF BlockRight
      <4>. QED
        BY <4>3, <4>5 DEF BlockRight, Known
    <3>5. Len(shards'[s].extents) <= 2 * Cardinality(shards'[s].files)
      <4>1. Cardinality(shards[s].files) \in Nat
        BY <2>6, BlockFacts
      <4>2. Len(x) <= 2 * Cardinality(shards[s].files) /\ Len(x) # 2 * Cardinality(shards[s].files)
        BY <1>1, <1>2 DEF ArchiveInv, BlockInv, Written
      <4>. QED
        BY <2>5, <2>6, <2>7, <4>1, <4>2
    <3>6. \A n \in DOMAIN shards : Len(shards'[n].extents) <= 2 * Cardinality(shards'[n].files)
      BY <1>2, <2>7, <3>5 DEF ArchiveInv, BlockInv
    <3>. QED
      BY <1>1, <2>2, <2>7, <3>4, <3>6 DEF BlockInv
  <2>. QED
    BY <2>8, <2>9, <2>10, <2>11, <2>12 DEF ArchiveInv
<1>. QED
  BY <1>3, <1>4

-----------------------------------------------------------------------------

LEMMA SaveKeepsArchive ==
  ASSUME ArchiveInv, [Save \/ Edit \/ Server \/ SaveOver]_saveVars
  PROVE  ArchiveInv'
<1>1. CASE UNCHANGED saveVars
  BY <1>1, SavedStaysRight DEF saveVars, clientVars
<1>2. CASE Server \/ SaveLocally \/ StartUpload \/ StartParts \/ SendPart \/ CompleteUpload
             \/ Answer \/ GiveUp \/ EndAbort
  BY <1>2, BeforeServer, SavedStaysRight
<1>3. CASE \E s \in DOMAIN shards : WriteBlock(s)
  BY <1>3, WriteKeepsArchive
<1>4. CASE Walk \/ EndWalk \/ Hash \/ StartArchive
  BY <1>4, WalkKeepsArchive, EndWalkKeepsArchive, HashKeepsArchive, StartArchiveKeepsArchive
<1>5. CASE EndArchive \/ HashAgain \/ EndHashAgain \/ Edit
  BY <1>5, EndArchiveKeepsArchive, HashAgainKeepsArchive, EndHashAgainKeepsArchive, EditKeepsArchive
<1>. QED
  BY <1>1, <1>2, <1>3, <1>4, <1>5 DEF Save, SaveOver

(***************************************************************************)
(* The blocks the extents of a shard name are its files' in one order,     *)
(* with the contents of the manifest, so unpack accepts the shard.         *)
(***************************************************************************)
LEMMA ShardAccepted ==
  ASSUME ArchiveInv, Prepared, NEW s \in DOMAIN shards
  PROVE  ShardValid(Archive, shards[s])
<1>. DEFINE x == shards[s].extents
            S == shards[s].files
            e == Blocks(SetToSeq(S), digests)
<1>1. Archived /\ saving # "archive"
  BY DEF Archived, Prepared
<1>2. x \in Seq(Nat) /\ S \in SUBSET Files
  <2>1. shards[s] \in ShardSet
    BY DEF ArchiveInv, SaveTypes
  <2>. QED
    BY <2>1 DEF ShardSet
<1>3. Len(x) = 2 * Cardinality(S) /\ Len(e) = 2 * Cardinality(S) /\ DOMAIN x = 1 .. 2 * Cardinality(S)
  BY <1>1, <1>2, BlockFacts DEF ArchiveInv, BlockInv, Written
<1>4. ASSUME NEW i \in DOMAIN x PROVE payload[x[i]] = e[i]
  <2>. DEFINE b == payload[x[i]]
  <2>1. b \in BlockSet /\ BlockRight(b, e[i])
    BY <1>1, ExtentInPayload DEF ArchiveInv, BlockInv, Expected
  <2>2. e[i] = Block(e[i].file, e[i].part, digests[e[i].file])
    BY <1>2, <1>3, BlockFacts
  <2>. HIDE DEF b, e
  <2>3. b.file = e[i].file /\ b.part = e[i].part /\ b.version = digests[e[i].file]
    BY <2>1 DEF BlockRight, Known
  <2>4. b = [file |-> b.file, part |-> b.part, version |-> b.version]
    BY <2>1 DEF BlockSet
  <2>5. b = e[i]
    BY <2>2, <2>3, <2>4 DEF Block
  <2>. QED
    BY <2>5 DEF b
<1>5. SetToSeq(S) \in SetToSeqs(S)
  BY <1>2, OrderFacts
<1>6. Content(Archive, shards[s]) = [i \in DOMAIN x |-> payload[x[i]]]
  BY DEF Content, Archive
<1>7. Archive.digests = digests
  BY DEF Archive
<1>. HIDE DEF x, S, e
<1>8. Len([i \in DOMAIN x |-> payload[x[i]]]) = Len(e)
  BY <1>2, <1>3
<1>9. \A i \in DOMAIN x : Same(payload[x[i]], e[i])
  BY <1>4 DEF Same
<1>. QED
  BY <1>5, <1>6, <1>7, <1>8, <1>9 DEF ShardValid, x, S, e

(***************************************************************************)
(* Whatever is written while the save reads, what it is about to upload is *)
(* an archive unpack accepts and a state all its files were in at one time *)
(* (storage::save's second walk and hash, parallel::save).                 *)
(***************************************************************************)
THEOREM SnapshotIsRight == SpecSave => []SnapshotExisted
<1>1. ArchiveInv => SnapshotExisted
  <2>. SUFFICES ASSUME ArchiveInv, Prepared PROVE Valid(Archive, Key) /\ coherent
    BY DEF SnapshotExisted
  <2>1. Archived /\ saving \notin Reading
    BY DEF Archived, Prepared, Reading
  <2>2. IndexValid(Archive)
    BY <2>1, IndexFacts DEF ArchiveInv, ShardInv
  <2>3. \A s \in DOMAIN shards : ShardValid(Archive, shards[s])
    BY ShardAccepted
  <2>4. Archive # Damaged
    <3>1. digests \in UNION {[S -> Nat] : S \in SUBSET Files}
      BY DEF ArchiveInv, SaveTypes
    <3>2. Archive \in [key : {Key}, digests : UNION {[S -> Nat] : S \in SUBSET Files},
                        payload : Seq(BlockSet), shards : Seq(ShardSet)]
      BY <3>1 DEF Archive, ArchiveInv, SaveTypes
    <3>. QED
      BY <3>2, SaveAssumption
  <2>5. Archive.key = Key /\ Archive.shards = shards
    BY DEF Archive
  <2>. QED
    BY <2>1, <2>2, <2>3, <2>4, <2>5 DEF Valid, ArchiveInv, CoherentInv
<1>. QED
  BY <1>1, ArchiveInit, SaveKeepsArchive, PTL DEF SpecSave

-----------------------------------------------------------------------------

(* Restoring *)

(***************************************************************************)
(* The manifest of a snapshot, and what can be said of every object: it is *)
(* beyond reading, or was made as an archive of some snapshot and has lost *)
(* nothing but contents of blocks since.                                   *)
(***************************************************************************)
DigestsOf(contents) == [f \in {f \in Files : Present(contents[f])} |-> contents[f]]

Listing(a) ==
  \A n \in DOMAIN a.shards : \E m \in Nat : DOMAIN a.shards[n].extents = 1 .. m

Made(o) ==
  \/ o = Damaged
  \/ (\E c \in Saved : o.digests = DigestsOf(c)) /\ Listing(o)

StoreInv ==
  /\ store = [l \in Locations |-> store[l]]
  /\ \A l \in Locations : store[l] # Nothing => Made(store[l])
  /\ lasting \subseteq Locations
  /\ \A l \in lasting : store[l] # Nothing

(***************************************************************************)
(* Every place before the current one was found empty.                     *)
(***************************************************************************)
SearchInv ==
  /\ attempt \in 1 .. 2 * Len(Keys)
  /\ \A i \in 1 .. attempt - 1 : Places[i] \notin lasting
  /\ restoring = "miss" => \A i \in 1 .. 2 * Len(Keys) : Places[i] \notin lasting

DownloadInv ==
  /\ restoring = "ranges" => Made(pinned)
  /\ restoring = "ranges" => pinned # Nothing
  /\ \A p \in DOMAIN fetched : Made(fetched[p])
  /\ restoring = "unpack" => Made(download)

(***************************************************************************)
(* Outputs are touched after verification, and a path is replaced after    *)
(* its old output was removed.                                             *)
(***************************************************************************)
Verified ==
  /\ Made(download)
  /\ Valid(download, Place[1])
  /\ staged = Extracted(download)

OutputInv ==
  /\ restoring \in {"replace", "hit"} \/ removed # {} => Verified
  /\ restoring \in {"look", "whole", "ranges", "unpack", "miss"} => removed = {}
  /\ replaced \subseteq removed /\ removed \subseteq Files
  /\ restoring = "hit" => replaced = Files

IInv == StoreInv /\ SearchInv /\ DownloadInv /\ OutputInv

-----------------------------------------------------------------------------

(***************************************************************************)
(* A permutation of a finite set holds every member.                       *)
(***************************************************************************)
LEMMA OrderHoldsAll ==
  ASSUME NEW S \in SUBSET Files, NEW order \in SetToSeqs(S), NEW f \in S
  PROVE  /\ Len(order) \in Nat /\ DOMAIN order = 1 .. Len(order)
         /\ order \in [1 .. Len(order) -> S]
         /\ \E k \in 1 .. Len(order) : order[k] = f
<1>. DEFINE D == 1 .. Cardinality(S)
<1>1. IsFiniteSet(S) /\ Cardinality(S) \in Nat
  BY FilesAssumption, FS_Subset, FS_CardinalityType
<1>2. order \in [D -> S] /\ \A i, j \in D : i # j => order[i] # order[j]
  BY DEF SetToSeqs
<1>3. IsFiniteSet(D) /\ Cardinality(D) = Cardinality(S)
  BY <1>1, FS_Interval
<1>4. order \in Injection(D, S)
  BY <1>2 DEF Injection, IsInjective
<1>5. order \in Surjection(D, S)
  <2>. HIDE DEF D
  <2>. QED
    BY <1>1, <1>3, <1>4, FS_Injection
<1>6. \E k \in D : order[k] = f
  BY <1>5 DEF Surjection
<1>7. Len(order) = Cardinality(S)
  BY <1>1, <1>2
<1>. QED
  BY <1>1, <1>2, <1>6, <1>7

(***************************************************************************)
(* What an accepted archive is unpacked to is the snapshot of its          *)
(* manifest: every block is one its shard should have, the blocks are all  *)
(* in shards, and each file's shard has its blocks.                        *)
(***************************************************************************)
LEMMA ValidHoldsSnapshot ==
  ASSUME NEW a, NEW k, Made(a), Valid(a, k)
  PROVE  \E c \in Saved : Extracted(a) = [f \in DOMAIN DigestsOf(c) |-> {c[f]}]
<1>1. PICK c \in Saved : a.digests = DigestsOf(c)
  BY DEF Made, Valid
<1>2. /\ DOMAIN a.digests \subseteq Files
      /\ \A f \in DOMAIN a.digests : a.digests[f] = c[f]
  BY <1>1 DEF DigestsOf
<1>3. /\ UNION {ToSet(a.shards[n].extents) : n \in DOMAIN a.shards} = DOMAIN a.payload
      /\ UNION {a.shards[n].files : n \in DOMAIN a.shards} = DOMAIN a.digests
      /\ \A n \in DOMAIN a.shards : ShardValid(a, a.shards[n])
  BY DEF Valid, IndexValid
<1>4. ASSUME NEW n \in DOMAIN a.shards
      PROVE  \E order \in SetToSeqs(a.shards[n].files) :
               LET content  == Content(a, a.shards[n])
                   expected == Blocks(order, a.digests)
               IN  /\ Len(content) = Len(expected)
                   /\ DOMAIN content = 1 .. Len(content)
                   /\ DOMAIN a.shards[n].extents = DOMAIN content
                   /\ \A i \in DOMAIN content : content[i] = expected[i]
  <2>1. PICK order \in SetToSeqs(a.shards[n].files) :
          LET content  == Content(a, a.shards[n])
              expected == Blocks(order, a.digests)
          IN  /\ Len(content) = Len(expected)
              /\ \A i \in DOMAIN content : content[i] = expected[i]
    BY <1>3 DEF ShardValid, Same
  <2>2. PICK m \in Nat : DOMAIN a.shards[n].extents = 1 .. m
    BY DEF Made, Listing, Valid
  <2>3. /\ DOMAIN Content(a, a.shards[n]) = 1 .. m
        /\ Len(Content(a, a.shards[n])) = m
    BY <2>2 DEF Content
  <2>. QED
    BY <2>1, <2>2, <2>3
<1>5. ASSUME NEW n \in DOMAIN a.shards, NEW order \in SetToSeqs(a.shards[n].files),
             NEW f \in a.shards[n].files
      PROVE  LET e == Blocks(order, a.digests)
             IN  /\ Len(order) \in Nat
                 /\ DOMAIN e = 1 .. 2 * Len(order) /\ Len(e) = 2 * Len(order)
                 /\ \A i \in DOMAIN e : e[i].file \in a.shards[n].files
                                        /\ e[i].version = a.digests[e[i].file]
                 /\ \E i \in DOMAIN e : e[i].file = f
  <2>1. a.shards[n].files \in SUBSET Files
    BY <1>2, <1>3
  <2>2. /\ Len(order) \in Nat /\ DOMAIN order = 1 .. Len(order)
        /\ order \in [1 .. Len(order) -> a.shards[n].files]
        /\ \E j \in 1 .. Len(order) : order[j] = f
    BY <2>1, OrderHoldsAll
  <2>. DEFINE e == Blocks(order, a.digests)
  <2>3. /\ DOMAIN e = 1 .. 2 * Len(order) /\ Len(e) = 2 * Len(order)
        /\ \A i \in 1 .. 2 * Len(order) :
             /\ e[i].file = order[(i + 1) \div 2]
             /\ e[i].version = a.digests[order[(i + 1) \div 2]]
    BY <2>2 DEF Blocks, Block
  <2>4. \A i \in 1 .. 2 * Len(order) : (i + 1) \div 2 \in 1 .. Len(order)
    BY <2>2
  <2>5. PICK j \in 1 .. Len(order) : order[j] = f
    BY <2>2
  <2>6. 2 * j \in 1 .. 2 * Len(order) /\ (2 * j + 1) \div 2 = j
    BY <2>2
  <2>. HIDE DEF e
  <2>7. e[2 * j].file = f
    BY <2>3, <2>5, <2>6
  <2>. QED
    BY <2>2, <2>3, <2>4, <2>6, <2>7 DEF e
<1>6. ASSUME NEW p \in DOMAIN a.payload
      PROVE  /\ a.payload[p].file \in DOMAIN a.digests
             /\ a.payload[p].version = c[a.payload[p].file]
  <2>1. PICK n \in DOMAIN a.shards : p \in ToSet(a.shards[n].extents)
    BY <1>3
  <2>2. PICK i \in DOMAIN a.shards[n].extents : a.shards[n].extents[i] = p
    BY <2>1 DEF ToSet
  <2>3. PICK order \in SetToSeqs(a.shards[n].files) :
          LET content  == Content(a, a.shards[n])
              expected == Blocks(order, a.digests)
          IN  /\ Len(content) = Len(expected)
              /\ DOMAIN content = 1 .. Len(content)
              /\ DOMAIN a.shards[n].extents = DOMAIN content
              /\ \A j \in DOMAIN content : content[j] = expected[j]
    BY <1>4
  <2>. DEFINE e == Blocks(order, a.digests)
  <2>4. a.payload[p] = e[i] /\ i \in 1 .. Len(e)
    BY <2>2, <2>3 DEF Content
  <2>5. e[i].file \in a.shards[n].files /\ e[i].version = a.digests[e[i].file]
    <3>1. PICK f : f \in a.shards[n].files
      <4>. SUFFICES ASSUME a.shards[n].files = {} PROVE FALSE
        OBVIOUS
      <4>1. Cardinality({}) = 0
        BY FS_EmptySet
      <4>2. order \in [1 .. 0 -> {}]
        BY <4>1 DEF SetToSeqs
      <4>3. Len(order) = 0
        BY <4>2
      <4>4. Len(e) = 0
        BY <4>3 DEF Blocks
      <4>. QED
        BY <2>4, <4>4
    <3>2. /\ Len(order) \in Nat
          /\ DOMAIN e = 1 .. 2 * Len(order) /\ Len(e) = 2 * Len(order)
          /\ \A j \in DOMAIN e : e[j].file \in a.shards[n].files
                                 /\ e[j].version = a.digests[e[j].file]
      BY <1>5, <3>1
    <3>. HIDE DEF e
    <3>. QED
      BY <2>4, <3>2
  <2>6. a.shards[n].files \subseteq DOMAIN a.digests
    BY <1>3
  <2>. HIDE DEF e
  <2>. QED
    BY <1>2, <2>4, <2>5, <2>6
<1>7. ASSUME NEW f \in DOMAIN a.digests
      PROVE  \E p \in DOMAIN a.payload : a.payload[p].file = f
  <2>1. PICK n \in DOMAIN a.shards : f \in a.shards[n].files
    BY <1>3
  <2>2. PICK order \in SetToSeqs(a.shards[n].files) :
          LET content  == Content(a, a.shards[n])
              expected == Blocks(order, a.digests)
          IN  /\ Len(content) = Len(expected)
              /\ DOMAIN content = 1 .. Len(content)
              /\ DOMAIN a.shards[n].extents = DOMAIN content
              /\ \A j \in DOMAIN content : content[j] = expected[j]
    BY <1>4
  <2>. DEFINE e == Blocks(order, a.digests)
              x == a.shards[n].extents
  <2>3. /\ Len(order) \in Nat /\ DOMAIN e = 1 .. 2 * Len(order) /\ Len(e) = 2 * Len(order)
        /\ \E i \in DOMAIN e : e[i].file = f
    BY <1>5, <2>1
  <2>4. PICK i \in DOMAIN e : e[i].file = f
    BY <2>3
  <2>5. i \in DOMAIN x /\ Content(a, a.shards[n])[i] = e[i]
    <3>. HIDE DEF e
    <3>. QED
      BY <2>2, <2>3, <2>4 DEF e
  <2>6. a.payload[x[i]] = e[i]
    BY <2>5 DEF Content
  <2>7. x[i] \in DOMAIN a.payload
    BY <1>3, <2>5 DEF ToSet
  <2>. QED
    BY <2>4, <2>6, <2>7
<1>8. ASSUME NEW f \in DOMAIN a.digests
      PROVE  {b.version : b \in {b \in ToSet(a.payload) : b.file = f}} = {c[f]}
  <2>1. PICK p \in DOMAIN a.payload : a.payload[p].file = f
    BY <1>7
  <2>2. a.payload[p] \in {b \in ToSet(a.payload) : b.file = f} /\ a.payload[p].version = c[f]
    BY <1>6, <2>1 DEF ToSet
  <2>3. \A b \in {b \in ToSet(a.payload) : b.file = f} : b.version = c[f]
    BY <1>6 DEF ToSet
  <2>. QED
    BY <2>2, <2>3
<1>. QED
  BY <1>1, <1>8 DEF Extracted

(***************************************************************************)
(* What runs save is made, and rot leaves its manifest and extents.        *)
(***************************************************************************)
LEMMA SavedIsMade ==
  ASSUME NEW k \in ToSet(Keys), NEW a \in Archives[k]
  PROVE  /\ Made(a) /\ a # Nothing
         /\ \A r \in Rotten(a) : Made(r) /\ r # Nothing
<1>1. PICK c \in Saved : a = ArchiveOf(k, c)
  BY DEF Archives
<1>2. a # Nothing /\ \A r \in Rotten(a) : r # Nothing
  BY NothingAssumption
<1>. DEFINE S == {f \in Files : Present(c[f])}
<1>3. SetToSeq(S) \in [1 .. Cardinality(S) -> S] /\ Cardinality(S) \in Nat
  <2>. HIDE DEF S
  <2>1. S \subseteq Files
    BY DEF S
  <2>2. IsFiniteSet(S)
    BY <2>1, FilesAssumption, FS_Subset
  <2>3. Cardinality(S) \in Nat /\ ExistsBijection(1 .. Cardinality(S), S)
    BY <2>2, FS_CardinalityType
  <2>4. \E f \in [1 .. Cardinality(S) -> S] : IsInjective(f)
    BY <2>3 DEF ExistsBijection, Bijection, Injection
  <2>. QED
    BY <2>3, <2>4 DEF SetToSeq
<1>. DEFINE blocks == Blocks(SetToSeq(S), c)
            m == 2 * Len(SetToSeq(S))
<1>4. m \in Nat /\ DOMAIN blocks = 1 .. m
  BY <1>3 DEF Blocks
<1>5. a = [key |-> k, digests |-> DigestsOf(c), payload |-> blocks,
           shards |-> <<[files |-> S, extents |-> [i \in DOMAIN blocks |-> i]]>>]
  BY <1>1 DEF ArchiveOf, DigestsOf
<1>6. /\ a.digests = DigestsOf(c)
      /\ DOMAIN a.shards = {1} /\ DOMAIN a.shards[1].extents = 1 .. m
  <2>. HIDE DEF blocks, m, S
  <2>. QED
    BY <1>4, <1>5
<1>7. Listing(a)
  <2>. HIDE DEF m
  <2>. QED
    BY <1>4, <1>6 DEF Listing
<1>8. ASSUME NEW r \in Rotten(a) PROVE Made(r)
  <2>1. r.digests = a.digests /\ r.shards = a.shards
    <3>. HIDE DEF blocks, S
    <3>. QED
      BY <1>5 DEF Rotten
  <2>. QED
    BY <1>6, <1>7, <2>1 DEF Made, Listing
<1>. QED
  BY <1>2, <1>6, <1>7, <1>8 DEF Made

(***************************************************************************)
(* The places to look are the locations, each once.                        *)
(***************************************************************************)
LEMMA PlacesAreLocations ==
  /\ Len(Keys) \in Nat \ {0}
  /\ Len(Places) = 2 * Len(Keys)
  /\ \A i \in 1 .. 2 * Len(Keys) : Places[i] \in Locations /\ Places[i][1] \in ToSet(Keys)
  /\ \A l \in Locations : \E i \in 1 .. 2 * Len(Keys) : Places[i] = l
<1>1. Len(Keys) \in Nat \ {0} /\ DOMAIN Keys = 1 .. Len(Keys)
  BY RestoreAssumption
<1>2. Len(Places) = 2 * Len(Keys) /\ DOMAIN Places = 1 .. 2 * Len(Keys)
  BY <1>1 DEF Places
<1>3. ASSUME NEW i \in 1 .. 2 * Len(Keys)
      PROVE  Places[i] \in Locations /\ Places[i][1] \in ToSet(Keys)
  <2>1. (i + 1) \div 2 \in 1 .. Len(Keys)
    BY <1>1
  <2>2. Keys[(i + 1) \div 2] \in ToSet(Keys)
    BY <1>1, <2>1 DEF ToSet
  <2>. QED
    BY <2>2 DEF Places, Locations
<1>4. ASSUME NEW l \in Locations
      PROVE  \E i \in 1 .. 2 * Len(Keys) : Places[i] = l
  <2>1. PICK k \in ToSet(Keys), w \in {"v2", "legacy"} : l = <<k, w>>
    BY DEF Locations
  <2>2. PICK j \in 1 .. Len(Keys) : Keys[j] = k
    BY <1>1, <2>1 DEF ToSet
  <2>3. CASE w = "v2"
    <3>1. 2 * j - 1 \in 1 .. 2 * Len(Keys) /\ (2 * j - 1 + 1) \div 2 = j /\ (2 * j - 1) % 2 = 1
      BY <1>1
    <3>2. Places[2 * j - 1] = <<k, "v2">>
      BY <2>2, <3>1 DEF Places
    <3>. QED
      BY <2>1, <2>3, <3>1, <3>2
  <2>4. CASE w = "legacy"
    <3>1. 2 * j \in 1 .. 2 * Len(Keys) /\ (2 * j + 1) \div 2 = j /\ (2 * j) % 2 # 1
      BY <1>1
    <3>2. Places[2 * j] = <<k, "legacy">>
      BY <2>2, <3>1 DEF Places
    <3>. QED
      BY <2>1, <2>4, <3>1, <3>2
  <2>. QED
    BY <2>1, <2>3, <2>4
<1>. QED
  BY <1>1, <1>2, <1>3, <1>4

(***************************************************************************)
(* What the place being tried holds.                                       *)
(***************************************************************************)
LEMMA HereIsMade ==
  ASSUME IInv
  PROVE  /\ Place \in Locations
         /\ store[Place] # Nothing => Made(store[Place])
         /\ store[Place] = Nothing => Place \notin lasting
BY PlacesAreLocations DEF IInv, StoreInv, SearchInv, Place

-----------------------------------------------------------------------------

LEMMA InitIInv == InitRestore => IInv
<1>. SUFFICES ASSUME InitRestore PROVE IInv
  OBVIOUS
<1>1. /\ store \in [Locations -> {Nothing} \cup UNION {Archives[k] : k \in ToSet(Keys)}]
      /\ \A l \in Locations : store[l] \in {Nothing} \cup Archives[l[1]]
      /\ lasting = {l \in Locations : store[l] # Nothing}
  BY DEF InitRestore
<1>2. \A l \in Locations : l[1] \in ToSet(Keys)
  BY DEF Locations
<1>3. StoreInv
  BY <1>1, <1>2, SavedIsMade DEF StoreInv
<1>4. SearchInv
  BY PlacesAreLocations DEF InitRestore, SearchInv
<1>5. DownloadInv /\ OutputInv
  BY DEF InitRestore, DownloadInv, OutputInv
<1>. QED
  BY <1>3, <1>4, <1>5 DEF IInv

LEMMA OthersStep == IInv /\ restoring \in {"look", "whole", "ranges"} /\ Others => IInv'
<1>. SUFFICES ASSUME IInv, restoring \in {"look", "whole", "ranges"}, Others PROVE IInv'
  OBVIOUS
<1>1. UNCHANGED restorerVars /\ lasting' \subseteq lasting
  BY DEF Others, OtherSave, Rot, Expire
<1>2. SearchInv' /\ DownloadInv' /\ OutputInv'
  BY <1>1 DEF IInv, SearchInv, DownloadInv, OutputInv, Verified, Place,
              restorerVars, fetchVars, outputVars
<1>3. \A l \in Locations : l[1] \in ToSet(Keys)
  BY DEF Locations
<1>4. CASE OtherSave
  <2>1. PICK k \in ToSet(Keys) : \E a \in Archives[k] :
          store' = [store EXCEPT ![<<k, "v2">>] = a] /\ lasting' = lasting
    BY <1>4 DEF OtherSave
  <2>2. PICK a \in Archives[k] :
          store' = [store EXCEPT ![<<k, "v2">>] = a] /\ lasting' = lasting
    BY <2>1
  <2>3. Made(a) /\ a # Nothing
    BY SavedIsMade
  <2>4. StoreInv'
    BY <2>2, <2>3 DEF IInv, StoreInv
  <2>. QED
    BY <1>2, <2>4 DEF IInv
<1>5. CASE Rot
  <2>1. PICK l \in Locations :
          /\ store[l] # Nothing /\ store[l] \in {Nothing} \cup Archives[l[1]]
          /\ \E a \in {Damaged} \cup Rotten(store[l]) : store' = [store EXCEPT ![l] = a]
          /\ lasting' = lasting
    BY <1>5 DEF Rot
  <2>2. PICK a \in {Damaged} \cup Rotten(store[l]) : store' = [store EXCEPT ![l] = a]
    BY <2>1
  <2>3. Made(a) /\ a # Nothing
    BY <1>3, <2>1, SavedIsMade, NothingAssumption DEF Made
  <2>4. StoreInv'
    BY <2>1, <2>2, <2>3 DEF IInv, StoreInv
  <2>. QED
    BY <1>2, <2>4 DEF IInv
<1>6. CASE Expire
  <2>1. PICK l \in Locations :
          store' = [store EXCEPT ![l] = Nothing] /\ lasting' = lasting \ {l}
    BY <1>6 DEF Expire
  <2>2. StoreInv'
    BY <2>1 DEF IInv, StoreInv
  <2>. QED
    BY <1>2, <2>2 DEF IInv
<1>. QED
  BY <1>4, <1>5, <1>6 DEF Others

(***************************************************************************)
(* A place that is empty is left for the next, or for the miss.            *)
(***************************************************************************)
LEMMA TryNextStep ==
  ASSUME IInv, TryNext, store[Place] = Nothing, UNCHANGED <<store, lasting>>
  PROVE  SearchInv' /\ restoring' \in {"miss", restoring}
<1>1. /\ Len(Places) = 2 * Len(Keys) /\ Len(Keys) \in Nat \ {0}
      /\ attempt \in 1 .. 2 * Len(Keys)
      /\ \A i \in 1 .. attempt - 1 : Places[i] \notin lasting
      /\ Places[attempt] \notin lasting
  BY PlacesAreLocations, HereIsMade DEF IInv, SearchInv, Place
<1>2. \A i \in 1 .. attempt : Places[i] \notin lasting
  BY <1>1
<1>3. CASE attempt = Len(Places)
  BY <1>1, <1>2, <1>3 DEF TryNext, SearchInv
<1>4. CASE attempt # Len(Places)
  <2>1. attempt' = attempt + 1 /\ restoring' = restoring
    BY <1>4 DEF TryNext
  <2>2. restoring' = "miss" => \A i \in 1 .. 2 * Len(Keys) : Places[i] \notin lasting
    BY <2>1 DEF IInv, SearchInv
  <2>. QED
    BY <1>1, <1>2, <1>4, <2>1, <2>2 DEF SearchInv
<1>. QED
  BY <1>3, <1>4

LEMMA FetchStep ==
  IInv /\ (Copy \/ AnswerHead \/ AnswerWhole \/ AskPiece \/ AnswerPiece \/ EndFetch \/ GiveUpFetch)
    => IInv'
<1>. SUFFICES ASSUME IInv,
                     Copy \/ AnswerHead \/ AnswerWhole \/ AskPiece \/ AnswerPiece
                          \/ EndFetch \/ GiveUpFetch
              PROVE  IInv'
  OBVIOUS
<1>1. UNCHANGED <<store, lasting, staged, removed, replaced>>
  BY DEF Copy, AnswerHead, AnswerWhole, AskPiece, AnswerPiece, EndFetch, GiveUpFetch,
         remoteVars, outputVars
<1>2. restoring \in {"look", "whole", "ranges"}
  BY DEF Copy, AnswerHead, AnswerWhole, AskPiece, AnswerPiece, EndFetch, GiveUpFetch, AtRestore, FetchDeadline
<1>3. removed = {} /\ replaced = {}
  BY <1>2 DEF IInv, OutputInv
<1>4. StoreInv'
  BY <1>1 DEF IInv, StoreInv
<1>5. /\ store[Place] # Nothing => Made(store[Place])
      /\ store[Place] = Nothing => Place \notin lasting
  BY HereIsMade
<1>6. restoring' \in {"look", "miss", "unpack", "whole", "ranges", "error"} /\ SearchInv'
  <2>1. CASE TryNext /\ store[Place] = Nothing
    BY <1>1, <1>2, <2>1, TryNextStep
  <2>2. CASE UNCHANGED attempt /\ restoring' \in {"look", "unpack", "whole", "ranges", "error"}
    BY <1>1, <2>2 DEF IInv, SearchInv
  <2>. QED
    BY <1>2, <2>1, <2>2
       DEF Copy, AnswerHead, AnswerWhole, AskPiece, AnswerPiece, EndFetch, GiveUpFetch, Fail
<1>7. OutputInv'
  BY <1>1, <1>3, <1>6 DEF OutputInv
<1>8. DownloadInv'
  <2>1. CASE Copy
    BY <1>2, <1>5, <2>1 DEF Copy, AtRestore, Fail, TryNext, fetchVars, IInv, DownloadInv
  <2>2. CASE AnswerHead
    BY <1>2, <1>5, <2>2 DEF AnswerHead, AtRestore, TryNext, IInv, DownloadInv
  <2>3. CASE AnswerWhole
    BY <1>5, <2>3 DEF AnswerWhole, AtRestore, Fail, fetchVars, IInv, DownloadInv
  <2>4. CASE AskPiece
    BY <2>4 DEF AskPiece, IInv, DownloadInv
  <2>5. CASE AnswerPiece
    <3>1. PICK p : /\ store[Place] = pinned
                   /\ fetched' = [q \in DOMAIN fetched \cup {p} |->
                                    IF q = p THEN store[Place] ELSE fetched[q]]
      BY <2>5 DEF AnswerPiece
    <3>2. Made(pinned) /\ restoring = "ranges" /\ UNCHANGED <<restoring, pinned, download>>
      BY <2>5 DEF AnswerPiece, AtRestore, IInv, DownloadInv
    <3>3. \A q \in DOMAIN fetched' : Made(fetched'[q])
      BY <3>1, <3>2 DEF IInv, DownloadInv
    <3>. QED
      BY <3>2, <3>3 DEF IInv, DownloadInv
  <2>6. CASE EndFetch
    <3>1. PICK a \in {fetched[p] : p \in Pieces} : download' \in {a, Damaged}
      BY <2>6 DEF EndFetch
    <3>2. Made(download')
      BY <2>6, <3>1 DEF EndFetch, IInv, DownloadInv, Made
    <3>3. restoring' = "unpack" /\ fetched' = <<>>
      BY <2>6 DEF EndFetch
    <3>. QED
      BY <3>2, <3>3 DEF DownloadInv
  <2>7. CASE GiveUpFetch
    BY <2>7 DEF GiveUpFetch, Fail, DownloadInv
  <2>. QED
    BY <2>1, <2>2, <2>3, <2>4, <2>5, <2>6, <2>7
<1>. QED
  BY <1>4, <1>6, <1>7, <1>8 DEF IInv

LEMMA ReplaceStep ==
  IInv /\ (Unpack \/ RemoveOutput \/ RenameOutput \/ ReplaceFails \/ EndReplace) => IInv'
<1>. SUFFICES ASSUME IInv,
                     Unpack \/ RemoveOutput \/ RenameOutput \/ ReplaceFails \/ EndReplace
              PROVE  IInv'
  OBVIOUS
<1>1. UNCHANGED <<store, lasting, transport, attempt, pinned, asked, fetched, download>>
  BY DEF Unpack, RemoveOutput, RenameOutput, ReplaceFails, EndReplace, remoteVars, fetchVars,
         outputVars
<1>2. restoring' \in {"replace", "hit", "error"}
  BY DEF Unpack, RemoveOutput, RenameOutput, ReplaceFails, EndReplace, AtRestore, Fail
<1>3. StoreInv' /\ SearchInv' /\ DownloadInv'
  BY <1>1, <1>2 DEF IInv, StoreInv, SearchInv, DownloadInv
<1>4. OutputInv'
  <2>1. CASE Unpack
    <3>1. /\ removed = {} /\ replaced = {} /\ Made(download)
          /\ UNCHANGED <<removed, replaced>>
      BY <2>1 DEF Unpack, AtRestore, IInv, OutputInv, DownloadInv
    <3>2. CASE Valid(download, Place[1])
      <4>1. restoring' = "replace" /\ staged' = Extracted(download)
        BY <2>1, <3>2 DEF Unpack
      <4>2. Verified'
        BY <1>1, <3>1, <3>2, <4>1 DEF Verified, Place
      <4>. QED
        BY <3>1, <4>1, <4>2 DEF OutputInv
    <3>3. CASE ~ Valid(download, Place[1])
      BY <2>1, <3>1, <3>3 DEF Unpack, Fail, OutputInv
    <3>. QED
      BY <3>2, <3>3
  <2>2. CASE RemoveOutput \/ RenameOutput \/ ReplaceFails \/ EndReplace
    <3>1. /\ restoring = "replace" /\ staged' = staged
          /\ replaced' \subseteq removed' /\ removed' \subseteq Files
          /\ restoring' = "hit" => replaced' = Files
      BY <2>2 DEF RemoveOutput, RenameOutput, ReplaceFails, EndReplace, AtRestore, Fail, outputVars,
                  IInv, OutputInv
    <3>2. Verified'
      BY <1>1, <3>1 DEF IInv, OutputInv, Verified, Place
    <3>. QED
      BY <1>2, <3>1, <3>2 DEF OutputInv
  <2>. QED
    BY <2>1, <2>2
<1>. QED
  BY <1>3, <1>4 DEF IInv

-----------------------------------------------------------------------------

RestoreNext ==
  \/ Restore \/ StoreAnswers
  \/ restoring \in {"look", "whole", "ranges"} /\ Others
  \/ RestoreOver /\ UNCHANGED restoreVars

(***************************************************************************)
(* The inductive invariant holds in every reachable state.                 *)
(***************************************************************************)
THEOREM RestoreInvariance == SpecRestore => []IInv
<1>1. IInv /\ [RestoreNext]_restoreVars => IInv'
  <2>. SUFFICES ASSUME IInv, [RestoreNext]_restoreVars PROVE IInv'
    OBVIOUS
  <2>1. CASE UNCHANGED restoreVars
    BY <2>1 DEF restoreVars, remoteVars, restorerVars, fetchVars, outputVars,
                IInv, StoreInv, SearchInv, DownloadInv, OutputInv, Verified, Place
  <2>. QED
    BY <2>1, OthersStep, FetchStep, ReplaceStep DEF RestoreNext, Restore, StoreAnswers
<1>. QED
  BY <1>1, InitIInv, PTL DEF SpecRestore, RestoreNext

(***************************************************************************)
(* Outputs are touched only once everything was verified, and what is put  *)
(* back belongs to one snapshot that some run saved, all of it after a     *)
(* hit.                                                                    *)
(***************************************************************************)
THEOREM RestoredSnapshot == SpecRestore => []RestoredIsSnapshot
<1>1. IInv => RestoredIsSnapshot
  <2>. SUFFICES ASSUME IInv PROVE RestoredIsSnapshot
    OBVIOUS
  <2>1. removed # {} => Verified
    BY DEF IInv, OutputInv
  <2>2. ASSUME replaced # {}
        PROVE  \E c \in Saved : \A f \in replaced :
                 IF Present(c[f]) THEN f \in DOMAIN staged /\ staged[f] = {c[f]}
                 ELSE f \notin DOMAIN staged
    <3>1. replaced \subseteq Files /\ Verified
      BY <2>1, <2>2 DEF IInv, OutputInv
    <3>2. PICK c \in Saved : staged = [f \in DOMAIN DigestsOf(c) |-> {c[f]}]
      BY <3>1, ValidHoldsSnapshot DEF Verified
    <3>3. DOMAIN DigestsOf(c) = {f \in Files : Present(c[f])}
      BY DEF DigestsOf
    <3>. QED
      BY <3>1, <3>2, <3>3
  <2>. QED
    BY <2>1, <2>2 DEF RestoredIsSnapshot, Verified, IInv, OutputInv
<1>. QED
  BY <1>1, RestoreInvariance, PTL

(***************************************************************************)
(* A miss is reported only if every place was empty at some time.          *)
(***************************************************************************)
THEOREM MissesAreReal == SpecRestore => []MissIsReal
<1>1. IInv => MissIsReal
  BY PlacesAreLocations DEF IInv, StoreInv, SearchInv, MissIsReal
<1>. QED
  BY <1>1, RestoreInvariance, PTL

=============================================================================

--------------------------- MODULE DocumentProofs ---------------------------
(***************************************************************************)
(* Documents (DocumentStore): an active document serves the content it     *)
(* names, and the objects of the bucket match the rows.  Files of a folder *)
(* (FolderDocuments): what is recorded of a file is so, and nothing leaves *)
(* the archive unasked.                                                    *)
(*                                                                         *)
(* Uploads, index workers, refreshes, backfills, restores and purges take  *)
(* turns in any order and may fail half way; so the invariants say of each *)
(* what it may still rely on of what it read or stored, until it finds out *)
(* that it came too late.                                                  *)
(***************************************************************************)
EXTENDS DocumentStore, FolderDocuments, SequenceTheorems, FiniteSetTheorems, TLAPS

-----------------------------------------------------------------------------
(* Documents and their objects. *)

JobRow == [no : Nat, status : {"none", "queued", "running", "ended", "deleted"}, leased : BOOLEAN]
IndexMemory == [at : {"idle", "claimed", "read", "locked", "finish"}, doc : 0..MaxDocs, no : Nat, key : Bytes]
PurgeRow == [status : PurgeStatus, seen : DocRow, held : DocStatus]
ObjectKeys == (0..MaxDocs) \X Contents
Uploads == {NoUpload} \cup [content : Contents, prior : 0..MaxDocs]
HasDoc == doc.id \in DocIds

StoreTypes ==
  /\ doc \in DocRow /\ (doc = NoDoc \/ (HasDoc /\ doc.sha \in Contents))
  /\ job \in [DocIds -> JobRow] /\ docWorker \in [IndexWorkers -> IndexMemory]
  /\ purge \in [DocIds -> PurgeRow] /\ upload \in Uploads
  /\ purging \in [doc : 0..MaxDocs, todo : SUBSET ObjectKeys, missed : BOOLEAN]
  /\ objects \subseteq ObjectKeys /\ cited \subseteq DocIds \X Contents

\* An incarnation has had a job from its first upload on.
KnownDoc(d) == job[d].status # "none"
KnownIncarnations ==
  /\ HasDoc => KnownDoc(doc.id)
  /\ \A w \in IndexWorkers : docWorker[w].at # "idle" => docWorker[w].doc \in DocIds /\ KnownDoc(docWorker[w].doc)
  /\ \A d \in DocIds : purge[d].status # "none" => KnownDoc(d)

BaseInv == StoreTypes /\ KnownIncarnations

-----------------------------------------------------------------------------
\* Who indexes holds the row, and what it read is still what the row names.
IndexesAlone ==
  \A w \in IndexWorkers :
    /\ docWorker[w].at = "locked" => rowHolder = {w} /\ doc.id = docWorker[w].doc
    /\ docWorker[w].at \in {"read", "locked"} /\ docWorker[w].doc = doc.id =>
         docWorker[w].key = doc.sha \/ overtaken

\* A quarantined row is as it was when the quarantine began, and what would be put
\* back is not the quarantine itself.
QuarantineHolds ==
  /\ HasDoc /\ doc.status = "purge_quarantined" =>
       /\ purge[doc.id].status = "quarantined"
       /\ purge[doc.id].held = "active" => doc.chunks \in {doc.sha, NoContent} \/ overtaken
  /\ \A d \in DocIds : purge[d].status \in {"proposed", "quarantined"} =>
       purge[d].seen.status # "purge_quarantined"

IndexInv == BaseInv /\ IndexesAlone /\ QuarantineHolds /\ ServesItsContent

-----------------------------------------------------------------------------
PurgeDecided == {"database_purged", "object_cleanup_pending"}

\* Once its rows are gone an incarnation is gone for ever, and the one reconciler
\* of a purge works on objects of one that is.
PurgedIsGone ==
  /\ \A d \in DocIds :
       /\ purge[d].status \in PurgeDecided \cup {"completed"} => doc.id # d
       /\ purge[d].status # "none" => purge[d].seen.id = d /\ purge[d].seen.sha \in Contents
  /\ purging.doc = 0 => purging.todo = {}
  /\ purging.doc # 0 => /\ purge[purging.doc].status \in PurgeDecided
                        /\ purging.todo \subseteq PurgeTargets(purge[purging.doc].seen)

\* The bytes of an upload are there, and whoever has decided to delete them had
\* looked before they were stored.
Safe(c) ==
  /\ UploadKey(c) \in objects \cup restored
  /\ DeletionDecided(c) => UploadKey(c) \in restored
BytesAreSafe == (HasDoc => Safe(doc.sha)) /\ (upload.content \in Contents => Safe(upload.content))

\* The versions of the document have their bytes.
VersionsAreStored ==
  /\ \A c \in doc.versions : <<doc.id, c>> \in objects
  /\ doc.current \in doc.versions \cup {NoContent}
CitedStands == \A v \in cited : doc.id = v[1] /\ v[2] \in doc.versions

\* What a purge is done with is not in the store, unless a restore put it there again.
PurgedIsDeleted ==
  /\ purging.doc # 0 /\ ~purging.missed =>
       \A c \in purge[purging.doc].seen.versions :
         <<purging.doc, c>> \in objects \ restored => <<purging.doc, c>> \in purging.todo
  /\ \A d \in DocIds : purge[d].status = "completed" =>
       \A c \in purge[d].seen.versions : <<d, c>> \notin objects \ restored

StoreInv ==
  IndexInv /\ PurgedIsGone /\ BytesAreSafe /\ VersionsAreStored /\ CitedStands /\ PurgedIsDeleted

-----------------------------------------------------------------------------
\* A restore relies on the key it read before, and on the object it has put for a
\* document that is still there.
Restores ==
  {NoRestore} \cup [at : {"fetch", "look", "put", "commit"}, doc : DocIds, key : Contents, known : BOOLEAN]

RestoreInv ==
  /\ restoring \in Restores
  /\ restoring # NoRestore =>
       /\ KnownDoc(restoring.doc)
       /\ restoring.doc = doc.id => restoring.key = doc.sha \/ overtaken
       /\ restoring.at = "commit" /\ restoring.doc = doc.id => <<doc.id, restoring.key>> \in objects

DocumentsInv == StoreInv /\ RestoreInv

-----------------------------------------------------------------------------
\* What an update leaves alone of a row.
SameRow(m, row) == m.id = row.id /\ m.sha = row.sha /\ m.versions = row.versions /\ m.current = row.current

LEMMA RowIsMarked ==
  ASSUME NEW row \in DocRow, NEW s \in DocStatus
  PROVE  LET m == [row EXCEPT !.status = s]
         IN m \in DocRow /\ SameRow(m, row) /\ m.status = s /\ m.chunks = row.chunks
BY DEF DocRow, SameRow

LEMMA RowIsRepointed ==
  ASSUME NEW row \in DocRow, NEW c \in Contents
  PROVE  LET m == [row EXCEPT !.sha = c, !.status = "queued"]
         IN /\ m \in DocRow /\ m.id = row.id /\ m.sha = c /\ m.status = "queued"
            /\ m.versions = row.versions /\ m.current = row.current
BY DEF DocRow, DocStatus, Bytes

LEMMA RowIsIngested ==
  ASSUME NEW row \in DocRow, NEW c \in Contents
  PROVE  LET m == Ingest(row, c)
         IN /\ m \in DocRow /\ m.id = row.id /\ m.sha = row.sha /\ m.status = row.status
            /\ m.chunks = row.chunks /\ m.versions = row.versions \cup {c} /\ m.current \in {row.current, c}
<1>1. CASE c \in row.versions
  BY <1>1 DEF Ingest
<1>2. CASE c \notin row.versions
  BY <1>2 DEF Ingest, DocRow, Bytes
<1> QED
  BY <1>1, <1>2

LEMMA NoDocument ==
  /\ NoDoc \in DocRow /\ NoDoc.id = 0 /\ NoDoc.status = "none" /\ NoDoc.versions = {}
  /\ NoDoc.current = NoContent /\ 0 \notin DocIds
BY DocumentStoreAssumption DEF NoDoc, DocRow, DocStatus, Bytes, DocIds

\* The row, where there is one.
LEMMA DocumentTypes ==
  ASSUME StoreTypes
  PROVE  /\ doc \in DocRow /\ doc.id \in 0..MaxDocs /\ doc.sha \in Bytes /\ doc.chunks \in Bytes
         /\ doc.versions \subseteq Contents /\ doc.current \in Bytes /\ doc.status \in DocStatus
         /\ HasDoc <=> doc # NoDoc
         /\ ~HasDoc => doc.id = 0 /\ doc.status = "none" /\ doc.versions = {} /\ doc.current = NoContent
         /\ HasDoc => doc.sha \in Contents
BY NoDocument DEF StoreTypes, HasDoc, DocRow

-----------------------------------------------------------------------------
\* The jobs change, and none is forgotten.
JobsMove == job' \in [DocIds -> JobRow] /\ \A d \in DocIds : KnownDoc(d) => KnownDoc(d)'

LEMMA JobQueued ==
  ASSUME StoreTypes, NEW d \in DocIds, EnqueueDocumentJob(d)
  PROVE  JobsMove /\ KnownDoc(d)'
<1>1. job \in [DocIds -> JobRow] /\ job[d] \in JobRow
  BY DEF StoreTypes
<1> DEFINE row == [no |-> job[d].no + 1, status |-> "queued", leased |-> FALSE]
<1>2. row \in JobRow /\ row.status = "queued"
  BY <1>1 DEF JobRow
<1>3. CASE LiveJob(d) /\ job' = job
  BY <1>1, <1>3 DEF LiveJob, JobsMove, KnownDoc
<1>4. CASE job' = [job EXCEPT ![d] = row]
  <2> HIDE DEF row
  <2> QED
    BY <1>1, <1>2, <1>4 DEF JobsMove, KnownDoc
<1> QED
  BY <1>3, <1>4 DEF EnqueueDocumentJob

LEMMA JobStaysKnown ==
  ASSUME StoreTypes, NEW d \in DocIds, NEW row \in JobRow, KnownDoc(d) => row.status # "none",
         job' = [job EXCEPT ![d] = row]
  PROVE  JobsMove
BY DEF StoreTypes, JobsMove, KnownDoc

\* What a step may do to rows, jobs, workers and purges.
LEMMA BaseMoves ==
  ASSUME BaseInv, JobsMove,
         doc' \in DocRow, doc' = NoDoc \/ (HasDoc' /\ doc'.sha \in Contents),
         HasDoc' => doc'.id = doc.id \/ KnownDoc(doc.id)',
         docWorker' \in [IndexWorkers -> IndexMemory],
         \A w \in IndexWorkers : docWorker'[w].at # "idle" =>
           \/ docWorker[w].at # "idle" /\ docWorker'[w].doc = docWorker[w].doc
           \/ docWorker'[w].doc \in DocIds /\ KnownDoc(docWorker'[w].doc),
         purge' \in [DocIds -> PurgeRow],
         \A d \in DocIds : purge'[d].status # "none" => purge[d].status # "none" \/ KnownDoc(d),
         upload' \in Uploads,
         purging' \in [doc : 0..MaxDocs, todo : SUBSET ObjectKeys, missed : BOOLEAN],
         objects' \subseteq ObjectKeys, cited' \subseteq DocIds \X Contents
  PROVE  BaseInv'
<1>1. StoreTypes'
  BY DEF StoreTypes, JobsMove
<1>2. (HasDoc => KnownDoc(doc.id))'
  BY DEF BaseInv, KnownIncarnations, JobsMove, HasDoc
<1>3. \A w \in IndexWorkers : docWorker'[w].at # "idle" => docWorker'[w].doc \in DocIds /\ KnownDoc(docWorker[w].doc)'
  BY DEF BaseInv, KnownIncarnations, JobsMove, KnownDoc
<1>4. \A d \in DocIds : purge'[d].status # "none" => KnownDoc(d)'
  BY DEF BaseInv, KnownIncarnations, JobsMove
<1> QED
  BY <1>1, <1>2, <1>3, <1>4 DEF BaseInv, KnownIncarnations, KnownDoc

\* A step that changes the row, if anything, in the ways of RowIsMarked and its likes.
LEMMA RowMoves ==
  ASSUME BaseInv, JobsMove, HasDoc, doc' \in DocRow, doc'.id = doc.id, doc'.sha \in Contents,
         UNCHANGED <<docWorker, cited, purging>>, upload' \in Uploads,
         objects' \subseteq ObjectKeys, purge' \in [DocIds -> PurgeRow],
         \A d \in DocIds : purge'[d].status # "none" => purge[d].status # "none" \/ KnownDoc(d)
  PROVE  BaseInv'
<1>1. HasDoc'
  BY DEF HasDoc
<1> QED
  BY <1>1, BaseMoves DEF BaseInv, StoreTypes

\* A step that leaves the row alone.
LEMMA RowStays ==
  ASSUME BaseInv, JobsMove, doc' = doc, UNCHANGED <<docWorker, purging>>,
         upload' \in Uploads, cited' \subseteq DocIds \X Contents,
         objects' \subseteq ObjectKeys, purge' \in [DocIds -> PurgeRow],
         \A d \in DocIds : purge'[d].status # "none" => purge[d].status # "none" \/ KnownDoc(d)
  PROVE  BaseInv'
<1>1. (doc' = NoDoc \/ (HasDoc' /\ doc'.sha \in Contents)) /\ (HasDoc' => doc'.id = doc.id)
  BY DEF BaseInv, StoreTypes, HasDoc
<1> QED
  BY <1>1, BaseMoves DEF BaseInv, StoreTypes

\* A step of a worker with the row or without.
LEMMA WorkerMoves ==
  ASSUME BaseInv, JobsMove, NEW w \in IndexWorkers, NEW m \in IndexMemory,
         docWorker' = [docWorker EXCEPT ![w] = m],
         m.at # "idle" => \/ docWorker[w].at # "idle" /\ m.doc = docWorker[w].doc
                          \/ m.doc \in DocIds /\ KnownDoc(m.doc),
         doc' = doc \/ (HasDoc /\ doc' \in DocRow /\ doc'.id = doc.id /\ doc'.sha \in Contents),
         UNCHANGED <<cited, upload, purge, purging>>, objects' \subseteq ObjectKeys
  PROVE  BaseInv'
<1>1. docWorker' \in [IndexWorkers -> IndexMemory]
  BY DEF BaseInv, StoreTypes
<1>2. doc' \in DocRow /\ (doc' = NoDoc \/ (HasDoc' /\ doc'.sha \in Contents)) /\ (HasDoc' => doc'.id = doc.id)
  BY DEF BaseInv, StoreTypes, HasDoc
<1>3. \A v \in IndexWorkers : docWorker'[v].at # "idle" =>
           \/ docWorker[v].at # "idle" /\ docWorker'[v].doc = docWorker[v].doc
           \/ docWorker'[v].doc \in DocIds /\ KnownDoc(docWorker'[v].doc)
  BY DEF BaseInv, StoreTypes
<1> QED
  BY <1>1, <1>2, <1>3, BaseMoves DEF BaseInv, StoreTypes

LEMMA JobsStay == ASSUME StoreTypes, job' = job PROVE JobsMove
BY DEF StoreTypes, JobsMove, KnownDoc

-----------------------------------------------------------------------------
\* The steps, with what the two invariants need to know of them.
LEMMA PutShape == ASSUME BaseInv, PutObject PROVE BaseInv'
<1>1. PICK c \in Contents : objects' = objects \cup {UploadKey(c)} /\ upload' = [content |-> c, prior |-> doc.id]
  BY DEF PutObject
<1>2. upload' \in Uploads
  BY <1>1, DocumentTypes DEF BaseInv, Uploads
<1>3. objects' \subseteq ObjectKeys
  BY <1>1, DocumentStoreAssumption DEF BaseInv, StoreTypes, ObjectKeys, UploadKey
<1>4. JobsMove /\ doc' = doc /\ UNCHANGED <<docWorker, purge, purging, cited>>
  BY JobsStay DEF PutObject, BaseInv
<1> QED
  BY <1>2, <1>3, <1>4, RowStays DEF BaseInv, StoreTypes

LEMMA CommitShape ==
  ASSUME BaseInv, CommitUpload
  PROVE  /\ BaseInv' /\ HasDoc /\ upload.content \in Contents /\ upload'.content \notin Contents
         /\ doc'.id = doc.id /\ doc'.sha = upload.content /\ doc'.status = "queued"
         /\ doc'.versions = doc.versions /\ doc'.current = doc.current
<1>1. upload \in [content : Contents, prior : 0..MaxDocs] /\ StoreTypes /\ upload.content \in Contents
  BY DEF BaseInv, StoreTypes, CommitUpload, Uploads
<1>2. HasDoc /\ doc \in DocRow
  BY <1>1, DocumentTypes, NoDocument DEF CommitUpload, DocIds
<1>3. doc' = [doc EXCEPT !.sha = upload.content, !.status = "queued"]
      /\ UNCHANGED <<docWorker, cited, purging, purge, objects>> /\ upload' = NoUpload
  BY DEF CommitUpload
<1>4. /\ doc' \in DocRow /\ doc'.id = doc.id /\ doc'.sha = upload.content /\ doc'.status = "queued"
      /\ doc'.versions = doc.versions /\ doc'.current = doc.current
  BY <1>1, <1>2, <1>3, RowIsRepointed
<1>5. JobsMove
  BY <1>1, <1>2, JobQueued DEF HasDoc, CommitUpload
<1>6. upload' \in Uploads /\ upload'.content \notin Contents
  BY <1>3, DocumentStoreAssumption DEF Uploads, NoUpload
<1>7. BaseInv'
  BY <1>1, <1>2, <1>3, <1>4, <1>5, <1>6, RowMoves DEF StoreTypes
<1> QED
  BY <1>1, <1>2, <1>4, <1>6, <1>7

LEMMA FirstShape ==
  ASSUME BaseInv, CommitFirstUpload
  PROVE  /\ BaseInv' /\ ~HasDoc /\ HasDoc' /\ upload.content \in Contents /\ upload'.content \notin Contents
         /\ ~KnownDoc(doc'.id) /\ doc'.sha = upload.content /\ doc'.status = "queued"
         /\ doc'.versions = {} /\ doc'.current = NoContent
<1>1. upload \in [content : Contents, prior : 0..MaxDocs] /\ StoreTypes /\ upload.content \in Contents
  BY DEF BaseInv, StoreTypes, CommitFirstUpload, Uploads
<1>2. PICK d \in DocIds : /\ job[d] = NoJob
                          /\ doc' = [NoDoc EXCEPT !.id = d, !.sha = upload.content, !.status = "queued"]
                          /\ EnqueueDocumentJob(d)
  BY DEF CommitFirstUpload
<1>3. /\ doc' \in DocRow /\ doc'.id = d /\ doc'.sha = upload.content /\ doc'.status = "queued"
      /\ doc'.versions = {} /\ doc'.current = NoContent
  <2>1. d \in 0..MaxDocs /\ upload.content \in Bytes /\ "queued" \in DocStatus
    BY <1>1, DocumentStoreAssumption DEF Bytes, DocStatus, DocIds
  <2>2. NoDoc \in DocRow /\ NoDoc.versions = {} /\ NoDoc.current = NoContent
    BY NoDocument
  <2> HIDE DEF NoDoc
  <2> QED
    BY <1>2, <2>1, <2>2 DEF DocRow
<1>4. JobsMove /\ KnownDoc(d)' /\ ~KnownDoc(d)
  BY <1>1, <1>2, JobQueued DEF KnownDoc, NoJob
<1>5. UNCHANGED <<docWorker, cited, purging, purge, objects>> /\ upload' = NoUpload /\ doc = NoDoc
  BY DEF CommitFirstUpload
<1>6. upload' \in Uploads /\ upload'.content \notin Contents
  BY <1>5, DocumentStoreAssumption DEF Uploads, NoUpload
<1>7. HasDoc' /\ (HasDoc' => doc'.id = doc.id \/ KnownDoc(doc.id)') /\ ~HasDoc
  BY <1>3, <1>4, <1>5, NoDocument DEF HasDoc, KnownDoc
<1>8. BaseInv'
  BY <1>1, <1>3, <1>4, <1>5, <1>6, <1>7, BaseMoves DEF BaseInv, StoreTypes
<1> QED
  BY <1>1, <1>3, <1>4, <1>6, <1>7, <1>8

LEMMA UploadEndsShape == ASSUME BaseInv, UploadFails PROVE BaseInv' /\ upload'.content \notin Contents
<1>1. upload' = NoUpload /\ UNCHANGED <<doc, job, docWorker, objects, cited, purge, purging>>
  BY DEF UploadFails
<1>2. upload' \in Uploads /\ upload'.content \notin Contents
  BY <1>1, DocumentStoreAssumption DEF Uploads, NoUpload
<1> QED
  BY <1>1, <1>2, JobsStay, RowStays DEF BaseInv, StoreTypes

\* The steps that only mark the row.
LEMMA MarkShape ==
  ASSUME BaseInv, UploadUnsupported \/ RetryDocument \/ ArchiveDocument
  PROVE  /\ BaseInv' /\ HasDoc /\ SameRow(doc', doc) /\ doc'.status \notin {"active", "purge_quarantined"}
         /\ UNCHANGED <<docWorker, rowHolder, upload, objects, cited, purge, purging, cleaning, overtaken, restored>>
<1>1. StoreTypes /\ doc \in DocRow /\ HasDoc /\ doc.id \in DocIds
  BY DocumentTypes DEF BaseInv, UploadUnsupported, RetryDocument, ArchiveDocument, HasDoc
<1>2. UNCHANGED <<docWorker, rowHolder, upload, objects, cited, purge, purging, cleaning, overtaken, restored>>
  BY DEF UploadUnsupported, RetryDocument, ArchiveDocument
<1>3. doc' \in DocRow /\ SameRow(doc', doc) /\ doc'.status \notin {"active", "purge_quarantined"}
  <2>1. \/ \E s \in {"unsupported", "queued"} : doc' = [doc EXCEPT !.status = s]
        \/ doc' = [doc EXCEPT !.status = "archived", !.chunks = NoContent]
    BY DEF UploadUnsupported, RetryDocument, ArchiveDocument
  <2>2. {"unsupported", "queued", "archived"} \subseteq DocStatus /\ NoContent \in Bytes
    BY DEF DocStatus, Bytes
  <2>3. ASSUME NEW s \in {"unsupported", "queued"}, doc' = [doc EXCEPT !.status = s]
        PROVE  doc' \in DocRow /\ SameRow(doc', doc) /\ doc'.status \notin {"active", "purge_quarantined"}
    <3>1. s \in DocStatus
      BY <2>2
    <3> QED
      BY <1>1, <2>3, <3>1, RowIsMarked
  <2>4. CASE doc' = [doc EXCEPT !.status = "archived", !.chunks = NoContent]
    BY <1>1, <2>2, <2>4 DEF DocRow, SameRow
  <2> QED
    BY <2>1, <2>3, <2>4
<1>4. JobsMove
  BY <1>1, JobsStay, JobQueued DEF UploadUnsupported, RetryDocument, ArchiveDocument
<1>5. doc'.sha \in Contents /\ doc'.id = doc.id
  BY <1>1, <1>3, DocumentTypes DEF SameRow
<1>6. BaseInv'
  BY <1>1, <1>2, <1>3, <1>4, <1>5, RowMoves DEF BaseInv, StoreTypes
<1> QED
  BY <1>1, <1>2, <1>3, <1>6

LEMMA CiteShape ==
  ASSUME BaseInv, CiteCurrentVersion
  PROVE  BaseInv' /\ HasDoc /\ doc.current \in Contents
<1>1. StoreTypes /\ HasDoc /\ doc.id \in DocIds /\ doc.current \in Contents
  BY DocumentTypes DEF BaseInv, CiteCurrentVersion, HasDoc, Bytes
<1>2. cited' \subseteq DocIds \X Contents
  BY <1>1 DEF CiteCurrentVersion, StoreTypes
<1> QED
  BY <1>1, <1>2, JobsStay, RowStays DEF CiteCurrentVersion, StoreTypes

\* A worker without the row.
LEMMA WorkerShape ==
  ASSUME BaseInv, NEW w \in IndexWorkers,
         ClaimNextDocumentJob(w) \/ ReadDocument(w) \/ LockDocument(w) \/ FinishJob(w) \/ WorkerCrash(w)
  PROVE  /\ BaseInv'
         /\ UNCHANGED <<doc, upload, objects, cited, purge, purging, cleaning, overtaken, restored>>
<1>1. StoreTypes /\ docWorker[w] \in IndexMemory /\ Resting \in IndexMemory /\ Resting.at = "idle"
  BY DocumentStoreAssumption DEF BaseInv, StoreTypes, IndexMemory, Resting, Bytes
<1>2. UNCHANGED <<doc, upload, objects, cited, purge, purging, cleaning, overtaken, restored>>
  BY DEF ClaimNextDocumentJob, ReadDocument, LockDocument, FinishJob, WorkerCrash
<1>3. ASSUME NEW m \in IndexMemory, docWorker' = [docWorker EXCEPT ![w] = m], JobsMove,
             m.at # "idle" => \/ docWorker[w].at # "idle" /\ m.doc = docWorker[w].doc
                              \/ m.doc \in DocIds /\ KnownDoc(m.doc)
      PROVE  BaseInv'
  BY <1>1, <1>2, <1>3, WorkerMoves DEF StoreTypes
<1>4. CASE ClaimNextDocumentJob(w)
  <2>1. PICK d \in DocIds :
          /\ job[d].status = "queued" \/ DocJobExpired(d)
          /\ job' = [job EXCEPT ![d].status = "running", ![d].leased = TRUE]
          /\ docWorker' = [docWorker EXCEPT ![w] =
                             [Resting EXCEPT !.at = "claimed", !.doc = d, !.no = job[d].no]]
    BY <1>4 DEF ClaimNextDocumentJob
  <2> DEFINE m == [Resting EXCEPT !.at = "claimed", !.doc = d, !.no = job[d].no]
             row == [job[d] EXCEPT !.status = "running", !.leased = TRUE]
  <2>2. job[d] \in JobRow /\ KnownDoc(d)
    BY <1>1, <2>1 DEF StoreTypes, DocJobExpired, KnownDoc
  <2>3. m \in IndexMemory /\ m.doc = d
    <3>1. d \in 0..MaxDocs /\ job[d].no \in Nat /\ "claimed" \in {"idle", "claimed", "read", "locked", "finish"}
      BY <2>2, DocumentStoreAssumption DEF JobRow, DocIds
    <3> QED
      BY <1>1, <3>1 DEF IndexMemory
  <2>4. row \in JobRow /\ row.status # "none" /\ job' = [job EXCEPT ![d] = row]
    BY <1>1, <2>1, <2>2 DEF JobRow, StoreTypes
  <2> HIDE DEF m, row
  <2>5. JobsMove
    BY <1>1, <2>4, JobStaysKnown
  <2>6. docWorker' = [docWorker EXCEPT ![w] = m]
    BY <2>1 DEF m
  <2> QED
    BY <1>2, <1>3, <2>2, <2>3, <2>5, <2>6
<1>5. CASE ReadDocument(w)
  <2> DEFINE m == IF doc.id # docWorker[w].doc \/ (doc.status = "active" /\ doc.chunks # NoContent)
                  THEN [docWorker[w] EXCEPT !.at = "finish"]
                  ELSE [docWorker[w] EXCEPT !.at = "read", !.key = doc.sha]
  <2>1. docWorker' = [docWorker EXCEPT ![w] = m] /\ docWorker[w].at = "claimed" /\ job' = job
    BY <1>1, <1>5 DEF ReadDocument, StoreTypes
  <2>2. m \in IndexMemory /\ m.doc = docWorker[w].doc
    BY <1>1, DocumentTypes DEF IndexMemory
  <2> HIDE DEF m
  <2> QED
    BY <1>1, <1>2, <1>3, <2>1, <2>2, JobsStay
<1>6. CASE LockDocument(w)
  <2>1. PICK at \in {"locked", "finish"} : docWorker' = [docWorker EXCEPT ![w].at = at]
    BY <1>6 DEF LockDocument
  <2> DEFINE m == [docWorker[w] EXCEPT !.at = at]
  <2>2. docWorker' = [docWorker EXCEPT ![w] = m] /\ docWorker[w].at = "read" /\ job' = job
    BY <1>1, <1>6, <2>1 DEF LockDocument, StoreTypes
  <2>3. m \in IndexMemory /\ m.doc = docWorker[w].doc
    BY <1>1 DEF IndexMemory
  <2> HIDE DEF m
  <2> QED
    BY <1>1, <1>2, <1>3, <2>2, <2>3, JobsStay
<1>7. CASE FinishJob(w)
  <2> DEFINE d == docWorker[w].doc
             row == [job[d] EXCEPT !.status = "ended"]
  <2>1. docWorker' = [docWorker EXCEPT ![w] = Resting] /\ d \in DocIds
    BY <1>7 DEF FinishJob, BaseInv, KnownIncarnations
  <2>2. row \in JobRow /\ row.status = "ended"
    BY <1>1, <2>1 DEF StoreTypes, JobRow
  <2>3. job' = job \/ job' = [job EXCEPT ![d] = row]
    BY <1>1, <1>7, <2>1 DEF FinishJob, StoreTypes
  <2>4. JobsMove
    <3> HIDE DEF row, d
    <3> QED
      BY <1>1, <2>1, <2>2, <2>3, JobsStay, JobStaysKnown
  <2> QED
    BY <1>1, <1>2, <1>3, <2>1, <2>4
<1>8. CASE WorkerCrash(w)
  BY <1>1, <1>2, <1>3, <1>8, JobsStay DEF WorkerCrash
<1> QED
  BY <1>2, <1>4, <1>5, <1>6, <1>7, <1>8

\* The end of an index transaction.
LEMMA IndexEndsShape ==
  ASSUME BaseInv, NEW w \in IndexWorkers, doc.id = docWorker[w].doc,
         IndexDocument(w) \/ SourceUnavailable(w) \/ FailIndex(w)
  PROVE  /\ BaseInv' /\ HasDoc /\ docWorker[w].at = "locked" /\ doc'.id = doc.id /\ doc'.sha = doc.sha
         /\ docWorker' = [docWorker EXCEPT ![w].at = "finish"] /\ rowHolder' = {}
         /\ UNCHANGED <<upload, cited, purge, purging, cleaning, overtaken, restored>>
         /\ doc'.status # "purge_quarantined" /\ (doc'.status = "active" => doc'.chunks = docWorker[w].key)
         /\ \/ doc'.versions = doc.versions /\ doc'.current = doc.current /\ objects' = objects
            \/ \E c \in Contents : /\ doc'.versions = doc.versions \cup {c} /\ doc'.current \in {doc.current, c}
                                   /\ objects' = objects \cup {<<doc.id, c>>}
<1> DEFINE c == docWorker[w].key
           m == [docWorker[w] EXCEPT !.at = "finish"]
           row == [doc EXCEPT !.status = "active", !.chunks = c]
<1>1. /\ StoreTypes /\ docWorker[w] \in IndexMemory /\ docWorker[w].at = "locked"
      /\ docWorker' = [docWorker EXCEPT ![w].at = "finish"] /\ rowHolder' = {}
      /\ UNCHANGED <<job, upload, cited, purge, purging, cleaning, overtaken, restored>>
  BY DEF BaseInv, StoreTypes, IndexDocument, SourceUnavailable, FailIndex, IndexEnds
<1>2. HasDoc /\ doc \in DocRow /\ doc.sha \in Contents /\ c \in Bytes
  BY <1>1, DocumentTypes DEF BaseInv, KnownIncarnations, HasDoc, IndexMemory
<1>3. m \in IndexMemory /\ m.doc = docWorker[w].doc /\ docWorker' = [docWorker EXCEPT ![w] = m]
  BY <1>1 DEF IndexMemory, StoreTypes
<1>4. row \in DocRow /\ SameRow(row, doc) /\ row.status = "active" /\ row.chunks = c
  BY <1>2 DEF DocRow, DocStatus, SameRow
<1>5. ASSUME doc' \in DocRow, doc'.id = doc.id, doc'.sha = doc.sha, objects' \subseteq ObjectKeys PROVE BaseInv'
  <2> HIDE DEF m
  <2> QED
    BY <1>1, <1>2, <1>3, <1>5, JobsStay, WorkerMoves
<1>6. CASE IndexDocument(w) /\ doc' = row /\ objects' = objects
  <2> HIDE DEF row
  <2> QED
    BY <1>1, <1>2, <1>4, <1>5, <1>6 DEF SameRow, StoreTypes
<1>7. CASE IndexDocument(w) /\ doc' = Ingest(row, c) /\ objects' = objects \cup {<<doc.id, c>>}
  <2>1. c \in Contents
    BY <1>1, <1>2, <1>7, DocumentStoreAssumption DEF IndexDocument, StoreTypes, UploadKey, ObjectKeys, Bytes
  <2> HIDE DEF row, c
  <2>2. /\ doc' \in DocRow /\ doc'.id = doc.id /\ doc'.sha = doc.sha /\ doc'.status = "active" /\ doc'.chunks = c
        /\ doc'.versions = doc.versions \cup {c} /\ doc'.current \in {doc.current, c}
    BY <1>4, <1>7, <2>1, RowIsIngested DEF SameRow
  <2>3. objects' \subseteq ObjectKeys
    BY <1>1, <1>2, <1>7, <2>1 DEF StoreTypes, ObjectKeys, DocRow
  <2> QED
    BY <1>1, <1>2, <1>5, <1>7, <2>1, <2>2, <2>3 DEF c
<1>8. CASE SourceUnavailable(w) \/ FailIndex(w)
  <2>1. PICK s \in {"source_unavailable", "failed"} : doc' = [doc EXCEPT !.status = s] /\ objects' = objects
    BY <1>8 DEF SourceUnavailable, FailIndex, IndexEnds
  <2>2. doc' \in DocRow /\ SameRow(doc', doc) /\ doc'.status = s
    BY <1>2, <2>1 DEF DocRow, DocStatus, SameRow
  <2> QED
    BY <1>1, <1>2, <1>5, <2>1, <2>2 DEF SameRow, StoreTypes
<1>9. \/ IndexDocument(w) /\ doc' = row /\ objects' = objects
      \/ IndexDocument(w) /\ doc' = Ingest(row, c) /\ objects' = objects \cup {<<doc.id, c>>}
      \/ SourceUnavailable(w) \/ FailIndex(w)
  BY DEF IndexDocument, IndexEnds
<1> QED
  BY <1>6, <1>7, <1>8, <1>9

\* Time and the boot of a worker act on jobs only.
LEMMA JobShape ==
  ASSUME BaseInv, JobLeaseExpires \/ ReconcileStaleDocumentJobs
  PROVE  /\ BaseInv'
         /\ UNCHANGED <<doc, docWorker, rowHolder, upload, objects, cited, purge, purging, cleaning, overtaken, restored>>
<1>1. StoreTypes
  BY DEF BaseInv
<1>2. UNCHANGED <<doc, docWorker, rowHolder, upload, objects, cited, purge, purging, cleaning, overtaken, restored>>
  BY DEF JobLeaseExpires, ReconcileStaleDocumentJobs
<1>3. CASE JobLeaseExpires
  <2>1. PICK d \in DocIds : job[d].status = "running" /\ job' = [job EXCEPT ![d].leased = FALSE]
    BY <1>3 DEF JobLeaseExpires
  <2> DEFINE row == [job[d] EXCEPT !.leased = FALSE]
  <2>2. row \in JobRow /\ row.status = "running" /\ job' = [job EXCEPT ![d] = row]
    <3>1. job \in [DocIds -> JobRow] /\ job[d] \in JobRow
      BY <1>1 DEF StoreTypes
    <3> QED
      BY <2>1, <3>1 DEF JobRow
  <2> HIDE DEF row
  <2>3. JobsMove
    BY <1>1, <2>2, JobStaysKnown
  <2> QED
    BY <1>1, <1>2, <2>3, RowStays DEF StoreTypes
<1>4. CASE ReconcileStaleDocumentJobs
  <2>1. job' = [d \in DocIds |-> IF DocJobExpired(d) THEN [job[d] EXCEPT !.status = "queued"] ELSE job[d]]
    BY <1>4 DEF ReconcileStaleDocumentJobs
  <2>2. ASSUME NEW d \in DocIds PROVE job'[d] \in JobRow /\ (KnownDoc(d) => job'[d].status # "none")
    BY <1>1, <2>1 DEF StoreTypes, JobRow, KnownDoc
  <2>3. JobsMove
    BY <2>1, <2>2 DEF JobsMove, KnownDoc
  <2> QED
    BY <1>1, <1>2, <2>3, RowStays DEF StoreTypes
<1> QED
  BY <1>2, <1>3, <1>4

LEMMA ProposeShape ==
  ASSUME BaseInv, ProposeDocumentPurge
  PROVE  /\ BaseInv' /\ HasDoc /\ purge[doc.id].status = "none" /\ purge \in [DocIds -> PurgeRow]
         /\ \A d \in DocIds \ {doc.id} : purge'[d] = purge[d]
         /\ purge'[doc.id].status = "proposed" /\ purge'[doc.id].seen = doc
<1>1. StoreTypes /\ HasDoc /\ doc \in DocRow /\ doc.id \in DocIds /\ KnownDoc(doc.id)
  BY DocumentTypes DEF BaseInv, KnownIncarnations, ProposeDocumentPurge, HasDoc
<1> DEFINE m == [NoPurge EXCEPT !.status = "proposed", !.seen = doc]
<1>2. m \in PurgeRow /\ m.status = "proposed" /\ m.seen = doc
  BY <1>1 DEF PurgeRow, NoPurge, PurgeStatus, DocStatus
<1>3. purge' = [purge EXCEPT ![doc.id] = m] /\ UNCHANGED <<doc, job, docWorker, upload, objects, cited, purging>>
      /\ purge[doc.id].status = "none" /\ purge \in [DocIds -> PurgeRow]
  BY <1>1 DEF ProposeDocumentPurge, StoreTypes
<1> HIDE DEF m
<1>4. /\ purge' \in [DocIds -> PurgeRow] /\ \A d \in DocIds \ {doc.id} : purge'[d] = purge[d]
      /\ purge'[doc.id] = m
  BY <1>1, <1>2, <1>3
<1>5. \A d \in DocIds : purge'[d].status # "none" => purge[d].status # "none" \/ KnownDoc(d)
  BY <1>1, <1>4
<1>6. BaseInv'
  BY <1>1, <1>3, <1>4, <1>5, JobsStay, RowStays DEF StoreTypes
<1> QED
  BY <1>1, <1>2, <1>3, <1>4, <1>6

LEMMA AuthorizeShape ==
  ASSUME BaseInv, AuthorizeDocumentPurge
  PROVE  /\ BaseInv' /\ HasDoc /\ purge \in [DocIds -> PurgeRow] /\ purge[doc.id].status = "proposed"
         /\ SameRow(doc', doc) /\ doc'.chunks = doc.chunks /\ doc'.status = "purge_quarantined"
         /\ \A d \in DocIds \ {doc.id} : purge'[d] = purge[d]
         /\ purge'[doc.id].status = "quarantined" /\ purge'[doc.id].held = doc.status
         /\ purge'[doc.id].seen = purge[doc.id].seen
<1>1. StoreTypes /\ HasDoc /\ doc \in DocRow /\ doc.id \in DocIds /\ KnownDoc(doc.id) /\ purge[doc.id] \in PurgeRow
      /\ doc.sha \in Contents /\ doc.status \in DocStatus
  BY DocumentTypes DEF BaseInv, KnownIncarnations, AuthorizeDocumentPurge, HasDoc, StoreTypes
<1> DEFINE m == [purge[doc.id] EXCEPT !.status = "quarantined", !.held = doc.status]
<1>2. m \in PurgeRow /\ m.status = "quarantined" /\ m.held = doc.status /\ m.seen = purge[doc.id].seen
  BY <1>1 DEF PurgeRow, PurgeStatus
<1>3. purge' = [purge EXCEPT ![doc.id] = m] /\ UNCHANGED <<job, docWorker, upload, objects, cited, purging>>
      /\ purge \in [DocIds -> PurgeRow] /\ purge[doc.id].status = "proposed"
      /\ doc' = [doc EXCEPT !.status = "purge_quarantined"]
  BY <1>1 DEF AuthorizeDocumentPurge, StoreTypes
<1> HIDE DEF m
<1>4. /\ purge' \in [DocIds -> PurgeRow] /\ \A d \in DocIds \ {doc.id} : purge'[d] = purge[d]
      /\ purge'[doc.id] = m
  BY <1>1, <1>2, <1>3
<1>5. doc' \in DocRow /\ SameRow(doc', doc) /\ doc'.chunks = doc.chunks /\ doc'.status = "purge_quarantined"
  BY <1>1, <1>3 DEF DocRow, DocStatus, SameRow
<1>6. \A d \in DocIds : purge'[d].status # "none" => purge[d].status # "none" \/ KnownDoc(d)
  BY <1>1, <1>4
<1>7. BaseInv'
  BY <1>1, <1>3, <1>4, <1>5, <1>6, JobsStay, RowMoves DEF StoreTypes, SameRow
<1> QED
  BY <1>1, <1>2, <1>3, <1>4, <1>5, <1>7

LEMMA CancelShape ==
  ASSUME BaseInv, CancelDocumentPurge
  PROVE  /\ BaseInv' /\ HasDoc /\ purge \in [DocIds -> PurgeRow]
         /\ purge[doc.id].status \in {"proposed", "quarantined"}
         /\ SameRow(doc', doc) /\ doc'.chunks = doc.chunks
         /\ doc'.status = IF purge[doc.id].status = "quarantined" /\ doc.status = "purge_quarantined"
                          THEN purge[doc.id].seen.status ELSE doc.status
         /\ \A d \in DocIds \ {doc.id} : purge'[d] = purge[d]
         /\ purge'[doc.id].status = "none"
<1>1. StoreTypes /\ HasDoc /\ doc \in DocRow /\ doc.id \in DocIds /\ purge[doc.id] \in PurgeRow
      /\ doc.sha \in Contents /\ purge[doc.id].seen.status \in DocStatus
  BY DocumentTypes DEF BaseInv, CancelDocumentPurge, HasDoc, StoreTypes, PurgeRow, DocRow
<1>2. NoPurge \in PurgeRow /\ NoPurge.status = "none"
  BY NoDocument DEF PurgeRow, NoPurge, PurgeStatus, DocStatus
<1>3. purge' = [purge EXCEPT ![doc.id] = NoPurge] /\ UNCHANGED <<job, docWorker, upload, objects, cited, purging>>
      /\ purge \in [DocIds -> PurgeRow] /\ purge[doc.id].status \in {"proposed", "quarantined"}
  BY <1>1 DEF CancelDocumentPurge, StoreTypes
<1>4. /\ purge' \in [DocIds -> PurgeRow] /\ \A d \in DocIds \ {doc.id} : purge'[d] = purge[d]
      /\ purge'[doc.id] = NoPurge
  BY <1>1, <1>2, <1>3
<1>5. /\ doc' \in DocRow /\ SameRow(doc', doc) /\ doc'.chunks = doc.chunks
      /\ doc'.status = IF purge[doc.id].status = "quarantined" /\ doc.status = "purge_quarantined"
                       THEN purge[doc.id].seen.status ELSE doc.status
  BY <1>1 DEF CancelDocumentPurge, DocRow, SameRow
<1>6. \A d \in DocIds : purge'[d].status # "none" => purge[d].status # "none" \/ KnownDoc(d)
  BY <1>1, <1>2, <1>3, <1>4
<1>7. BaseInv'
  BY <1>1, <1>3, <1>4, <1>5, <1>6, JobsStay, RowMoves DEF StoreTypes, SameRow
<1> QED
  BY <1>1, <1>2, <1>3, <1>4, <1>5, <1>7

LEMMA TargetTypes ==
  ASSUME NEW row \in DocRow, row.sha \in Contents
  PROVE  /\ PurgeTargets(row) \subseteq ObjectKeys
         /\ PurgeTargets(row) = {<<row.id, c>> : c \in row.versions} \cup {UploadKey(row.sha)}
BY DocumentStoreAssumption DEF PurgeTargets, ObjectKeys, UploadKey, DocRow

LEMMA PurgeDatabaseShape ==
  ASSUME BaseInv, PurgeDatabase
  PROVE  /\ BaseInv' /\ HasDoc /\ doc' = NoDoc /\ purge \in [DocIds -> PurgeRow]
         /\ purge[doc.id].status = "quarantined"
         /\ \A d \in DocIds \ {doc.id} : purge'[d] = purge[d]
         /\ purge'[doc.id].status = "database_purged" /\ purge'[doc.id].seen = purge[doc.id].seen
         /\ purging'.doc = doc.id /\ purging'.todo = PurgeTargets(doc) /\ purging'.missed = FALSE
<1>1. StoreTypes /\ HasDoc /\ doc \in DocRow /\ doc.id \in DocIds /\ purge[doc.id] \in PurgeRow
      /\ doc.sha \in Contents /\ job[doc.id] \in JobRow
  BY DocumentTypes DEF BaseInv, PurgeDatabase, HasDoc, StoreTypes
<1> DEFINE m == [purge[doc.id] EXCEPT !.status = "database_purged"]
           row == [job[doc.id] EXCEPT !.status = "deleted"]
<1>2. m \in PurgeRow /\ m.status = "database_purged" /\ m.seen = purge[doc.id].seen
  BY <1>1 DEF PurgeRow, PurgeStatus
<1>3. row \in JobRow /\ row.status = "deleted"
  BY <1>1 DEF JobRow
<1>4. /\ purge' = [purge EXCEPT ![doc.id] = m] /\ job' = [job EXCEPT ![doc.id] = row]
      /\ UNCHANGED <<docWorker, upload, objects, cited>> /\ doc' = NoDoc
      /\ purge \in [DocIds -> PurgeRow] /\ purge[doc.id].status = "quarantined"
      /\ purging' = [doc |-> doc.id, todo |-> PurgeTargets(doc), missed |-> FALSE]
  BY <1>1 DEF PurgeDatabase, StoreTypes
<1> HIDE DEF m, row
<1>5. /\ purge' \in [DocIds -> PurgeRow] /\ \A d \in DocIds \ {doc.id} : purge'[d] = purge[d]
      /\ purge'[doc.id] = m
  BY <1>1, <1>2, <1>4
<1>6. \A d \in DocIds : purge'[d].status # "none" => purge[d].status # "none" \/ KnownDoc(d)
  BY <1>1, <1>4, <1>5
<1>7. purging' \in [doc : 0..MaxDocs, todo : SUBSET ObjectKeys, missed : BOOLEAN]
  BY <1>1, <1>4, TargetTypes DEF DocRow
<1>8. doc' \in DocRow /\ (doc' = NoDoc) /\ ~HasDoc'
  BY <1>4, NoDocument DEF HasDoc
<1>9. BaseInv'
  BY <1>1, <1>3, <1>4, <1>5, <1>6, <1>7, <1>8, JobStaysKnown, BaseMoves DEF StoreTypes
<1> QED
  BY <1>1, <1>2, <1>4, <1>5, <1>9

LEMMA ResumeShape ==
  ASSUME BaseInv, ResumePurge, \A d \in DocIds : purge[d].status # "none" => purge[d].seen.sha \in Contents
  PROVE  /\ BaseInv' /\ purge \in [DocIds -> PurgeRow]
         /\ \E d \in DocIds :
              /\ purge[d].status \in PurgeDecided
              /\ \A e \in DocIds \ {d} : purge'[e] = purge[e]
              /\ purge'[d].status = "object_cleanup_pending" /\ purge'[d].seen = purge[d].seen
              /\ purging'.doc = d /\ purging'.todo = PurgeTargets(purge[d].seen) /\ purging'.missed = FALSE
<1>1. StoreTypes
  BY DEF BaseInv
<1>2. PICK d \in DocIds :
         /\ purge[d].status \in PurgeDecided
         /\ purge' = [purge EXCEPT ![d].status = "object_cleanup_pending"]
         /\ purging' = [doc |-> d, todo |-> PurgeTargets(purge[d].seen), missed |-> FALSE]
  BY DEF ResumePurge, PurgeDecided
<1>3. purge \in [DocIds -> PurgeRow] /\ purge[d] \in PurgeRow /\ purge[d].seen \in DocRow /\ purge[d].seen.sha \in Contents
      /\ UNCHANGED <<doc, job, docWorker, upload, objects, cited>>
  BY <1>1, <1>2 DEF StoreTypes, PurgeRow, PurgeDecided, ResumePurge
<1> DEFINE m == [purge[d] EXCEPT !.status = "object_cleanup_pending"]
<1>4. m \in PurgeRow /\ m.status = "object_cleanup_pending" /\ m.seen = purge[d].seen
      /\ purge' = [purge EXCEPT ![d] = m]
  BY <1>2, <1>3 DEF PurgeRow, PurgeStatus
<1> HIDE DEF m
<1>5. /\ purge' \in [DocIds -> PurgeRow] /\ \A e \in DocIds \ {d} : purge'[e] = purge[e]
      /\ purge'[d] = m
  BY <1>3, <1>4
<1>6. \A e \in DocIds : purge'[e].status # "none" => purge[e].status # "none" \/ KnownDoc(e)
  BY <1>2, <1>5 DEF PurgeDecided
<1>7. purging' \in [doc : 0..MaxDocs, todo : SUBSET ObjectKeys, missed : BOOLEAN]
  BY <1>2, <1>3, TargetTypes, DocumentStoreAssumption DEF DocIds
<1>8. (doc = NoDoc \/ (HasDoc' /\ doc'.sha \in Contents)) /\ (HasDoc' => doc'.id = doc.id)
  BY <1>1, <1>3 DEF StoreTypes, HasDoc
<1>9. BaseInv'
  BY <1>1, <1>3, <1>5, <1>6, <1>7, <1>8, JobsStay, BaseMoves DEF StoreTypes
<1> QED
  BY <1>2, <1>3, <1>4, <1>5, <1>9

\* The rest of a reconciliation: objects and the operation, one after the other.
LEMMA ReconcilerShape ==
  ASSUME BaseInv, UNCHANGED <<doc, job, docWorker, upload, cited>>, objects' \subseteq objects,
         purging' \in [doc : 0..MaxDocs, todo : SUBSET ObjectKeys, missed : BOOLEAN],
         purge' \in [DocIds -> PurgeRow],
         \A d \in DocIds : purge'[d].status # "none" => purge[d].status # "none"
  PROVE  BaseInv'
<1>1. StoreTypes
  BY DEF BaseInv
<1>2. (doc = NoDoc \/ (HasDoc' /\ doc'.sha \in Contents)) /\ (HasDoc' => doc'.id = doc.id)
  BY <1>1 DEF StoreTypes, HasDoc
<1> QED
  BY <1>1, <1>2, JobsStay, BaseMoves DEF StoreTypes

LEMMA PurgeObjectShape ==
  ASSUME BaseInv, PurgeObject
  PROVE  /\ BaseInv'
         /\ \E k \in purging.todo :
              /\ purging'.doc = purging.doc /\ purging'.todo = purging.todo \ {k}
              /\ \/ objects' = objects \ {k} /\ purging'.missed = purging.missed
                 \/ objects' \in {objects, objects \ {k}} /\ purging'.missed = TRUE
<1>1. PICK k \in purging.todo :
        \/ objects' = objects \ {k} /\ purging' = [purging EXCEPT !.todo = @ \ {k}]
        \/ objects' \in {objects, objects \ {k}} /\ purging' = [purging EXCEPT !.todo = @ \ {k}, !.missed = TRUE]
  BY DEF PurgeObject
<1>2. UNCHANGED <<doc, job, docWorker, upload, cited, purge>>
  BY DEF PurgeObject
<1>3. /\ purging' \in [doc : 0..MaxDocs, todo : SUBSET ObjectKeys, missed : BOOLEAN]
      /\ purging'.doc = purging.doc /\ purging'.todo = purging.todo \ {k}
      /\ \/ objects' = objects \ {k} /\ purging'.missed = purging.missed
         \/ objects' \in {objects, objects \ {k}} /\ purging'.missed = TRUE
  BY <1>1 DEF BaseInv, StoreTypes
<1>4. objects' \subseteq objects
  BY <1>3
<1> QED
  BY <1>2, <1>3, <1>4, ReconcilerShape DEF BaseInv, StoreTypes

LEMMA CompleteShape ==
  ASSUME BaseInv, CompletePurge, purge[purging.doc].status # "none"
  PROVE  /\ BaseInv' /\ purge \in [DocIds -> PurgeRow] /\ purging.doc \in DocIds /\ purging' = NotPurging
         /\ \A d \in DocIds \ {purging.doc} : purge'[d] = purge[d]
         /\ purge'[purging.doc].seen = purge[purging.doc].seen
         /\ purge'[purging.doc].status = IF purging.missed THEN "object_cleanup_pending" ELSE "completed"
<1>1. StoreTypes /\ purging.doc \in DocIds /\ UNCHANGED <<doc, job, docWorker, upload, objects, cited>>
  BY DocumentStoreAssumption DEF BaseInv, StoreTypes, CompletePurge, DocIds
<1>2. purge \in [DocIds -> PurgeRow] /\ purge[purging.doc] \in PurgeRow
  BY <1>1 DEF StoreTypes
<1>3. PICK s \in {"object_cleanup_pending", "completed"} :
        /\ s = IF purging.missed THEN "object_cleanup_pending" ELSE "completed"
        /\ purge' = [purge EXCEPT ![purging.doc].status = s]
  BY DEF CompletePurge
<1> DEFINE m == [purge[purging.doc] EXCEPT !.status = s]
<1>4. m \in PurgeRow /\ m.status = s /\ m.seen = purge[purging.doc].seen /\ purge' = [purge EXCEPT ![purging.doc] = m]
  BY <1>2, <1>3 DEF PurgeRow, PurgeStatus
<1> HIDE DEF m
<1>5. /\ purge' \in [DocIds -> PurgeRow] /\ \A d \in DocIds \ {purging.doc} : purge'[d] = purge[d]
      /\ purge'[purging.doc] = m
  BY <1>1, <1>2, <1>4
<1>6. purging' = NotPurging /\ NotPurging \in [doc : 0..MaxDocs, todo : SUBSET ObjectKeys, missed : BOOLEAN]
  BY DocumentStoreAssumption DEF CompletePurge, NotPurging
<1>7. BaseInv'
  BY <1>1, <1>2, <1>5, <1>6, ReconcilerShape
<1> QED
  BY <1>1, <1>2, <1>3, <1>4, <1>5, <1>6, <1>7

LEMMA ReconcilerDies ==
  ASSUME BaseInv, PurgeCrash PROVE BaseInv' /\ purging' = NotPurging
<1>1. NotPurging \in [doc : 0..MaxDocs, todo : SUBSET ObjectKeys, missed : BOOLEAN]
  BY DocumentStoreAssumption DEF NotPurging
<1> QED
  BY <1>1, ReconcilerShape DEF PurgeCrash, BaseInv, StoreTypes

LEMMA CleanupShape ==
  ASSUME BaseInv, ProposeObjectCleanup \/ AuthorizeObjectCleanup \/ DeleteOrphan
  PROVE  /\ BaseInv' /\ objects' \subseteq objects
         /\ UNCHANGED <<doc, docWorker, rowHolder, upload, cited, purge, purging, overtaken>>
<1>1. /\ UNCHANGED <<doc, job, docWorker, rowHolder, upload, cited, purge, purging, overtaken>>
      /\ objects' \subseteq objects
  BY DEF ProposeObjectCleanup, AuthorizeObjectCleanup, DeleteOrphan
<1> QED
  BY <1>1, ReconcilerShape DEF BaseInv, StoreTypes

-----------------------------------------------------------------------------
\* The legacy chunks.
LEMMA IndexInvInit == ASSUME DocumentsInit PROVE IndexInv
<1>1. StoreTypes
  <2>1. NoJob \in JobRow /\ Resting \in IndexMemory /\ NoPurge \in PurgeRow /\ NoUpload \in Uploads
        /\ NotPurging \in [doc : 0..MaxDocs, todo : SUBSET ObjectKeys, missed : BOOLEAN]
    BY NoDocument, DocumentStoreAssumption DEF NoJob, JobRow, Resting, IndexMemory, NoPurge, PurgeRow, PurgeStatus,
      DocStatus, Uploads, NotPurging, Bytes
  <2> QED
    BY <2>1, NoDocument DEF DocumentsInit, StoreTypes
<1>2. KnownIncarnations
  BY NoDocument DEF DocumentsInit, KnownIncarnations, HasDoc, Resting, NoPurge
<1>3. IndexesAlone
  BY DEF DocumentsInit, IndexesAlone, Resting
<1>4. QuarantineHolds /\ ServesItsContent
  BY NoDocument DEF DocumentsInit, QuarantineHolds, HasDoc, NoPurge, ServesItsContent
<1> QED
  BY <1>1, <1>2, <1>3, <1>4 DEF IndexInv, BaseInv

\* Nothing that the indexers rely on moves.
LEMMA IndexersStay ==
  ASSUME IndexesAlone, doc'.id = doc.id, doc'.sha = doc.sha, UNCHANGED <<docWorker, rowHolder>>,
         overtaken => overtaken'
  PROVE  IndexesAlone'
BY DEF IndexesAlone

\* A worker gives up the row or does not want it.
LEMMA IndexerLeaves ==
  ASSUME BaseInv, IndexesAlone, doc'.id = doc.id, doc'.sha = doc.sha, overtaken' = overtaken,
         NEW w \in IndexWorkers, NEW m, m.at \notin {"read", "locked"}, docWorker' = [docWorker EXCEPT ![w] = m],
         rowHolder' = rowHolder \/ docWorker[w].at = "locked" \/ rowHolder' = rowHolder \ {w}
  PROVE  IndexesAlone'
<1>1. docWorker'[w] = m /\ \A v \in IndexWorkers \ {w} : docWorker'[v] = docWorker[v]
  BY DEF BaseInv, StoreTypes
<1>2. ASSUME NEW v \in IndexWorkers \ {w}, docWorker[v].at = "locked" PROVE rowHolder' = {v}
  BY <1>2 DEF IndexesAlone
<1> QED
  BY <1>1, <1>2 DEF IndexesAlone

\* The quarantine is lifted, or nothing touches it.
LEMMA QuarantineStays ==
  ASSUME QuarantineHolds, doc' = doc \/ doc'.status # "purge_quarantined", purge' = purge, overtaken => overtaken'
  PROVE  QuarantineHolds'
BY DEF QuarantineHolds, HasDoc

LEMMA UploadKeepsIndex ==
  ASSUME IndexInv, PutObject \/ CommitUpload \/ CommitFirstUpload \/ UploadFails
  PROVE  IndexInv'
<1>1. CASE PutObject \/ UploadFails
  <2>1. UNCHANGED <<doc, docWorker, rowHolder, purge, overtaken>>
    BY <1>1 DEF PutObject, UploadFails
  <2>2. BaseInv'
    BY <1>1, PutShape, UploadEndsShape DEF IndexInv
  <2> QED
    BY <2>1, <2>2, IndexersStay, QuarantineStays DEF IndexInv, ServesItsContent
<1>2. CASE CommitUpload
  <2>1. BaseInv' /\ HasDoc /\ doc'.id = doc.id /\ doc'.sha = upload.content /\ doc'.status = "queued"
    BY <1>2, CommitShape DEF IndexInv
  <2>2. UNCHANGED <<docWorker, rowHolder, purge>> /\ Unlocked
        /\ overtaken' = (overtaken \/ UploadOvertakes)
    BY <1>2 DEF CommitUpload
  <2>3. IndexesAlone'
    BY <2>1, <2>2 DEF IndexInv, IndexesAlone, Unlocked, UploadOvertakes
  <2> QED
    BY <2>1, <2>2, <2>3, QuarantineStays DEF IndexInv, ServesItsContent
<1>3. CASE CommitFirstUpload
  <2>1. BaseInv' /\ ~HasDoc /\ HasDoc' /\ ~KnownDoc(doc'.id) /\ doc'.status = "queued"
    BY <1>3, FirstShape DEF IndexInv
  <2>2. UNCHANGED <<docWorker, rowHolder, purge, overtaken>>
    BY <1>3 DEF CommitFirstUpload
  <2>3. \A w \in IndexWorkers : docWorker[w].at \in {"read", "locked"} => docWorker[w].doc # doc'.id
    BY <2>1 DEF IndexInv, BaseInv, KnownIncarnations
  <2>4. \A w \in IndexWorkers : docWorker[w].at # "locked"
    BY <2>1 DEF IndexInv, BaseInv, KnownIncarnations, IndexesAlone, HasDoc
  <2>5. IndexesAlone'
    BY <2>2, <2>3, <2>4 DEF IndexesAlone
  <2> QED
    BY <2>1, <2>2, <2>5, QuarantineStays DEF IndexInv, ServesItsContent
<1> QED
  BY <1>1, <1>2, <1>3

LEMMA PageKeepsIndex ==
  ASSUME IndexInv,
         UploadUnsupported \/ RetryDocument \/ ArchiveDocument \/ CiteCurrentVersion
  PROVE  IndexInv'
<1>1. CASE UploadUnsupported \/ RetryDocument \/ ArchiveDocument
  <2>1. /\ BaseInv' /\ SameRow(doc', doc) /\ doc'.status \notin {"active", "purge_quarantined"}
        /\ UNCHANGED <<docWorker, rowHolder, purge, overtaken>>
    BY <1>1, MarkShape DEF IndexInv
  <2> QED
    BY <2>1, IndexersStay, QuarantineStays DEF IndexInv, ServesItsContent, SameRow
<1>2. CASE CiteCurrentVersion
  <2>1. BaseInv' /\ UNCHANGED <<doc, docWorker, rowHolder, purge, overtaken>>
    BY <1>2, CiteShape DEF IndexInv, CiteCurrentVersion
  <2> QED
    BY <2>1, IndexersStay, QuarantineStays DEF IndexInv, ServesItsContent
<1> QED
  BY <1>1, <1>2

LEMMA WorkerKeepsIndex ==
  ASSUME IndexInv, NEW w \in IndexWorkers,
         \/ ClaimNextDocumentJob(w) \/ ReadDocument(w) \/ LockDocument(w) \/ IndexDocument(w)
         \/ SourceUnavailable(w) \/ FailIndex(w) \/ FinishJob(w) \/ WorkerCrash(w)
  PROVE  IndexInv'
<1>1. docWorker \in [IndexWorkers -> IndexMemory] /\ docWorker[w] \in IndexMemory /\ Resting.at = "idle"
      /\ IndexesAlone /\ QuarantineHolds /\ ServesItsContent /\ BaseInv
  BY DEF IndexInv, BaseInv, StoreTypes, Resting
<1>2. CASE ClaimNextDocumentJob(w) \/ ReadDocument(w) \/ LockDocument(w) \/ FinishJob(w) \/ WorkerCrash(w)
  <2>1. BaseInv' /\ UNCHANGED <<doc, purge, overtaken>>
    BY <1>1, <1>2, WorkerShape
  <2>2. SUFFICES IndexesAlone'
    BY <1>1, <2>1, QuarantineStays DEF IndexInv, ServesItsContent
  <2>3. ASSUME NEW m, m.at \notin {"read", "locked"}, docWorker' = [docWorker EXCEPT ![w] = m],
               rowHolder' = rowHolder \/ docWorker[w].at = "locked" \/ rowHolder' = rowHolder \ {w}
        PROVE  IndexesAlone'
    BY <1>1, <2>1, <2>3, IndexerLeaves
  <2>4. CASE ClaimNextDocumentJob(w)
    <3>1. PICK d \in DocIds :
            docWorker' = [docWorker EXCEPT ![w] = [Resting EXCEPT !.at = "claimed", !.doc = d, !.no = job[d].no]]
      BY <2>4 DEF ClaimNextDocumentJob
    <3> DEFINE m == [Resting EXCEPT !.at = "claimed", !.doc = d, !.no = job[d].no]
    <3>2. m.at = "claimed" /\ docWorker' = [docWorker EXCEPT ![w] = m] /\ rowHolder' = rowHolder
      BY <2>4, <3>1 DEF Resting, ClaimNextDocumentJob
    <3> HIDE DEF m
    <3> QED
      BY <2>3, <3>2
  <2>5. CASE ReadDocument(w)
    <3>1. /\ rowHolder' = rowHolder
          /\ \/ docWorker' = [docWorker EXCEPT ![w] = [docWorker[w] EXCEPT !.at = "finish"]]
             \/ docWorker' = [docWorker EXCEPT ![w] = [docWorker[w] EXCEPT !.at = "read", !.key = doc.sha]]
      BY <1>1, <2>5 DEF ReadDocument
    <3>2. CASE docWorker' = [docWorker EXCEPT ![w] = [docWorker[w] EXCEPT !.at = "finish"]]
      <4>1. [docWorker[w] EXCEPT !.at = "finish"].at = "finish"
        BY <1>1 DEF IndexMemory
      <4> QED
        BY <2>3, <3>1, <3>2, <4>1
    <3>3. CASE docWorker' = [docWorker EXCEPT ![w] = [docWorker[w] EXCEPT !.at = "read", !.key = doc.sha]]
      <4>1. /\ docWorker'[w].at = "read" /\ docWorker'[w].key = doc.sha
            /\ \A v \in IndexWorkers \ {w} : docWorker'[v] = docWorker[v]
        BY <1>1, <3>3 DEF IndexMemory
      <4> QED
        BY <1>1, <2>1, <3>1, <4>1 DEF IndexesAlone
    <3> QED
      BY <3>1, <3>2, <3>3
  <2>6. CASE LockDocument(w)
    <3>1. CASE doc.id = docWorker[w].doc
      <4>1. /\ docWorker'[w].at = "locked" /\ docWorker'[w].key = docWorker[w].key
            /\ docWorker'[w].doc = docWorker[w].doc /\ docWorker[w].at = "read"
            /\ \A v \in IndexWorkers \ {w} : docWorker'[v] = docWorker[v]
            /\ rowHolder = {} /\ rowHolder' = {w}
        BY <1>1, <2>6, <3>1 DEF LockDocument, Unlocked, IndexMemory
      <4> QED
        BY <1>1, <2>1, <3>1, <4>1 DEF IndexesAlone
    <3>2. CASE doc.id # docWorker[w].doc
      <4> DEFINE m == [docWorker[w] EXCEPT !.at = "finish"]
      <4>1. m.at = "finish" /\ docWorker' = [docWorker EXCEPT ![w] = m] /\ rowHolder' = rowHolder
        BY <1>1, <2>6, <3>2 DEF LockDocument, Unlocked, IndexMemory
      <4> HIDE DEF m
      <4> QED
        BY <2>3, <4>1
    <3> QED
      BY <3>1, <3>2
  <2>7. CASE FinishJob(w)
    BY <1>1, <2>3, <2>7 DEF FinishJob
  <2>8. CASE WorkerCrash(w)
    BY <1>1, <2>3, <2>8 DEF WorkerCrash
  <2> QED
    BY <1>2, <2>4, <2>5, <2>6, <2>7, <2>8
<1>3. CASE IndexDocument(w) \/ SourceUnavailable(w) \/ FailIndex(w)
  <2>1. doc.id = docWorker[w].doc /\ docWorker[w].at = "locked"
    BY <1>1, <1>3 DEF IndexesAlone, IndexDocument, SourceUnavailable, FailIndex, IndexEnds
  <2>2. /\ BaseInv' /\ doc'.id = doc.id /\ doc'.sha = doc.sha
        /\ docWorker' = [docWorker EXCEPT ![w].at = "finish"] /\ rowHolder' = {}
        /\ UNCHANGED <<purge, overtaken>>
        /\ doc'.status # "purge_quarantined" /\ (doc'.status = "active" => doc'.chunks = docWorker[w].key)
    BY <1>1, <1>3, <2>1, IndexEndsShape
  <2>3. docWorker[w].key = doc.sha \/ overtaken
    BY <1>1, <2>1 DEF IndexesAlone
  <2> DEFINE m == [docWorker[w] EXCEPT !.at = "finish"]
  <2>4. m.at = "finish" /\ docWorker' = [docWorker EXCEPT ![w] = m]
    BY <1>1, <2>2 DEF IndexMemory
  <2> HIDE DEF m
  <2>5. IndexesAlone'
    BY <1>1, <2>1, <2>2, <2>4, IndexerLeaves
  <2> QED
    BY <1>1, <2>2, <2>3, <2>5, QuarantineStays DEF IndexInv, ServesItsContent
<1> QED
  BY <1>2, <1>3

LEMMA PurgeKeepsIndex ==
  ASSUME IndexInv, ProposeDocumentPurge \/ AuthorizeDocumentPurge \/ CancelDocumentPurge \/ PurgeDatabase
  PROVE  IndexInv'
<1>1. IndexesAlone /\ QuarantineHolds /\ ServesItsContent /\ BaseInv
  BY DEF IndexInv
<1>2. CASE ProposeDocumentPurge
  <2>1. /\ BaseInv' /\ HasDoc /\ purge[doc.id].status = "none"
        /\ \A d \in DocIds \ {doc.id} : purge'[d] = purge[d]
        /\ purge'[doc.id].status = "proposed" /\ purge'[doc.id].seen = doc
        /\ UNCHANGED <<doc, docWorker, rowHolder, overtaken>>
    BY <1>1, <1>2, ProposeShape DEF ProposeDocumentPurge
  <2>2. QuarantineHolds'
    BY <1>1, <2>1 DEF QuarantineHolds, HasDoc
  <2> QED
    BY <1>1, <2>1, <2>2, IndexersStay DEF IndexInv, ServesItsContent
<1>3. CASE AuthorizeDocumentPurge
  <2>1. /\ BaseInv' /\ HasDoc /\ purge[doc.id].status = "proposed"
        /\ SameRow(doc', doc) /\ doc'.chunks = doc.chunks /\ doc'.status = "purge_quarantined"
        /\ \A d \in DocIds \ {doc.id} : purge'[d] = purge[d]
        /\ purge'[doc.id].status = "quarantined" /\ purge'[doc.id].held = doc.status
        /\ purge'[doc.id].seen = purge[doc.id].seen
    BY <1>1, <1>3, AuthorizeShape
  <2>2. UNCHANGED <<docWorker, rowHolder, overtaken>>
    BY <1>3 DEF AuthorizeDocumentPurge
  <2>3. QuarantineHolds'
    BY <1>1, <2>1, <2>2 DEF QuarantineHolds, HasDoc, ServesItsContent, SameRow
  <2> QED
    BY <1>1, <2>1, <2>2, <2>3, IndexersStay DEF IndexInv, ServesItsContent, SameRow
<1>4. CASE CancelDocumentPurge
  <2>1. /\ BaseInv' /\ HasDoc /\ purge[doc.id].status \in {"proposed", "quarantined"}
        /\ SameRow(doc', doc) /\ doc'.chunks = doc.chunks
        /\ doc'.status = IF purge[doc.id].status = "quarantined" /\ doc.status = "purge_quarantined"
                         THEN purge[doc.id].seen.status ELSE doc.status
        /\ \A d \in DocIds \ {doc.id} : purge'[d] = purge[d]
        /\ purge'[doc.id].status = "none"
    BY <1>1, <1>4, CancelShape
  <2>2. /\ UNCHANGED <<docWorker, rowHolder>>
        /\ overtaken' = (overtaken \/ /\ doc.status = "purge_quarantined"
                                      /\ purge[doc.id].held # purge[doc.id].seen.status)
    BY <1>4 DEF CancelDocumentPurge
  <2>3. doc'.status # "purge_quarantined"
    BY <1>1, <2>1 DEF QuarantineHolds, HasDoc
  <2>4. QuarantineHolds'
    BY <1>1, <2>1, <2>3 DEF QuarantineHolds, HasDoc, SameRow
  <2>5. ServesItsContent'
    BY <1>1, <2>1, <2>2 DEF QuarantineHolds, ServesItsContent, SameRow
  <2> QED
    BY <1>1, <2>1, <2>2, <2>4, <2>5, IndexersStay DEF IndexInv, SameRow
<1>5. CASE PurgeDatabase
  <2>1. /\ BaseInv' /\ HasDoc /\ doc' = NoDoc
        /\ \A d \in DocIds \ {doc.id} : purge'[d] = purge[d]
        /\ purge'[doc.id].status = "database_purged"
    BY <1>1, <1>5, PurgeDatabaseShape
  <2>2. UNCHANGED <<docWorker, rowHolder, overtaken>> /\ Unlocked
    BY <1>5 DEF PurgeDatabase
  <2>3. doc'.status = "none" /\ doc'.id = 0 /\ ~HasDoc'
    BY <2>1, NoDocument DEF HasDoc
  <2>4. IndexesAlone'
    BY <1>1, <2>2, <2>3, NoDocument DEF IndexesAlone, Unlocked, BaseInv, KnownIncarnations
  <2>5. QuarantineHolds'
    BY <1>1, <2>1, <2>3 DEF QuarantineHolds, HasDoc
  <2> QED
    BY <2>1, <2>3, <2>4, <2>5 DEF IndexInv, ServesItsContent
<1> QED
  BY <1>2, <1>3, <1>4, <1>5

\* A purge whose rows are gone, and a cleanup, touch no row.
LEMMA DeletionKeepsIndex ==
  ASSUME IndexInv, BaseInv', UNCHANGED <<doc, docWorker, rowHolder, overtaken>>, purge' = purge \/
         (\E d \in DocIds : /\ purge[d].status \in PurgeDecided /\ purge'[d].status \notin {"proposed", "quarantined"}
                            /\ \A e \in DocIds \ {d} : purge'[e] = purge[e])
  PROVE  IndexInv'
<1>1. QuarantineHolds'
  BY DEF IndexInv, QuarantineHolds, HasDoc, PurgeDecided
<1> QED
  BY <1>1, IndexersStay DEF IndexInv, ServesItsContent

LEMMA StoreInvInit == ASSUME DocumentsInit PROVE StoreInv
<1>1. IndexInv
  BY IndexInvInit
<1> QED
  BY <1>1, NoDocument, DocumentStoreAssumption DEF DocumentsInit, StoreInv, PurgedIsGone, BytesAreSafe, VersionsAreStored,
     CitedStands, PurgedIsDeleted, NoPurge, NotPurging, HasDoc, NoUpload, PurgeDecided

\* Rows keep what they name, and no object goes.
LEMMA StoreStays ==
  ASSUME StoreInv, IndexInv', doc'.id = doc.id, doc'.sha = doc.sha, doc'.versions = doc.versions,
         doc'.current = doc.current,
         UNCHANGED <<upload, objects, cited, purge, purging, cleaning, restored>>
  PROVE  StoreInv'
<1>1. PurgedIsGone' /\ VersionsAreStored' /\ CitedStands' /\ PurgedIsDeleted'
  BY DEF StoreInv, PurgedIsGone, VersionsAreStored, CitedStands, PurgedIsDeleted
<1>2. BytesAreSafe'
  BY DEF StoreInv, BytesAreSafe, Safe, DeletionDecided, HasDoc
<1> QED
  BY <1>1, <1>2 DEF StoreInv

LEMMA PurgeTypes ==
  ASSUME BaseInv
  PROVE  /\ purging.doc # 0 => purging.doc \in DocIds
         /\ \A d \in DocIds : purge[d].seen \in DocRow /\ purge[d].seen.versions \subseteq Contents
<1>1. /\ purging \in [doc : 0..MaxDocs, todo : SUBSET ObjectKeys, missed : BOOLEAN]
      /\ purge \in [DocIds -> PurgeRow]
  BY DEF BaseInv, StoreTypes
<1>2. purging.doc # 0 => purging.doc \in DocIds
  BY <1>1, DocumentStoreAssumption DEF DocIds
<1>3. \A d \in DocIds : purge[d].seen \in DocRow
  BY <1>1 DEF PurgeRow
<1>4. \A d \in DocIds : purge[d].seen.versions \subseteq Contents
  BY <1>3 DEF DocRow
<1> QED
  BY <1>2, <1>3, <1>4

\* Of the keys that were stored again, a last look forgets one upload key at most.
LEMMA LookedAgain ==
  ASSUME NEW c
  PROVE  /\ \A b : UploadKey(b) \in StoredSince(c) <=> IF b = c THEN upload.content = c ELSE UploadKey(b) \in restored
         /\ \A d \in DocIds, b \in Contents : <<d, b>> \in StoredSince(c) <=> <<d, b>> \in restored
BY NoDocument DEF StoredSince, UploadKey

LEMMA UploadKeepsStore ==
  ASSUME StoreInv, IndexInv', PutObject \/ CommitUpload \/ CommitFirstUpload \/ UploadFails
  PROVE  StoreInv'
<1>1. BaseInv /\ PurgedIsGone /\ BytesAreSafe /\ VersionsAreStored /\ CitedStands /\ PurgedIsDeleted
  BY DEF StoreInv, IndexInv
<1>2. CASE PutObject
  <2>1. PICK c \in Contents :
          /\ objects' = objects \cup {UploadKey(c)} /\ upload' = [content |-> c, prior |-> doc.id]
          /\ restored' = IF DeletionDecided(c) THEN restored \cup {UploadKey(c)} ELSE restored
    BY <1>2 DEF PutObject
  <2>2. UNCHANGED <<doc, cited, purge, purging, cleaning>>
    BY <1>2 DEF PutObject
  <2>3. BytesAreSafe'
    BY <1>1, <2>1, <2>2 DEF BytesAreSafe, Safe, DeletionDecided, HasDoc
  <2>4. \A d \in DocIds, b \in Contents : <<d, b>> \in objects' => <<d, b>> \in objects
    BY <2>1, NoDocument DEF UploadKey
  <2>5. PurgedIsDeleted'
    <3>1. restored \subseteq restored'
      BY <2>1
    <3>2. \A d \in DocIds, b \in Contents : <<d, b>> \in objects' \ restored' => <<d, b>> \in objects \ restored
      BY <2>4, <3>1
    <3> QED
      BY <1>1, <2>2, <3>2, PurgeTypes DEF PurgedIsDeleted
  <2> QED
    BY <1>1, <2>1, <2>2, <2>3, <2>5 DEF StoreInv, PurgedIsGone, VersionsAreStored, CitedStands
<1>3. CASE CommitUpload
  <2>1. /\ HasDoc /\ upload.content \in Contents /\ upload'.content \notin Contents
        /\ doc'.id = doc.id /\ doc'.sha = upload.content
        /\ doc'.versions = doc.versions /\ doc'.current = doc.current
    BY <1>1, <1>3, CommitShape
  <2>2. UNCHANGED <<objects, cited, purge, purging, cleaning, restored>>
    BY <1>3 DEF CommitUpload
  <2>3. BytesAreSafe'
    BY <1>1, <2>1, <2>2 DEF BytesAreSafe, Safe, DeletionDecided
  <2> QED
    BY <1>1, <2>1, <2>2, <2>3 DEF StoreInv, PurgedIsGone, VersionsAreStored, CitedStands, PurgedIsDeleted
<1>4. CASE CommitFirstUpload
  <2>1. /\ ~HasDoc /\ HasDoc' /\ upload.content \in Contents /\ upload'.content \notin Contents
        /\ ~KnownDoc(doc'.id) /\ doc'.sha = upload.content /\ doc'.versions = {} /\ doc'.current = NoContent
    BY <1>1, <1>4, FirstShape
  <2>2. UNCHANGED <<objects, cited, purge, purging, cleaning, restored>>
    BY <1>4 DEF CommitFirstUpload
  <2>3. BytesAreSafe'
    BY <1>1, <2>1, <2>2 DEF BytesAreSafe, Safe, DeletionDecided
  <2>4. cited = {}
    <3>1. cited \subseteq DocIds \X Contents
      BY <1>1 DEF BaseInv, StoreTypes
    <3>2. \A v \in cited : v[1] \in DocIds /\ doc.id = v[1]
      BY <1>1, <3>1 DEF CitedStands
    <3> QED
      BY <2>1, <3>2 DEF HasDoc
  <2>5. PurgedIsGone'
    BY <1>1, <2>1, <2>2 DEF PurgedIsGone, BaseInv, KnownIncarnations, PurgeDecided
  <2> QED
    BY <1>1, <2>1, <2>2, <2>3, <2>4, <2>5 DEF StoreInv, VersionsAreStored, CitedStands, PurgedIsDeleted
<1>5. CASE UploadFails
  <2>1. upload'.content \notin Contents /\ UNCHANGED <<doc, objects, cited, purge, purging, cleaning, restored>>
    BY <1>1, <1>5, UploadEndsShape DEF UploadFails
  <2>2. BytesAreSafe'
    BY <1>1, <2>1 DEF BytesAreSafe, Safe, DeletionDecided, HasDoc
  <2> QED
    BY <1>1, <2>1, <2>2 DEF StoreInv, PurgedIsGone, VersionsAreStored, CitedStands, PurgedIsDeleted
<1> QED
  BY <1>2, <1>3, <1>4, <1>5

\* A version is added with its object.
LEMMA VersionKeepsStore ==
  ASSUME StoreInv, IndexInv', HasDoc, doc'.id = doc.id, doc'.sha = doc.sha, NEW c \in Contents,
         doc'.versions = doc.versions \cup {c}, doc'.current \in {doc.current, c},
         objects' = objects \cup {<<doc.id, c>>},
         UNCHANGED <<upload, cited, purge, purging, cleaning, restored>>
  PROVE  StoreInv'
<1>1. BaseInv /\ PurgedIsGone /\ BytesAreSafe /\ VersionsAreStored /\ CitedStands /\ PurgedIsDeleted
  BY DEF StoreInv, IndexInv
<1>2. BytesAreSafe'
  BY <1>1 DEF BytesAreSafe, Safe, DeletionDecided, HasDoc
<1>3. PurgedIsDeleted'
  <2>1. \A d \in DocIds, b \in Contents : <<d, b>> \in objects' => d = doc.id \/ <<d, b>> \in objects
    OBVIOUS
  <2>2. purging.doc # 0 => purging.doc \in DocIds /\ purging.doc # doc.id
    BY <1>1, DocumentStoreAssumption DEF PurgedIsGone, BaseInv, StoreTypes, DocIds
  <2>3. \A d \in DocIds : purge[d].seen.versions \subseteq Contents
    BY <1>1 DEF BaseInv, StoreTypes, PurgeRow, DocRow
  <2> QED
    BY <1>1, <2>1, <2>2, <2>3 DEF PurgedIsDeleted, PurgedIsGone
<1>4. PurgedIsGone' /\ VersionsAreStored' /\ CitedStands'
  BY <1>1 DEF PurgedIsGone, VersionsAreStored, CitedStands
<1> QED
  BY <1>2, <1>3, <1>4 DEF StoreInv

LEMMA PageKeepsStore ==
  ASSUME StoreInv, IndexInv',
         UploadUnsupported \/ RetryDocument \/ ArchiveDocument \/ CiteCurrentVersion
  PROVE  StoreInv'
<1>1. BaseInv /\ VersionsAreStored
  BY DEF StoreInv, IndexInv
<1>2. CASE UploadUnsupported \/ RetryDocument \/ ArchiveDocument
  BY <1>1, <1>2, MarkShape, StoreStays DEF SameRow
<1>3. CASE CiteCurrentVersion
  <2>1. HasDoc /\ doc.current \in Contents /\ cited' = cited \cup {<<doc.id, doc.current>>}
        /\ UNCHANGED <<doc, upload, objects, purge, purging, cleaning, restored>>
    BY <1>1, <1>3, CiteShape DEF CiteCurrentVersion
  <2>2. doc.current \in doc.versions
    BY <1>1, <2>1, DocumentStoreAssumption DEF VersionsAreStored
  <2>3. CitedStands'
    BY <2>1, <2>2 DEF StoreInv, CitedStands
  <2>4. BytesAreSafe'
    BY <2>1 DEF StoreInv, BytesAreSafe, Safe, DeletionDecided, HasDoc
  <2> QED
    BY <2>1, <2>3, <2>4 DEF StoreInv, PurgedIsGone, VersionsAreStored, PurgedIsDeleted
<1> QED
  BY <1>2, <1>3

LEMMA WorkerKeepsStore ==
  ASSUME StoreInv, IndexInv', NEW w \in IndexWorkers,
         \/ ClaimNextDocumentJob(w) \/ ReadDocument(w) \/ LockDocument(w) \/ IndexDocument(w)
         \/ SourceUnavailable(w) \/ FailIndex(w) \/ FinishJob(w) \/ WorkerCrash(w)
  PROVE  StoreInv'
<1>1. BaseInv /\ IndexesAlone
  BY DEF StoreInv, IndexInv
<1>2. CASE ClaimNextDocumentJob(w) \/ ReadDocument(w) \/ LockDocument(w) \/ FinishJob(w) \/ WorkerCrash(w)
  BY <1>1, <1>2, WorkerShape, StoreStays
<1>3. CASE IndexDocument(w) \/ SourceUnavailable(w) \/ FailIndex(w)
  <2>1. doc.id = docWorker[w].doc
    BY <1>1, <1>3 DEF IndexesAlone, IndexDocument, SourceUnavailable, FailIndex, IndexEnds
  <2>2. /\ HasDoc /\ doc'.id = doc.id /\ doc'.sha = doc.sha
        /\ UNCHANGED <<upload, cited, purge, purging, cleaning, restored>>
        /\ \/ doc'.versions = doc.versions /\ doc'.current = doc.current /\ objects' = objects
           \/ \E c \in Contents : /\ doc'.versions = doc.versions \cup {c} /\ doc'.current \in {doc.current, c}
                                  /\ objects' = objects \cup {<<doc.id, c>>}
    BY <1>1, <1>3, <2>1, IndexEndsShape
  <2> QED
    BY <2>2, StoreStays, VersionKeepsStore
<1> QED
  BY <1>2, <1>3

\* A purge is proposed, authorized or cancelled, and nothing is decided yet.
LEMMA ProposalKeepsStore ==
  ASSUME StoreInv, IndexInv', ProposeDocumentPurge \/ AuthorizeDocumentPurge \/ CancelDocumentPurge
  PROVE  StoreInv'
<1>1. BaseInv /\ PurgedIsGone /\ BytesAreSafe /\ VersionsAreStored /\ CitedStands /\ PurgedIsDeleted
  BY DEF StoreInv, IndexInv
<1>2. UNCHANGED <<upload, objects, cited, purging, cleaning, restored>>
  BY DEF ProposeDocumentPurge, AuthorizeDocumentPurge, CancelDocumentPurge
<1>3. /\ HasDoc /\ SameRow(doc', doc) /\ purge[doc.id].status \in {"none", "proposed", "quarantined"}
      /\ \A d \in DocIds \ {doc.id} : purge'[d] = purge[d]
      /\ purge'[doc.id].status \in {"none", "proposed", "quarantined"}
      /\ purge'[doc.id].status # "none" => purge'[doc.id].seen.id = doc.id /\ purge'[doc.id].seen.sha \in Contents
  <2>1. CASE ProposeDocumentPurge
    <3>1. UNCHANGED doc
      BY <2>1 DEF ProposeDocumentPurge
    <3> QED
      BY <1>1, <2>1, <3>1, ProposeShape, DocumentTypes DEF SameRow, BaseInv
  <2>2. CASE AuthorizeDocumentPurge
    BY <1>1, <2>2, AuthorizeShape DEF PurgedIsGone, HasDoc
  <2>3. CASE CancelDocumentPurge
    BY <1>1, <2>3, CancelShape
  <2> QED
    BY <2>1, <2>2, <2>3
<1>4. BytesAreSafe'
  <2>1. \A c \in Contents : DeletionDecided(c)' => DeletionDecided(c)
    BY <1>2, <1>3 DEF DeletionDecided
  <2>2. (HasDoc' <=> HasDoc) /\ doc'.sha = doc.sha /\ doc.sha \in Contents
    BY <1>1, <1>3, DocumentTypes DEF HasDoc, SameRow, BaseInv
  <2> QED
    BY <1>1, <1>2, <2>1, <2>2 DEF BytesAreSafe, Safe
<1>5. purging.doc # 0 => purging.doc # doc.id /\ purging.doc \in DocIds
  BY <1>1, <1>3, PurgeTypes DEF PurgedIsGone, PurgeDecided
<1>6. PurgedIsGone'
  <2>1. doc'.id = doc.id /\ doc.id \in DocIds
    BY <1>3 DEF HasDoc, SameRow
  <2>2. \A d \in DocIds :
          /\ purge'[d].status \in PurgeDecided \cup {"completed"} => doc'.id # d
          /\ purge'[d].status # "none" => purge'[d].seen.id = d /\ purge'[d].seen.sha \in Contents
    BY <1>1, <1>3, <2>1 DEF PurgedIsGone, PurgeDecided
  <2>3. purging.doc # 0 => purge'[purging.doc] = purge[purging.doc]
    BY <1>3, <1>5
  <2> QED
    BY <1>1, <1>2, <2>2, <2>3 DEF PurgedIsGone
<1>7. PurgedIsDeleted'
  <2>1. purging.doc # 0 => purge'[purging.doc] = purge[purging.doc]
    BY <1>3, <1>5
  <2>2. \A d \in DocIds : purge'[d].status = "completed" => purge'[d] = purge[d]
    BY <1>3
  <2> QED
    BY <1>1, <1>2, <2>1, <2>2 DEF PurgedIsDeleted
<1> QED
  BY <1>1, <1>2, <1>3, <1>4, <1>6, <1>7 DEF StoreInv, VersionsAreStored, CitedStands, SameRow

LEMMA PurgeKeepsStore ==
  ASSUME StoreInv, IndexInv', PurgeDatabase PROVE StoreInv'
<1>1. BaseInv /\ PurgedIsGone /\ BytesAreSafe /\ VersionsAreStored /\ CitedStands /\ PurgedIsDeleted
  BY DEF StoreInv, IndexInv
<1>2. /\ HasDoc /\ doc' = NoDoc /\ purge[doc.id].status = "quarantined"
      /\ \A d \in DocIds \ {doc.id} : purge'[d] = purge[d]
      /\ purge'[doc.id].status = "database_purged" /\ purge'[doc.id].seen = purge[doc.id].seen
      /\ purging'.doc = doc.id /\ purging'.todo = PurgeTargets(doc) /\ purging'.missed = FALSE
  BY <1>1, PurgeDatabaseShape
<1>3. /\ UNCHANGED <<upload, objects, cited, cleaning>> /\ PurgePermitted(doc) /\ SameFingerprint(doc, purge[doc.id].seen)
      /\ restored' = StoredSince(doc.sha)
  BY DEF PurgeDatabase
<1>4. doc'.id = 0 /\ ~HasDoc' /\ doc'.versions = {} /\ doc'.current = NoContent
      /\ doc \in DocRow /\ doc.id \in DocIds /\ doc.sha \in Contents /\ doc.id # 0 /\ doc.versions \subseteq Contents
  BY <1>1, <1>2, NoDocument, DocumentTypes DEF HasDoc, BaseInv
<1>5. cited' = {}
  BY <1>1, <1>3 DEF CitedStands, PurgePermitted, BaseInv, StoreTypes
<1>6. BytesAreSafe'
  <2>1. ASSUME NEW b \in Contents, b = upload.content, Safe(b) PROVE Safe(b)'
    BY <1>1, <1>2, <1>3, <2>1, LookedAgain DEF Safe, DeletionDecided, SameFingerprint
  <2> QED
    BY <1>1, <1>3, <1>4, <2>1 DEF BytesAreSafe
<1>7. PurgeTargets(doc) = PurgeTargets(purge[doc.id].seen)
  BY <1>1, <1>2, <1>3, <1>4 DEF PurgeTargets, SameFingerprint, PurgedIsGone
<1>8. PurgedIsGone'
  <2>1. \A d \in DocIds :
          /\ doc'.id # d
          /\ purge'[d].status # "none" => purge'[d].seen.id = d /\ purge'[d].seen.sha \in Contents
    BY <1>1, <1>2, <1>4, DocumentStoreAssumption DEF PurgedIsGone, DocIds
  <2>2. purging'.doc # 0 /\ purge'[purging'.doc].status \in PurgeDecided
        /\ purging'.todo \subseteq PurgeTargets(purge'[purging'.doc].seen)
    BY <1>2, <1>4, <1>7 DEF PurgeDecided
  <2> QED
    BY <2>1, <2>2 DEF PurgedIsGone
<1>9. PurgedIsDeleted'
  <2>1. \A c \in purge[doc.id].seen.versions : <<doc.id, c>> \in PurgeTargets(doc)
    BY <1>3 DEF SameFingerprint, PurgeTargets
  <2> QED
    BY <1>1, <1>2, <1>3, <1>4, <2>1, LookedAgain, PurgeTypes DEF PurgedIsDeleted
<1> QED
  BY <1>4, <1>5, <1>6, <1>8, <1>9 DEF StoreInv, VersionsAreStored, CitedStands

LEMMA ResumeKeepsStore ==
  ASSUME StoreInv, ResumePurge PROVE StoreInv'
<1>1. BaseInv /\ PurgedIsGone /\ BytesAreSafe /\ VersionsAreStored /\ CitedStands /\ PurgedIsDeleted /\ IndexInv
  BY DEF StoreInv, IndexInv
<1>2. BaseInv' /\ \E d \in DocIds :
         /\ purge[d].status \in PurgeDecided
         /\ \A e \in DocIds \ {d} : purge'[e] = purge[e]
         /\ purge'[d].status = "object_cleanup_pending" /\ purge'[d].seen = purge[d].seen
         /\ purging'.doc = d /\ purging'.todo = PurgeTargets(purge[d].seen) /\ purging'.missed = FALSE
  BY <1>1, ResumeShape DEF PurgedIsGone
<1>3. PICK d \in DocIds :
         /\ purge[d].status \in PurgeDecided
         /\ \A e \in DocIds \ {d} : purge'[e] = purge[e]
         /\ purge'[d].status = "object_cleanup_pending" /\ purge'[d].seen = purge[d].seen
         /\ purging'.doc = d /\ purging'.todo = PurgeTargets(purge[d].seen) /\ purging'.missed = FALSE
  BY <1>2
<1>4. UNCHANGED <<doc, docWorker, rowHolder, upload, objects, cited, cleaning, restored, overtaken>>
  BY DEF ResumePurge
<1>5. IndexInv'
  BY <1>1, <1>2, <1>3, <1>4, DeletionKeepsIndex
<1>6. BytesAreSafe'
  BY <1>1, <1>3, <1>4 DEF BytesAreSafe, Safe, DeletionDecided, HasDoc, PurgeDecided
<1>7. PurgedIsGone'
  BY <1>1, <1>3, <1>4, DocumentStoreAssumption DEF PurgedIsGone, PurgeDecided, DocIds
<1>8. PurgedIsDeleted'
  <2>1. \A c \in purge[d].seen.versions : <<d, c>> \in PurgeTargets(purge[d].seen)
    BY <1>1, <1>3 DEF PurgeTargets, PurgedIsGone, PurgeDecided
  <2> QED
    BY <1>1, <1>3, <1>4, <2>1 DEF PurgedIsDeleted
<1> QED
  BY <1>1, <1>4, <1>5, <1>6, <1>7, <1>8 DEF StoreInv, VersionsAreStored, CitedStands

\* What may be deleted is neither a version of the document nor its bytes, unless they were restored.
LEMMA DeletionIsSafe ==
  ASSUME StoreInv, IndexInv', UNCHANGED <<doc, upload, cited>>, restored' = restored, NEW k,
         k[1] # doc.id \/ ~HasDoc, \A c \in Contents : k = UploadKey(c) => DeletionDecided(c),
         objects' \in {objects, objects \ {k}}, \A c \in Contents : DeletionDecided(c)' => DeletionDecided(c),
         PurgedIsGone', PurgedIsDeleted'
  PROVE  StoreInv'
<1>1. BaseInv /\ BytesAreSafe /\ VersionsAreStored /\ CitedStands
  BY DEF StoreInv, IndexInv
<1>2. BytesAreSafe'
  <2>1. ASSUME NEW c \in Contents, Safe(c) PROVE Safe(c)'
    BY <2>1 DEF Safe
  <2>2. (HasDoc' <=> HasDoc) /\ doc'.sha = doc.sha /\ upload'.content = upload.content
    BY DEF HasDoc
  <2>3. HasDoc => doc.sha \in Contents
    BY <1>1, DocumentTypes DEF BaseInv
  <2> QED
    BY <1>1, <2>1, <2>2, <2>3 DEF BytesAreSafe, Safe
<1>3. VersionsAreStored'
  <2>1. \A c \in doc.versions : HasDoc /\ <<doc.id, c>>[1] = doc.id
    BY <1>1, DocumentTypes DEF BaseInv
  <2> QED
    BY <1>1, <2>1 DEF VersionsAreStored
<1>4. CitedStands'
  BY <1>1 DEF CitedStands
<1> QED
  BY <1>2, <1>3, <1>4 DEF StoreInv

LEMMA ReconcileKeepsStore ==
  ASSUME StoreInv, PurgeObject \/ CompletePurge \/ PurgeCrash PROVE StoreInv'
<1>1. BaseInv /\ PurgedIsGone /\ BytesAreSafe /\ VersionsAreStored /\ CitedStands /\ PurgedIsDeleted /\ IndexInv
      /\ (purging.doc # 0 => purging.doc \in DocIds)
  BY PurgeTypes DEF StoreInv, IndexInv
<1>2. UNCHANGED <<doc, docWorker, rowHolder, upload, cited, cleaning, restored, overtaken>>
  BY DEF PurgeObject, CompletePurge, PurgeCrash
<1>3. CASE PurgeObject
  <2>1. BaseInv' /\ purge' = purge
        /\ \E k \in purging.todo :
              /\ purging'.doc = purging.doc /\ purging'.todo = purging.todo \ {k}
              /\ \/ objects' = objects \ {k} /\ purging'.missed = purging.missed
                 \/ objects' \in {objects, objects \ {k}} /\ purging'.missed = TRUE
    BY <1>1, <1>3, PurgeObjectShape DEF PurgeObject
  <2>2. PICK k \in purging.todo :
              /\ purging'.doc = purging.doc /\ purging'.todo = purging.todo \ {k}
              /\ \/ objects' = objects \ {k} /\ purging'.missed = purging.missed
                 \/ objects' \in {objects, objects \ {k}} /\ purging'.missed = TRUE
    BY <2>1
  <2> DEFINE d == purging.doc
             row == purge[d].seen
  <2>3. d \in DocIds /\ d # doc.id /\ purge[d].status \in PurgeDecided /\ k \in PurgeTargets(row)
        /\ row \in DocRow /\ row.id = d /\ row.sha \in Contents
    BY <1>1, <2>2, PurgeTypes DEF PurgedIsGone, PurgeDecided
  <2>4. IndexInv'
    BY <1>1, <1>2, <2>1, DeletionKeepsIndex
  <2>5. \A c \in Contents : DeletionDecided(c)' => DeletionDecided(c)
    BY <1>2, <2>1 DEF DeletionDecided
  <2>6. PICK c \in Contents : k = <<d, c>> \/ (k = UploadKey(c) /\ row.sha = c)
    BY <2>3 DEF PurgeTargets, DocRow
  <2>7. k[1] # doc.id \/ ~HasDoc
    BY <2>3, <2>6, NoDocument DEF UploadKey, HasDoc
  <2>8. \A b \in Contents : k = UploadKey(b) => DeletionDecided(b)
    BY <2>3, <2>6, NoDocument DEF UploadKey, DeletionDecided, PurgeDecided
  <2>9. PurgedIsGone'
    BY <1>1, <1>2, <2>1, <2>2 DEF PurgedIsGone
  <2>10. PurgedIsDeleted'
    BY <1>1, <1>2, <2>1, <2>2 DEF PurgedIsDeleted
  <2> QED
    BY <1>1, <1>2, <2>2, <2>4, <2>5, <2>7, <2>8, <2>9, <2>10, DeletionIsSafe
<1>4. CASE CompletePurge
  <2>1. purging.doc # 0 /\ purging.todo = {} /\ objects' = objects /\ purge[purging.doc].status \in PurgeDecided
    BY <1>1, <1>4 DEF CompletePurge, PurgedIsGone
  <2>2. /\ BaseInv' /\ purging.doc \in DocIds /\ purging' = NotPurging
        /\ \A d \in DocIds \ {purging.doc} : purge'[d] = purge[d]
        /\ purge'[purging.doc].seen = purge[purging.doc].seen
        /\ purge'[purging.doc].status = IF purging.missed THEN "object_cleanup_pending" ELSE "completed"
    BY <1>1, <1>4, <2>1, CompleteShape DEF PurgeDecided
  <2>3. IndexInv'
    BY <1>1, <1>2, <2>1, <2>2, DeletionKeepsIndex
  <2>4. purging'.doc = 0 /\ purging'.todo = {}
    BY <2>2 DEF NotPurging
  <2>5. PurgedIsGone'
    BY <1>1, <1>2, <2>1, <2>2, <2>4 DEF PurgedIsGone, PurgeDecided
  <2>6. PurgedIsDeleted'
    BY <1>1, <1>2, <2>1, <2>2, <2>4 DEF PurgedIsDeleted
  <2>7. \A c \in Contents : DeletionDecided(c)' => DeletionDecided(c)
    BY <1>1, <1>2, <2>1, <2>2 DEF DeletionDecided, PurgeDecided
  <2>8. BytesAreSafe'
    BY <1>1, <1>2, <2>1, <2>7, DocumentTypes DEF BytesAreSafe, Safe, HasDoc, BaseInv
  <2> QED
    BY <1>1, <1>2, <2>1, <2>3, <2>5, <2>6, <2>8 DEF StoreInv, VersionsAreStored, CitedStands
<1>5. CASE PurgeCrash
  <2>1. BaseInv' /\ purging' = NotPurging /\ UNCHANGED <<purge, objects>>
    BY <1>1, <1>5, ReconcilerDies DEF PurgeCrash
  <2>2. IndexInv'
    BY <1>1, <1>2, <2>1, DeletionKeepsIndex
  <2>3. purging'.doc = 0 /\ purging'.todo = {}
    BY <2>1 DEF NotPurging
  <2>4. BytesAreSafe'
    BY <1>1, <1>2, <2>1 DEF BytesAreSafe, Safe, DeletionDecided, HasDoc
  <2> QED
    BY <1>1, <1>2, <2>1, <2>2, <2>3, <2>4 DEF StoreInv, PurgedIsGone, PurgedIsDeleted, VersionsAreStored, CitedStands
<1> QED
  BY <1>3, <1>4, <1>5

LEMMA CleanupKeepsStore ==
  ASSUME StoreInv, ProposeObjectCleanup \/ AuthorizeObjectCleanup \/ DeleteOrphan PROVE StoreInv'
<1>1. BaseInv /\ PurgedIsGone /\ BytesAreSafe /\ VersionsAreStored /\ CitedStands /\ PurgedIsDeleted /\ IndexInv
  BY DEF StoreInv, IndexInv
<1>2. BaseInv' /\ UNCHANGED <<doc, docWorker, rowHolder, upload, cited, purge, purging, overtaken>> /\ objects' \subseteq objects
  BY <1>1, CleanupShape
<1>3. IndexInv'
  BY <1>1, <1>2, DeletionKeepsIndex
<1>4. PurgedIsGone' /\ PurgedIsDeleted'
  <2>1. \A d \in DocIds, b \in Contents : <<d, b>> \in restored' <=> <<d, b>> \in restored
    <3>1. restored' = restored \/ \E c \in Contents : restored' = StoredSince(c)
      BY DEF ProposeObjectCleanup, AuthorizeObjectCleanup, DeleteOrphan
    <3> QED
      BY <3>1, LookedAgain
  <2> QED
    BY <1>1, <1>2, <2>1, PurgeTypes DEF PurgedIsGone, PurgedIsDeleted
<1>5. HasDoc => doc.sha \in Contents
  BY <1>1, DocumentTypes DEF BaseInv
<1>6. CASE ProposeObjectCleanup
  <2>1. UNCHANGED <<objects, cleaning, restored>>
    BY <1>6 DEF ProposeObjectCleanup
  <2> QED
    BY <1>2, <1>3, <2>1, StoreStays
<1>7. CASE AuthorizeObjectCleanup
  <2>1. PICK c \in Contents :
          /\ doc.sha # c /\ (cleaning' = c \/ cleaning' = cleaning) /\ objects' = objects
          /\ restored' = StoredSince(c)
    BY <1>7 DEF AuthorizeObjectCleanup, Orphan
  <2>2. ASSUME NEW b \in Contents, Safe(b), b # c \/ b = upload.content PROVE Safe(b)'
    BY <1>2, <2>1, <2>2, LookedAgain DEF Safe, DeletionDecided
  <2>3. BytesAreSafe'
    BY <1>1, <1>2, <1>5, <2>1, <2>2 DEF BytesAreSafe, HasDoc
  <2> QED
    BY <1>1, <1>2, <1>3, <1>4, <2>1, <2>3 DEF StoreInv, VersionsAreStored, CitedStands
<1>8. CASE DeleteOrphan
  <2>1. /\ cleaning # NoContent /\ objects' \in {objects, objects \ {UploadKey(cleaning)}}
        /\ cleaning' = NoContent /\ restored' = restored
    BY <1>8 DEF DeleteOrphan
  <2>2. \A c \in Contents : DeletionDecided(c)' => DeletionDecided(c)
    BY <1>2, <2>1, DocumentStoreAssumption DEF DeletionDecided
  <2>3. \A c \in Contents : UploadKey(cleaning) = UploadKey(c) => DeletionDecided(c)
    BY DEF UploadKey, DeletionDecided
  <2>4. UploadKey(cleaning)[1] # doc.id \/ ~HasDoc
    BY NoDocument DEF UploadKey, HasDoc
  <2> HIDE DEF UploadKey
  <2> QED
    BY <1>2, <1>3, <1>4, <2>1, <2>2, <2>3, <2>4, DeletionIsSafe
<1> QED
  BY <1>6, <1>7, <1>8

-----------------------------------------------------------------------------
\* The restore, a read, a fetch, a look, a put and a write apart.
RestoreSteps == \/ ReadArchived \/ FetchArchived \/ LookForVersion \/ StoreVersion
                \/ CommitRestore \/ RestoreFails

\* The row may be another incarnation's by the time of a write.
LEMMA RestoreKeepsIndex == ASSUME DocumentsInv, RestoreSteps PROVE IndexInv'
<1>1. /\ UNCHANGED <<job, docWorker, rowHolder, upload, cited, purge, purging, overtaken>>
      /\ IndexInv /\ BaseInv /\ StoreTypes /\ JobsMove
  BY JobsStay DEF DocumentsInv, StoreInv, IndexInv, BaseInv, RestoreSteps, ReadArchived, FetchArchived, LookForVersion,
    StoreVersion, CommitRestore, RestoreFails
<1>2. /\ restoring \in Restores
      /\ restoring.at \in {"put", "commit"} => restoring.doc \in DocIds /\ restoring.key \in Contents /\ restoring # NoRestore
  BY DEF DocumentsInv, RestoreInv, Restores, NoRestore
<1>3. ASSUME doc' = doc, objects' \subseteq ObjectKeys PROVE IndexInv'
  <2>1. BaseInv'
    BY <1>1, <1>3, RowStays DEF StoreTypes
  <2> QED
    BY <1>1, <1>3, <2>1, DeletionKeepsIndex
<1>4. CASE ReadArchived \/ FetchArchived \/ LookForVersion \/ RestoreFails
  BY <1>1, <1>3, <1>4 DEF StoreTypes, ReadArchived, FetchArchived, LookForVersion, RestoreFails
<1>5. CASE StoreVersion
  <2>1. doc' = doc /\ objects' = objects \cup {<<restoring.doc, restoring.key>>} /\ restoring.at = "put"
    BY <1>5 DEF StoreVersion
  <2>2. objects' \subseteq ObjectKeys
    BY <1>1, <1>2, <2>1, DocumentStoreAssumption DEF StoreTypes, ObjectKeys, DocIds
  <2> QED
    BY <1>3, <2>1, <2>2
<1>6. CASE CommitRestore
  <2>1. objects' = objects /\ restoring.at = "commit"
    BY <1>6 DEF CommitRestore
  <2>2. CASE doc' = doc
    BY <1>1, <1>3, <2>1, <2>2 DEF StoreTypes
  <2>3. CASE doc' # doc
    <3> DEFINE c == restoring.key
               row == Ingest(doc, c)
    <3>1. doc.id = restoring.doc /\ doc' = [row EXCEPT !.status = "active", !.chunks = c]
      BY <1>6, <2>3 DEF CommitRestore
    <3>2. HasDoc /\ doc \in DocRow /\ doc.sha \in Contents /\ c \in Contents /\ c \in Bytes
      BY <1>1, <1>2, <2>1, <3>1, DocumentTypes DEF HasDoc, Bytes
    <3>3. row \in DocRow /\ row.id = doc.id /\ row.sha = doc.sha
      BY <3>2, RowIsIngested
    <3>4. c = doc.sha \/ overtaken
      BY <1>2, <2>1, <3>1 DEF DocumentsInv, RestoreInv
    <3> HIDE DEF row, c
    <3>5. doc' \in DocRow /\ doc'.id = doc.id /\ doc'.sha = doc.sha /\ doc'.status = "active" /\ doc'.chunks = c
      BY <3>1, <3>2, <3>3 DEF DocRow, DocStatus
    <3>6. BaseInv'
      BY <1>1, <2>1, <3>2, <3>5, RowMoves DEF StoreTypes
    <3>7. IndexesAlone' /\ QuarantineHolds'
      BY <1>1, <3>5, IndexersStay, QuarantineStays DEF IndexInv
    <3> QED
      BY <1>1, <3>4, <3>5, <3>6, <3>7 DEF IndexInv, ServesItsContent
  <2> QED
    BY <2>2, <2>3
<1> QED
  BY <1>4, <1>5, <1>6 DEF RestoreSteps

LEMMA RestoreKeepsStore == ASSUME DocumentsInv, RestoreSteps, IndexInv' PROVE StoreInv'
<1>1. /\ UNCHANGED <<upload, cited, purge, purging, cleaning>>
      /\ StoreInv /\ BaseInv /\ StoreTypes
  BY DEF DocumentsInv, StoreInv, IndexInv, BaseInv, RestoreSteps, ReadArchived, FetchArchived, LookForVersion,
    StoreVersion, CommitRestore, RestoreFails
<1>2. restoring.at \in {"put", "commit"} => restoring.doc \in DocIds /\ restoring.key \in Contents /\ restoring # NoRestore
  BY DEF DocumentsInv, RestoreInv, Restores, NoRestore
<1>3. CASE ReadArchived \/ FetchArchived \/ LookForVersion \/ RestoreFails
  <2>1. UNCHANGED <<doc, objects, restored>>
    BY <1>3 DEF ReadArchived, FetchArchived, LookForVersion, RestoreFails
  <2> QED
    BY <1>1, <2>1, StoreStays
<1>4. CASE StoreVersion
  <2> DEFINE d == restoring.doc
             c == restoring.key
  <2>1. /\ doc' = doc /\ objects' = objects \cup {<<d, c>>} /\ d \in DocIds /\ c \in Contents
        /\ restored' = IF doc.id = d THEN restored ELSE restored \cup {<<d, c>>}
    BY <1>2, <1>4 DEF StoreVersion
  <2>2. PurgedIsGone' /\ VersionsAreStored' /\ CitedStands'
    BY <1>1, <2>1 DEF StoreInv, PurgedIsGone, VersionsAreStored, CitedStands
  <2>3. BytesAreSafe'
    BY <1>1, <2>1 DEF StoreInv, BytesAreSafe, Safe, DeletionDecided, HasDoc
  <2> HIDE DEF d, c
  <2>4. \A e \in DocIds, b \in Contents :
          <<e, b>> \in objects' \ restored' => <<e, b>> \in objects \ restored \/ e = doc.id
    BY <2>1
  <2>5. purging.doc # 0 => purging.doc \in DocIds /\ purging.doc # doc.id
    BY <1>1, PurgeTypes DEF StoreInv, PurgedIsGone
  <2>6. \A e \in DocIds : purge[e].seen.versions \subseteq Contents
    BY <1>1, PurgeTypes
  <2>7. PurgedIsDeleted'
    BY <1>1, <2>4, <2>5, <2>6 DEF StoreInv, PurgedIsDeleted, PurgedIsGone
  <2> QED
    BY <2>2, <2>3, <2>7 DEF StoreInv
<1>5. CASE CommitRestore
  <2>1. objects' = objects /\ restored' = restored /\ restoring.at = "commit"
    BY <1>5 DEF CommitRestore
  <2>2. CASE doc' = doc
    BY <1>1, <2>1, <2>2, StoreStays
  <2>3. CASE doc' # doc
    <3> DEFINE c == restoring.key
               row == Ingest(doc, c)
    <3>1. doc.id = restoring.doc /\ doc' = [row EXCEPT !.status = "active", !.chunks = c]
      BY <1>5, <2>3 DEF CommitRestore
    <3>2. HasDoc /\ doc \in DocRow /\ c \in Contents
      BY <1>1, <1>2, <2>1, <3>1 DEF HasDoc, StoreTypes
    <3>3. /\ row \in DocRow /\ row.id = doc.id /\ row.sha = doc.sha
          /\ row.versions = doc.versions \cup {c} /\ row.current \in {doc.current, c}
      BY <3>2, RowIsIngested
    <3>4. <<doc.id, c>> \in objects
      BY <1>2, <2>1, <3>1 DEF DocumentsInv, RestoreInv
    <3> HIDE DEF row, c
    <3>5. /\ doc'.id = doc.id /\ doc'.sha = doc.sha
          /\ doc'.versions = doc.versions \cup {c} /\ doc'.current \in {doc.current, c}
      BY <3>1, <3>3 DEF DocRow
    <3>6. objects' = objects \cup {<<doc.id, c>>}
      BY <2>1, <3>4
    <3> QED
      BY <1>1, <2>1, <3>2, <3>5, <3>6, VersionKeepsStore
  <2> QED
    BY <2>2, <2>3
<1> QED
  BY <1>3, <1>4, <1>5 DEF RestoreSteps

\* No job is forgotten.
LEMMA JobsLast ==
  ASSUME BaseInv, [DocumentsNext]_documentVars, NEW d \in DocIds, KnownDoc(d)
  PROVE  KnownDoc(d)'
<1>1. StoreTypes /\ job \in [DocIds -> JobRow] /\ job[d].status # "none"
  BY DEF BaseInv, StoreTypes, KnownDoc
<1>2. ASSUME NEW e, EnqueueDocumentJob(e) PROVE KnownDoc(d)'
  BY <1>1, <1>2 DEF EnqueueDocumentJob, KnownDoc
<1>3. ASSUME NEW e, NEW row, row.status # "none", job' = [job EXCEPT ![e] = row] PROVE KnownDoc(d)'
  BY <1>1, <1>3 DEF KnownDoc
<1>4. CASE job' = job
  BY <1>1, <1>4 DEF KnownDoc
<1>5. CASE CommitUpload \/ CommitFirstUpload \/ RetryDocument
  BY <1>2, <1>5 DEF CommitUpload, CommitFirstUpload, RetryDocument
<1>6. ASSUME NEW w \in IndexWorkers, ClaimNextDocumentJob(w) \/ FinishJob(w) PROVE KnownDoc(d)'
  <2>1. \/ job' = job
        \/ \E e \in DocIds : \/ job' = [job EXCEPT ![e].status = "running", ![e].leased = TRUE]
                             \/ job' = [job EXCEPT ![e].status = "ended"]
    BY <1>6 DEF ClaimNextDocumentJob, FinishJob, BaseInv, KnownIncarnations
  <2> QED
    BY <1>1, <1>4, <2>1 DEF JobRow, KnownDoc
<1>7. CASE JobLeaseExpires \/ ReconcileStaleDocumentJobs \/ PurgeDatabase
  BY <1>1, <1>7 DEF JobLeaseExpires, ReconcileStaleDocumentJobs, PurgeDatabase, JobRow, KnownDoc
<1>8. \/ job' = job \/ CommitUpload \/ CommitFirstUpload \/ RetryDocument
      \/ \E w \in IndexWorkers : ClaimNextDocumentJob(w) \/ FinishJob(w)
      \/ JobLeaseExpires \/ ReconcileStaleDocumentJobs \/ PurgeDatabase
  BY DEF DocumentsNext, documentVars, PutObject, UploadFails, UploadUnsupported, ArchiveDocument, CiteCurrentVersion,
    ReadArchived, FetchArchived, LookForVersion, StoreVersion, CommitRestore, RestoreFails, ReadDocument, LockDocument,
    IndexDocument, SourceUnavailable, FailIndex, IndexEnds, WorkerCrash, ProposeDocumentPurge, AuthorizeDocumentPurge,
    CancelDocumentPurge, ResumePurge, PurgeObject, CompletePurge, PurgeCrash, ProposeObjectCleanup,
    AuthorizeObjectCleanup, DeleteOrphan
<1> QED
  BY <1>4, <1>5, <1>6, <1>7, <1>8

\* What the others do to the document and to the objects of its versions while a restore
\* is at work, uploads over an existing row apart.
LEMMA OthersLeaveRestores ==
  ASSUME StoreInv, [DocumentsNext]_documentVars, ~RestoreSteps, ~CommitUpload
  PROVE  /\ UNCHANGED restoring /\ (overtaken => overtaken')
         /\ HasDoc' => \/ doc'.id = doc.id /\ doc'.sha = doc.sha
                       \/ ~KnownDoc(doc'.id)
         /\ HasDoc => \A c \in Contents : <<doc.id, c>> \in objects => <<doc.id, c>> \in objects'
<1>1. BaseInv /\ IndexInv /\ PurgedIsGone /\ StoreTypes /\ IndexesAlone
  BY DEF StoreInv, IndexInv, BaseInv
<1> DEFINE Row == HasDoc' => doc'.id = doc.id /\ doc'.sha = doc.sha
           Left == UNCHANGED restoring /\ (overtaken => overtaken')
           Kept == HasDoc => \A c \in Contents : <<doc.id, c>> \in objects => <<doc.id, c>> \in objects'
<1>2. CASE UNCHANGED documentVars
  BY <1>2 DEF documentVars
<1>3. CASE PutObject \/ UploadFails
  BY <1>3 DEF PutObject, UploadFails
<1>4. CASE CommitFirstUpload
  BY <1>1, <1>4, FirstShape DEF CommitFirstUpload
<1>5. CASE UploadUnsupported \/ RetryDocument \/ ArchiveDocument \/ CiteCurrentVersion
  <2>1. CASE UploadUnsupported \/ RetryDocument \/ ArchiveDocument
    <3>1. UNCHANGED <<restoring, objects, overtaken>>
      BY <2>1 DEF UploadUnsupported, RetryDocument, ArchiveDocument
    <3> QED
      BY <1>1, <2>1, <3>1, MarkShape DEF SameRow
  <2>2. CASE CiteCurrentVersion
    BY <2>2 DEF CiteCurrentVersion
  <2> QED
    BY <1>5, <2>1, <2>2
<1>6. ASSUME NEW w \in IndexWorkers,
             \/ ClaimNextDocumentJob(w) \/ ReadDocument(w) \/ LockDocument(w) \/ FinishJob(w) \/ WorkerCrash(w)
      PROVE  Left /\ Row /\ Kept
  <2>1. UNCHANGED <<doc, restoring, objects, overtaken>>
    BY <1>6 DEF ClaimNextDocumentJob, ReadDocument, LockDocument, FinishJob, WorkerCrash
  <2> QED
    BY <2>1
<1>7. ASSUME NEW w \in IndexWorkers, IndexDocument(w) \/ SourceUnavailable(w) \/ FailIndex(w)
      PROVE  Left /\ Row /\ Kept
  <2>1. doc.id = docWorker[w].doc /\ UNCHANGED <<restoring, overtaken>>
    BY <1>1, <1>7 DEF IndexesAlone, IndexDocument, SourceUnavailable, FailIndex, IndexEnds
  <2>2. doc'.id = doc.id /\ doc'.sha = doc.sha
        /\ \/ objects' = objects
           \/ \E c \in Contents : objects' = objects \cup {<<doc.id, c>>}
    BY <1>1, <1>7, <2>1, IndexEndsShape
  <2> QED
    BY <2>1, <2>2
<1>8. CASE JobLeaseExpires \/ ReconcileStaleDocumentJobs \/ ProposeDocumentPurge \/ ResumePurge \/ CompletePurge
           \/ PurgeCrash \/ ProposeObjectCleanup \/ AuthorizeObjectCleanup
  BY <1>8 DEF JobLeaseExpires, ReconcileStaleDocumentJobs, ProposeDocumentPurge, ResumePurge, CompletePurge,
    PurgeCrash, ProposeObjectCleanup, AuthorizeObjectCleanup
<1>9. CASE AuthorizeDocumentPurge \/ CancelDocumentPurge
  <2>1. SameRow(doc', doc)
    BY <1>1, <1>9, AuthorizeShape, CancelShape
  <2>2. UNCHANGED <<restoring, objects>> /\ (overtaken => overtaken')
    <3>1. CASE AuthorizeDocumentPurge
      BY <3>1 DEF AuthorizeDocumentPurge
    <3>2. CASE CancelDocumentPurge
      <4> DEFINE lifted == /\ doc.status = "purge_quarantined"
                           /\ purge[doc.id].held # purge[doc.id].seen.status
      <4>1. UNCHANGED <<restoring, objects>> /\ overtaken' = (overtaken \/ lifted)
        BY <3>2 DEF CancelDocumentPurge
      <4> HIDE DEF lifted
      <4> QED
        BY <4>1
    <3> QED
      BY <1>9, <3>1, <3>2
  <2> QED
    BY <2>1, <2>2 DEF SameRow
<1>10. CASE PurgeDatabase
  <2>1. ~HasDoc' /\ UNCHANGED <<restoring, objects, overtaken>>
    BY <1>10, NoDocument DEF PurgeDatabase, HasDoc
  <2> QED
    BY <2>1
<1>11. CASE PurgeObject
  <2>1. PICK k \in purging.todo : objects' \in {objects, objects \ {k}}
    BY <1>11 DEF PurgeObject
  <2>2. UNCHANGED <<doc, restoring, overtaken>>
    BY <1>11 DEF PurgeObject
  <2>3. /\ purging.doc \in DocIds /\ purging.doc # doc.id /\ purge[purging.doc].seen.id = purging.doc
        /\ k \in PurgeTargets(purge[purging.doc].seen)
    BY <1>1, <2>1, PurgeTypes DEF PurgedIsGone, PurgeDecided
  <2>4. k[1] # doc.id \/ ~HasDoc
    BY <2>3, NoDocument DEF PurgeTargets, UploadKey, HasDoc
  <2> QED
    BY <2>1, <2>2, <2>4
<1>12. CASE DeleteOrphan
  <2>1. UNCHANGED <<doc, restoring, overtaken>> /\ objects' \in {objects, objects \ {UploadKey(cleaning)}}
    BY <1>12 DEF DeleteOrphan
  <2> QED
    BY <2>1, NoDocument DEF UploadKey, HasDoc
<1> QED
  BY <1>2, <1>3, <1>4, <1>5, <1>6, <1>7, <1>8, <1>9, <1>10, <1>11, <1>12 DEF DocumentsNext, RestoreSteps

LEMMA RestoreInvNext == ASSUME DocumentsInv, [DocumentsNext]_documentVars PROVE RestoreInv'
<1>1. /\ StoreInv /\ RestoreInv /\ BaseInv /\ restoring \in Restores
      /\ restoring # NoRestore => restoring.doc \in DocIds /\ restoring.key \in Contents /\ KnownDoc(restoring.doc)
      /\ doc \in DocRow /\ (HasDoc => KnownDoc(doc.id))
  BY DEF DocumentsInv, StoreInv, IndexInv, RestoreInv, Restores, BaseInv, StoreTypes, KnownIncarnations
<1>2. \A d \in DocIds : KnownDoc(d) => KnownDoc(d)'
  BY <1>1, JobsLast
<1>3. CASE RestoreSteps
  <2>1. ASSUME restoring' = NoRestore PROVE RestoreInv'
    BY <2>1 DEF RestoreInv, Restores
  <2>2. CASE ReadArchived
    <3>1. HasDoc /\ doc.id \in DocIds /\ doc.sha \in Contents
      BY <1>1, <2>2, DocumentTypes DEF BaseInv, HasDoc, ReadArchived
    <3>2. /\ restoring' = [at |-> "fetch", doc |-> doc.id, key |-> doc.sha, known |-> FALSE]
          /\ doc' = doc
      BY <2>2 DEF ReadArchived, NoRestore
    <3>3. restoring' \in Restores
      BY <3>1, <3>2 DEF Restores
    <3> QED
      BY <1>1, <1>2, <3>1, <3>2, <3>3 DEF RestoreInv, KnownDoc
  <2>3. CASE FetchArchived \/ LookForVersion
    <3>1. UNCHANGED <<doc, overtaken>> /\ restoring # NoRestore
      BY <2>3 DEF FetchArchived, LookForVersion, NoRestore
    <3>2. restoring \in [at : {"fetch", "look", "put", "commit"}, doc : DocIds, key : Contents, known : BOOLEAN]
      BY <1>1, <3>1 DEF Restores
    <3>3. CASE restoring' # NoRestore
      <4>1. \/ restoring' = [restoring EXCEPT !.at = "look"]
            \/ restoring' = [restoring EXCEPT !.at = "put", !.known = restoring.key \in doc.versions]
        <5>1. CASE FetchArchived
          BY <3>3, <5>1 DEF FetchArchived
        <5>2. CASE LookForVersion
          <6> DEFINE found == [restoring EXCEPT !.at = "put", !.known = restoring.key \in doc.versions]
          <6>1. restoring' = IF doc.id # restoring.doc THEN NoRestore ELSE found
            BY <5>2 DEF LookForVersion
          <6>2. restoring' = found
            <7> HIDE DEF found, NoRestore
            <7> QED
              BY <3>3, <6>1
          <6> QED
            BY <6>2
        <5> QED
          BY <2>3, <5>1, <5>2
      <4>2. PICK at \in {"look", "put"}, known \in BOOLEAN :
              restoring' = [restoring EXCEPT !.at = at, !.known = known]
        <5>1. CASE restoring' = [restoring EXCEPT !.at = "look"]
          <6>1. restoring' = [restoring EXCEPT !.at = "look", !.known = restoring.known] /\ restoring.known \in BOOLEAN
            BY <3>2, <5>1
          <6> QED
            BY <6>1
        <5>2. CASE restoring' = [restoring EXCEPT !.at = "put", !.known = restoring.key \in doc.versions]
          <6> DEFINE k == restoring.key \in doc.versions
          <6>1. k \in BOOLEAN /\ restoring' = [restoring EXCEPT !.at = "put", !.known = k]
            BY <5>2
          <6> HIDE DEF k
          <6> QED
            BY <6>1
        <5> QED
          BY <4>1, <5>1, <5>2
      <4>3. /\ restoring' \in Restores /\ restoring'.at \in {"look", "put"}
            /\ restoring'.doc = restoring.doc /\ restoring'.key = restoring.key
        BY <3>2, <4>2 DEF Restores
      <4> QED
        BY <1>1, <1>2, <3>1, <3>2, <4>3 DEF RestoreInv, KnownDoc
    <3> QED
      BY <2>1, <3>3
  <2>4. CASE StoreVersion
    <3>1. /\ UNCHANGED <<doc, overtaken>> /\ restoring # NoRestore /\ restoring' = [restoring EXCEPT !.at = "commit"]
          /\ objects' = objects \cup {<<restoring.doc, restoring.key>>}
      BY <2>4 DEF StoreVersion, NoRestore
    <3>2. restoring \in [at : {"fetch", "look", "put", "commit"}, doc : DocIds, key : Contents, known : BOOLEAN]
      BY <1>1, <3>1 DEF Restores
    <3>3. /\ restoring' \in Restores /\ restoring'.doc = restoring.doc /\ restoring'.key = restoring.key
      BY <3>1, <3>2 DEF Restores
    <3> QED
      BY <1>1, <1>2, <3>1, <3>2, <3>3 DEF RestoreInv, KnownDoc
  <2>5. CASE CommitRestore \/ RestoreFails
    BY <2>1, <2>5 DEF CommitRestore, RestoreFails
  <2> QED
    BY <1>3, <2>2, <2>3, <2>4, <2>5 DEF RestoreSteps
<1>4. CASE CommitUpload
  <2>1. /\ UNCHANGED <<restoring, objects>> /\ doc'.id = doc.id /\ doc'.sha = upload.content
        /\ overtaken' = (overtaken \/ UploadOvertakes)
    BY <1>1, <1>4, CommitShape DEF CommitUpload
  <2> QED
    BY <1>1, <1>2, <2>1 DEF RestoreInv, UploadOvertakes, KnownDoc
<1>5. CASE ~RestoreSteps /\ ~CommitUpload
  <2>1. /\ UNCHANGED restoring /\ (overtaken => overtaken')
        /\ HasDoc' => \/ doc'.id = doc.id /\ doc'.sha = doc.sha
                      \/ ~KnownDoc(doc'.id)
        /\ HasDoc => \A c \in Contents : <<doc.id, c>> \in objects => <<doc.id, c>> \in objects'
    BY <1>1, <1>5, OthersLeaveRestores
  <2>2. ASSUME restoring # NoRestore, restoring.doc = doc'.id
        PROVE  HasDoc' /\ HasDoc /\ doc'.id = doc.id /\ doc'.sha = doc.sha
    BY <1>1, <2>1, <2>2 DEF HasDoc
  <2> QED
    BY <1>1, <1>2, <2>1, <2>2 DEF RestoreInv, KnownDoc
<1> QED
  BY <1>3, <1>4, <1>5

LEMMA StoreInvNext == ASSUME DocumentsInv, [DocumentsNext]_documentVars PROVE DocumentsInv'
<1> USE DEF DocumentsInv
<1>1. CASE UNCHANGED documentVars
  <2>1. IndexInv'
    BY <1>1 DEF documentVars, StoreInv, IndexInv, BaseInv, StoreTypes, KnownIncarnations, HasDoc, KnownDoc, IndexesAlone,
      QuarantineHolds, ServesItsContent
  <2>2. StoreInv'
    BY <1>1, <2>1, StoreStays DEF documentVars
  <2> QED
    BY <2>2, RestoreInvNext
<1>2. CASE JobLeaseExpires \/ ReconcileStaleDocumentJobs
  <2>1. /\ BaseInv'
        /\ UNCHANGED <<doc, docWorker, rowHolder, upload, objects, cited, purge, purging, cleaning, overtaken, restored>>
    BY <1>2, JobShape DEF StoreInv, IndexInv
  <2>2. IndexInv'
    BY <2>1, DeletionKeepsIndex DEF StoreInv
  <2>3. StoreInv'
    BY <2>1, <2>2, StoreStays
  <2> QED
    BY <2>3, RestoreInvNext
<1>3. CASE PutObject \/ CommitUpload \/ CommitFirstUpload \/ UploadFails
  BY <1>3, UploadKeepsIndex, UploadKeepsStore, RestoreInvNext DEF StoreInv
<1>4. CASE UploadUnsupported \/ RetryDocument \/ ArchiveDocument \/ CiteCurrentVersion
  BY <1>4, PageKeepsIndex, PageKeepsStore, RestoreInvNext DEF StoreInv
<1>5. CASE RestoreSteps
  BY <1>5, RestoreKeepsIndex, RestoreKeepsStore, RestoreInvNext
<1>6. ASSUME NEW w \in IndexWorkers,
             \/ ClaimNextDocumentJob(w) \/ ReadDocument(w) \/ LockDocument(w) \/ IndexDocument(w)
             \/ SourceUnavailable(w) \/ FailIndex(w) \/ FinishJob(w) \/ WorkerCrash(w)
      PROVE  StoreInv'
  BY <1>6, WorkerKeepsIndex, WorkerKeepsStore DEF StoreInv
<1>7. CASE ProposeDocumentPurge \/ AuthorizeDocumentPurge \/ CancelDocumentPurge \/ PurgeDatabase
  BY <1>7, PurgeKeepsIndex, ProposalKeepsStore, PurgeKeepsStore, RestoreInvNext DEF StoreInv
<1> QED
  BY <1>1, <1>2, <1>3, <1>4, <1>5, <1>6, <1>7, ResumeKeepsStore, ReconcileKeepsStore, CleanupKeepsStore, RestoreInvNext
    DEF DocumentsNext, RestoreSteps

LEMMA StoreInvHolds == DocumentsSpec => []DocumentsInv
<1>1. DocumentsInit => DocumentsInv
  BY StoreInvInit DEF DocumentsInit, DocumentsInv, RestoreInv, Restores
<1>2. DocumentsInv /\ [DocumentsNext]_documentVars => DocumentsInv'
  BY StoreInvNext
<1> QED
  BY <1>1, <1>2, PTL DEF DocumentsSpec

\* Whatever uploads, retries, restores, purges and crashes meet the index job of
\* a document, an active one serves the chunks of the bytes its row names, but for
\* the three races that set overtaken: an upload that commits under the read of an
\* indexer or of a restore, and a purge cancelled after its document had changed.
THEOREM ContentIsServed == DocumentsSpec => []ServesItsContent
<1>1. DocumentsInv => ServesItsContent
  BY DEF DocumentsInv, StoreInv, IndexInv
<1> QED
  BY <1>1, StoreInvHolds, PTL

\* No purge and no cleanup, with failed deletes, crashes and resumed reconciliations,
\* deletes bytes a row or a citation names unless they were stored again after
\* its last look; and a completed purge left no version behind but what a restore
\* put back after the rows were gone.
THEOREM ObjectsAlwaysMatch == DocumentsSpec => []ObjectsMatchRows
<1>1. DocumentsInv => ObjectsMatchRows
  <2>1. SUFFICES ASSUME StoreInv PROVE ObjectsMatchRows
    BY DEF DocumentsInv
  <2>2. BaseInv /\ BytesAreSafe /\ VersionsAreStored /\ CitedStands /\ PurgedIsDeleted
    BY <2>1 DEF StoreInv, IndexInv
  <2>3. doc # NoDoc => HasDoc
    BY <2>2, DocumentTypes DEF BaseInv
  <2>4. \A v \in cited : v = <<v[1], v[2]>>
    BY <2>2 DEF BaseInv, StoreTypes
  <2>5. \A v \in cited : doc.id = v[1] /\ v[2] \in doc.versions /\ v \in objects
    BY <2>2, <2>4 DEF CitedStands, VersionsAreStored
  <2> QED
    BY <2>2, <2>3, <2>5 DEF ObjectsMatchRows, BytesAreSafe, Safe, PurgedIsDeleted
<1> QED
  BY <1>1, StoreInvHolds, PTL

-----------------------------------------------------------------------------
(* A file of a folder, its versions and what quotes them. *)

Life == {"kept", "object_cleanup_pending", "completed", "completed_object_retained_shared"}
CopyRow == [sha : Texts \cup {NoText}, fidelity : {"byte_exact", "reconstructed_text", "unavailable"},
            chunks : Texts \cup {NoText}, life : Life, torn : BOOLEAN]
SourceRecord ==
  [status : {"none", "active", "archived", "source_unavailable"}, sha : Texts \cup {NoText},
   chunks : Texts \cup {NoText}, intended : BOOLEAN, restore : BOOLEAN, current : Nat]
Session ==
  [op : {"none", "refresh", "vanished", "archive", "restore"}, row : SourceRecord,
   saw : Texts \cup {NoText}, at : {"read", "stored"}, reused : Nat, missed : BOOLEAN]
Filling ==
  [at : {"idle", "listed", "examined"}, row : SourceRecord, no : Nat, new : CopyRow,
   copying : Texts \cup {NoText}, point : BOOLEAN, mark : BOOLEAN, torn : BOOLEAN]

FolderTypes ==
  /\ file \in Texts \cup {"missing", "unreachable"} /\ source \in SourceRecord
  /\ copies \in Seq(CopyRow)
  /\ admin \in [Admins -> Session] /\ filling \in Filling

\* What the row says of its legacy chunks, also while it is put away.
RowTells ==
  ~apart => /\ source.chunks \in {source.sha, NoText}
            /\ source.status = "active" => source.chunks = source.sha

\* A version called byte_exact has its bytes, its chunks are of its text, and there is
\* one placeholder and one retained version of a text.
VersionTrue(n) ==
  /\ copies[n].fidelity = "byte_exact" => copies[n].sha \in kept \cup overrun
  /\ copies[n].chunks \in {copies[n].sha, NoText} \/ copies[n].torn
  /\ \A m \in DOMAIN copies \ {n} :
       Stands(m) /\ copies[m].sha = copies[n].sha =>
         (copies[m].fidelity = "unavailable") # (copies[n].fidelity = "unavailable")
VersionsTrue == \A n \in DOMAIN copies : Stands(n) => VersionTrue(n)

ReliedStands == \A n \in relied : Stands(n)

\* The bytes a session relies on are in the store, or it was overrun; and one that may
\* take a document out of the archive without being asked to had not read it there.
Knows(s, stored) ==
  /\ s.at = "stored" /\ ~s.missed => s.saw \in stored
  /\ s.at = "stored" => s.op \in {"refresh", "restore"}
  /\ s.op = "refresh" => ~PutAway(s.row)
SessionsKnow == \A p \in Admins : Knows(admin[p], kept \cup overrun)

\* So with the backfill, whose chunks are those of the text it has in hand.
FillingKnows ==
  /\ filling.new.fidelity = "byte_exact" => filling.new.sha \in kept \cup overrun
  /\ filling.new.chunks \in {filling.new.sha, NoText} \/ filling.new.torn
  /\ filling.new.life = "kept"
  /\ filling.no \in {0} \cup DOMAIN copies
  /\ filling.no # 0 /\ filling.copying # NoText => filling.copying = copies[filling.no].sha \/ filling.torn
  /\ filling.at # "examined" => filling.no = 0
  /\ filling.mark => filling.row.status = "active"

FolderInv ==
  FolderTypes /\ RowTells /\ VersionsTrue /\ ReliedStands /\ SessionsKnow /\ FillingKnows

\* Who relies on an object about to be deleted came after the look for another version.
Relying(t) == Writing(t) \/ Shared(t)
DeletesUnrelied ==
  /\ deleting \subseteq DOMAIN copies
  /\ \A n \in deleting : /\ copies[n].life = "object_cleanup_pending"
                         /\ Relying(copies[n].sha) => copies[n].sha \in overrun

FolderSafe == FolderInv /\ DeletesUnrelied

-----------------------------------------------------------------------------
LEMMA NothingIsTyped == NoSource \in SourceRecord /\ NoCopy \in CopyRow /\ NoSession \in Session /\ NotFilling \in Filling
<1>1. NoSource \in SourceRecord
  BY DEF NoSource, SourceRecord
<1>2. NoCopy \in CopyRow
  BY DEF NoCopy, CopyRow, Life
<1> QED
  BY <1>1, <1>2 DEF NoSession, Session, NotFilling, Filling

LEMMA FolderInvInit == ASSUME FolderInit PROVE FolderInv
<1> DEFINE RowIsTrue == /\ source \in SourceRecord /\ source.chunks \in {source.sha, NoText}
                        /\ source.status = "active" => source.chunks = source.sha
<1>1. RowIsTrue
  <2>1. CASE source = NoSource
    BY <2>1, NothingIsTyped DEF NoSource
  <2>2. ASSUME NEW t \in Texts, source = [NoSource EXCEPT !.status = "active", !.sha = t, !.chunks = t]
        PROVE  RowIsTrue
    BY <2>2 DEF NoSource, SourceRecord
  <2>3. ASSUME NEW t \in Texts, source = [NoSource EXCEPT !.status = "archived", !.sha = t]
        PROVE  RowIsTrue
    BY <2>3 DEF NoSource, SourceRecord
  <2> QED
    BY <2>1, <2>2, <2>3 DEF FolderInit
<1>2. /\ file \in Texts \cup {"missing", "unreachable"} /\ copies = <<>> /\ relied = {}
      /\ admin = [p \in Admins |-> NoSession] /\ filling = NotFilling
  BY DEF FolderInit
<1>3. copies \in Seq(CopyRow) /\ DOMAIN copies = {}
  BY <1>2
<1>4. FolderTypes
  BY <1>1, <1>2, <1>3, NothingIsTyped DEF FolderTypes
<1>5. RowTells
  BY <1>1 DEF RowTells
<1>6. VersionsTrue /\ ReliedStands /\ SessionsKnow /\ FillingKnows
  BY <1>2, <1>3 DEF VersionsTrue, ReliedStands, SessionsKnow, Knows, FillingKnows, NoSession, NotFilling, NoCopy
<1> QED
  BY <1>4, <1>5, <1>6 DEF FolderInv

\* A step of one admin.
LEMMA OneSession ==
  ASSUME FolderInv, NEW p \in Admins, NEW s \in Session, admin' = [admin EXCEPT ![p] = s],
         kept \cup overrun \subseteq kept' \cup overrun', Knows(s, kept' \cup overrun')
  PROVE  admin' \in [Admins -> Session] /\ SessionsKnow'
<1>1. admin \in [Admins -> Session] /\ SessionsKnow
  BY DEF FolderInv, FolderTypes
<1>2. admin' \in [Admins -> Session] /\ \A q \in Admins : admin'[q] = IF q = p THEN s ELSE admin[q]
  BY <1>1
<1>3. \A q \in Admins : Knows(admin[q], kept \cup overrun) => Knows(admin[q], kept' \cup overrun')
  BY DEF Knows
<1> QED
  BY <1>1, <1>2, <1>3 DEF SessionsKnow, Knows

LEMMA SessionEnds ==
  ASSUME FolderInv, NEW p \in Admins, admin' = [admin EXCEPT ![p] = NoSession],
         kept \cup overrun \subseteq kept' \cup overrun'
  PROVE  admin' \in [Admins -> Session] /\ SessionsKnow'
<1>1. Knows(NoSession, kept' \cup overrun')
  BY DEF Knows, NoSession
<1> QED
  BY <1>1, NothingIsTyped, OneSession

\* Nothing is versioned, quoted or filled in.
Standstill == UNCHANGED <<copies, filling, relied>> /\ kept \cup overrun \subseteq kept' \cup overrun'

LEMMA FolderSessionMoves ==
  ASSUME FolderInv, Standstill, file' \in Texts \cup {"missing", "unreachable"},
         source' \in SourceRecord, RowTells', admin' \in [Admins -> Session], SessionsKnow'
  PROVE  FolderInv'
<1> USE DEF Standstill
<1>1. FolderTypes'
  BY DEF FolderInv, FolderTypes
<1>2. VersionsTrue' /\ ReliedStands'
  BY DEF FolderInv, VersionsTrue, VersionTrue, ReliedStands, Stands
<1>3. FillingKnows'
  BY DEF FolderInv, FillingKnows
<1> QED
  BY <1>1, <1>2, <1>3 DEF FolderInv

LEMMA BeginsKeeps ==
  ASSUME FolderInv, NEW p \in Admins, NEW op \in {"refresh", "vanished", "archive", "restore"},
         NEW t \in Texts \cup {NoText}, Begins(p, op, t), op = "refresh" => ~PutAway(source)
  PROVE  FolderInv'
<1> DEFINE s == [NoSession EXCEPT !.op = op, !.row = source, !.saw = t]
<1>1. /\ admin' = [admin EXCEPT ![p] = s] /\ Standstill /\ UNCHANGED <<file, source, apart>>
  BY DEF Begins, Standstill
<1>2. source \in SourceRecord
  BY DEF FolderInv, FolderTypes
<1>3. s \in Session /\ Knows(s, kept' \cup overrun')
  BY <1>2, NothingIsTyped DEF Session, NoSession, Knows
<1> HIDE DEF s
<1>4. RowTells' /\ file' \in Texts \cup {"missing", "unreachable"} /\ source' \in SourceRecord
  BY <1>1, <1>2 DEF FolderInv, FolderTypes, RowTells
<1> QED
  BY <1>1, <1>3, <1>4, OneSession, FolderSessionMoves DEF Standstill

LEMMA FolderReadKeeps ==
  ASSUME FolderInv, NEW p \in Admins, RefreshReads(p) \/ ArchiveReads(p) \/ RestoreReads(p)
  PROVE  FolderInv'
<1>1. CASE RefreshReads(p)
  BY <1>1, BeginsKeeps DEF RefreshReads, Refreshes
<1>2. CASE ArchiveReads(p)
  BY <1>2, BeginsKeeps DEF ArchiveReads
<1>3. CASE RestoreReads(p)
  BY <1>3, BeginsKeeps DEF RestoreReads
<1> QED
  BY <1>1, <1>2, <1>3

LEMMA SessionEndKeeps ==
  ASSUME FolderInv, NEW p \in Admins, admin' = [admin EXCEPT ![p] = NoSession], Standstill, file' = file,
         source' \in SourceRecord, RowTells'
  PROVE  FolderInv'
BY SessionEnds, FolderSessionMoves DEF Standstill, FolderInv, FolderTypes

LEMMA ArchivingKeeps ==
  ASSUME FolderInv, NEW p \in Admins, Archives(p) \/ RestoreRequests(p) \/ SessionFails(p)
  PROVE  FolderInv'
<1>1. source \in SourceRecord /\ RowTells
  BY DEF FolderInv, FolderTypes
<1>2. CASE Archives(p)
  <2>1. PICK left \in {NoText, IF source = admin[p].row THEN NoText ELSE source.chunks} :
          source' = [source EXCEPT !.status = "archived", !.chunks = left,
                       !.intended = @ \/ admin[p].op = "archive",
                       !.restore = @ /\ admin[p].op = "vanished"]
    BY <1>2 DEF Archives
  <2>2. left \in {NoText, source.chunks}
    BY <2>1
  <2>3. source' \in SourceRecord /\ source'.status = "archived" /\ source'.chunks = left /\ source'.sha = source.sha
    <3>1. (source.intended \/ admin[p].op = "archive") \in BOOLEAN /\ (source.restore /\ admin[p].op = "vanished") \in BOOLEAN
      OBVIOUS
    <3> QED
      BY <1>1, <2>1, <2>2, <3>1 DEF SourceRecord
  <2>4. RowTells'
    BY <1>1, <1>2, <2>2, <2>3 DEF RowTells, Archives
  <2>5. admin' = [admin EXCEPT ![p] = NoSession] /\ Standstill /\ file' = file
    BY <1>2 DEF Archives, Standstill
  <2> QED
    BY <2>3, <2>4, <2>5, SessionEndKeeps
<1>3. CASE RestoreRequests(p)
  <2>1. source' \in SourceRecord /\ RowTells'
    BY <1>1, <1>3 DEF RestoreRequests, SourceRecord, RowTells
  <2> QED
    BY <1>3, <2>1, SessionEndKeeps DEF RestoreRequests, Standstill
<1>4. CASE SessionFails(p)
  BY <1>1, <1>4, SessionEndKeeps DEF SessionFails, Standstill, RowTells
<1> QED
  BY <1>2, <1>3, <1>4

LEMMA CopiesAreSeq ==
  ASSUME FolderTypes
  PROVE  /\ Len(copies) \in Nat /\ DOMAIN copies = 1 .. Len(copies)
         /\ \A n \in DOMAIN copies : n \in Nat /\ n # 0 /\ copies[n] \in CopyRow
<1>1. copies \in Seq(CopyRow)
  BY DEF FolderTypes
<1> QED
  BY <1>1

LEMMA PutsKeeps ==
  ASSUME NEW t, Puts(t)
  PROVE  /\ kept' = kept \cup {t} /\ kept \cup overrun \subseteq kept' \cup overrun'
         /\ overrun \subseteq overrun' \cup {t} /\ overrun' \subseteq overrun \cup {t}
BY DEF Puts

LEMMA StoringKeeps == ASSUME FolderInv, NEW p \in Admins, Stores(p) PROVE FolderInv'
<1>1. FolderTypes /\ RowTells /\ SessionsKnow /\ admin[p] \in Session
  BY DEF FolderInv, FolderTypes
<1> DEFINE t == admin[p].saw
           reused == IF Retained(t) = {} THEN 0 ELSE CHOOSE n \in Retained(t) : TRUE
           stored == [admin[p] EXCEPT !.at = "stored", !.reused = reused]
           missed == [admin[p] EXCEPT !.at = "stored", !.missed = TRUE]
<1>2. reused \in Nat
  BY <1>1, CopiesAreSeq DEF Retained, Standing
<1>3. UNCHANGED <<file, source, copies, filling, relied, apart>> /\ admin \in [Admins -> Session]
  BY <1>1 DEF Stores, FolderTypes
<1>4. \/ admin' = [admin EXCEPT ![p] = NoSession] /\ UNCHANGED <<kept, overrun>>
      \/ admin' = [admin EXCEPT ![p] = stored] /\ Puts(t)
      \/ admin' = [admin EXCEPT ![p] = missed] /\ UNCHANGED <<kept, overrun>>
  BY <1>3 DEF Stores
<1>5. stored \in Session /\ missed \in Session
  BY <1>1, <1>2 DEF Session
<1>6. kept \cup overrun \subseteq kept' \cup overrun' /\ Standstill
  BY <1>3, <1>4, PutsKeeps DEF Standstill
<1>7. /\ t \in kept' => Knows(stored, kept' \cup overrun')
      /\ Knows(missed, kept' \cup overrun')
  BY <1>1 DEF Stores, SessionsKnow, Knows, Session
<1> HIDE DEF t, reused, stored, missed
<1>8. admin' \in [Admins -> Session] /\ SessionsKnow'
  BY <1>4, <1>5, <1>6, <1>7, PutsKeeps, OneSession, SessionEnds
<1>9. RowTells' /\ file' \in Texts \cup {"missing", "unreachable"} /\ source' \in SourceRecord
  BY <1>1, <1>3 DEF FolderTypes, RowTells
<1> QED
  BY <1>6, <1>8, <1>9, FolderSessionMoves

\* A version of a text is added where none of its kind stands.
LEMMA CopyAdded ==
  ASSUME FolderInv, NEW c \in CopyRow, c.life = "kept", copies' = Append(copies, c),
         kept \cup overrun \subseteq kept' \cup overrun',
         c.fidelity = "byte_exact" => c.sha \in kept \cup overrun,
         c.chunks \in {c.sha, NoText} \/ c.torn,
         \A n \in Standing(c.sha) : (c.fidelity = "unavailable") # (copies[n].fidelity = "unavailable")
  PROVE  /\ copies' \in Seq(CopyRow) /\ Len(copies') = Len(copies) + 1
         /\ \A n \in DOMAIN copies : n \in DOMAIN copies' /\ copies'[n] = copies[n]
         /\ VersionsTrue'
<1>1. FolderTypes /\ VersionsTrue /\ copies \in Seq(CopyRow)
  BY DEF FolderInv, FolderTypes
<1>2. /\ copies' \in Seq(CopyRow) /\ Len(copies') = Len(copies) + 1
      /\ DOMAIN copies = 1 .. Len(copies) /\ DOMAIN copies' = 1 .. Len(copies) + 1
      /\ copies'[Len(copies) + 1] = c /\ \A n \in 1 .. Len(copies) : copies'[n] = copies[n]
  BY <1>1, AppendProperties
<1>3. Len(copies) \in Nat
  BY <1>1
<1>4. \A n \in DOMAIN copies : n \in DOMAIN copies' /\ copies'[n] = copies[n]
  BY <1>2, <1>3
<1>5. PICK new : new = Len(copies) + 1
  OBVIOUS
<1>6. copies'[new] = c /\ new \notin DOMAIN copies /\ DOMAIN copies' = DOMAIN copies \cup {new}
  BY <1>2, <1>3, <1>5
<1>7. \A n \in Standing(c.sha) : (c.fidelity = "unavailable") # (copies[n].fidelity = "unavailable")
  OBVIOUS
<1>8. ASSUME NEW n \in DOMAIN copies', Stands(n)' PROVE VersionTrue(n)'
  <2>1. CASE n = new
    <3>1. ASSUME NEW m \in DOMAIN copies' \ {n}, Stands(m)', copies'[m].sha = copies'[n].sha
          PROVE  (copies'[m].fidelity = "unavailable") # (copies'[n].fidelity = "unavailable")
      <4>1. m \in Standing(c.sha) /\ copies'[m] = copies[m]
        BY <1>4, <1>6, <2>1, <3>1 DEF Standing, Stands
      <4> QED
        BY <1>6, <1>7, <2>1, <4>1
    <3> QED
      BY <1>6, <2>1, <3>1 DEF VersionTrue
  <2>2. CASE n \in DOMAIN copies
    <3>1. Stands(n) /\ copies'[n] = copies[n] /\ VersionTrue(n)
      BY <1>1, <1>4, <1>8, <2>2 DEF Stands, VersionsTrue
    <3>2. ASSUME NEW m \in DOMAIN copies' \ {n}, Stands(m)', copies'[m].sha = copies'[n].sha
          PROVE  (copies'[m].fidelity = "unavailable") # (copies'[n].fidelity = "unavailable")
      <4>1. CASE m = new
        <5>1. n \in Standing(c.sha)
          BY <1>6, <3>1, <3>2, <4>1 DEF Standing, Stands
        <5> QED
          BY <1>6, <1>7, <3>1, <4>1, <5>1
      <4>2. CASE m \in DOMAIN copies
        BY <1>4, <3>1, <3>2, <4>2 DEF VersionTrue, Stands
      <4> QED
        BY <1>6, <3>2, <4>1, <4>2
    <3>3. (copies[n].fidelity = "byte_exact" => copies[n].sha \in kept \cup overrun) /\ (copies[n].chunks \in {copies[n].sha, NoText} \/ copies[n].torn)
      BY <3>1 DEF VersionTrue
    <3> QED
      BY <3>1, <3>2, <3>3 DEF VersionTrue
  <2> QED
    BY <1>6, <2>1, <2>2
<1>9. VersionsTrue'
  BY <1>8 DEF VersionsTrue
<1> QED
  BY <1>2, <1>4, <1>9

\* Versions that keep standing keep their text and its fidelity.
LEMMA VersionsKeep ==
  ASSUME FolderInv, copies' \in Seq(CopyRow), DOMAIN copies' = DOMAIN copies,
         \A n \in DOMAIN copies :
           /\ Stands(n)' => Stands(n)
           /\ copies'[n].sha = copies[n].sha /\ copies'[n].fidelity = copies[n].fidelity
           /\ Stands(n)' /\ copies[n].fidelity = "byte_exact" /\ copies[n].sha \in kept \cup overrun =>
                copies[n].sha \in kept' \cup overrun'
           /\ \/ copies'[n].chunks = copies[n].chunks /\ copies'[n].torn = copies[n].torn
              \/ copies'[n].chunks = copies[n].sha \/ copies'[n].torn
  PROVE  VersionsTrue'
<1>1. VersionsTrue
  BY DEF FolderInv
<1>2. ASSUME NEW n \in DOMAIN copies', Stands(n)' PROVE VersionTrue(n)'
  <2>1. Stands(n) /\ n \in DOMAIN copies /\ VersionTrue(n)
    BY <1>1, <1>2 DEF VersionsTrue
  <2>2. /\ copies'[n].fidelity = "byte_exact" => copies'[n].sha \in kept' \cup overrun'
        /\ copies'[n].chunks \in {copies'[n].sha, NoText} \/ copies'[n].torn
    BY <1>2, <2>1 DEF VersionTrue
  <2>3. ASSUME NEW m \in DOMAIN copies' \ {n}, Stands(m)', copies'[m].sha = copies'[n].sha
        PROVE  (copies'[m].fidelity = "unavailable") # (copies'[n].fidelity = "unavailable")
    BY <2>1, <2>3 DEF VersionTrue
  <2> QED
    BY <2>2, <2>3 DEF VersionTrue
<1> QED
  BY <1>2 DEF VersionsTrue

\* Versions are added or change in place, and what names them by number still does.
LEMMA NumbersStand ==
  ASSUME FolderInv, \A n \in DOMAIN copies : n \in DOMAIN copies' /\ copies'[n].sha = copies[n].sha
                                            /\ (Stands(n) => Stands(n)'),
         UNCHANGED <<filling, relied>>, kept \cup overrun \subseteq kept' \cup overrun'
  PROVE  ReliedStands' /\ FillingKnows'
<1>1. ReliedStands' BY DEF FolderInv, ReliedStands, Stands
<1>2. FillingKnows /\ FolderTypes
  BY DEF FolderInv
<1>3. filling.no # 0 /\ filling.copying # NoText => filling.copying = copies'[filling.no].sha \/ filling.torn
  BY <1>2 DEF FillingKnows
<1>4. FillingKnows'
  BY <1>2, <1>3 DEF FillingKnows
<1> QED
  BY <1>1, <1>4

LEMMA IndexedShape ==
  ASSUME FolderTypes, NEW p \in Admins, admin[p].at = "stored", admin[p].saw \in Texts \cup {NoText}
  PROVE  /\ Indexed(admin[p]) \in SourceRecord /\ Indexed(admin[p]).status = "active"
         /\ Indexed(admin[p]).chunks = admin[p].saw
         /\ Indexed(admin[p]).sha = IF admin[p].op = "refresh" THEN admin[p].saw ELSE source.sha
<1>1. source \in SourceRecord /\ CurrentAfter(admin[p]) \in Nat
  BY CopiesAreSeq DEF FolderTypes, SourceRecord, CurrentAfter
<1> QED
  BY <1>1 DEF Indexed, SourceRecord

LEMMA CommittingKeeps == ASSUME FolderInv, NEW p \in Admins, Commits(p) PROVE FolderInv'
<1>1. FolderTypes /\ RowTells /\ SessionsKnow /\ Knows(admin[p], kept \cup overrun) /\ admin[p] \in Session
  BY DEF FolderInv, FolderTypes, SessionsKnow
<1>2. /\ admin[p].at = "stored" /\ admin[p].op \in {"refresh", "restore"} /\ admin[p].saw \in Texts \cup {NoText}
      /\ ~admin[p].missed => admin[p].saw \in kept \cup overrun
  BY <1>1 DEF Commits, Knows, Session
<1>3. admin' = [admin EXCEPT ![p] = NoSession] /\ UNCHANGED <<file, kept, filling, relied, overrun>>
  BY DEF Commits
<1>4. CASE UNCHANGED <<source, copies, apart>>
  BY <1>1, <1>3, <1>4, SessionEndKeeps DEF Standstill, FolderTypes, RowTells
<1>5. ASSUME source' = Indexed(admin[p]), copies' = Ingested(admin[p]),
             apart' = (admin[p].op = "restore" /\ admin[p].saw # source.sha),
             ~admin[p].missed /\ admin[p].reused = 0 => Retained(admin[p].saw) = {}
      PROVE  FolderInv'
  <2>1. source' \in SourceRecord /\ RowTells'
    BY <1>1, <1>2, <1>5, IndexedShape DEF RowTells
  <2>2. CASE copies' = copies
    BY <1>3, <2>1, <2>2, SessionEndKeeps DEF Standstill
  <2>3. CASE ~admin[p].missed /\ admin[p].reused = 0
    <3> DEFINE c == [NoCopy EXCEPT !.sha = admin[p].saw, !.fidelity = "byte_exact", !.chunks = admin[p].saw]
    <3>1. copies' = Append(copies, c)
      BY <1>5, <2>3 DEF Ingested
    <3>2. /\ c \in CopyRow /\ c.life = "kept" /\ c.sha = admin[p].saw /\ c.fidelity = "byte_exact"
          /\ c.chunks = admin[p].saw
      BY <1>2 DEF CopyRow, NoCopy, Life
    <3> HIDE DEF c
    <3>3. \A n \in Standing(c.sha) : (c.fidelity = "unavailable") # (copies[n].fidelity = "unavailable")
      BY <1>5, <2>3, <3>2 DEF Retained
    <3>4. /\ copies' \in Seq(CopyRow) /\ VersionsTrue'
          /\ \A n \in DOMAIN copies : n \in DOMAIN copies' /\ copies'[n] = copies[n]
      BY <1>2, <1>3, <2>3, <3>1, <3>2, <3>3, CopyAdded
    <3>5. ReliedStands' /\ FillingKnows'
      BY <1>3, <3>4, NumbersStand DEF Stands
    <3>6. FolderTypes' /\ SessionsKnow'
      BY <1>1, <1>3, <2>1, <3>4, SessionEnds DEF FolderTypes
    <3> QED
      BY <2>1, <3>4, <3>5, <3>6 DEF FolderInv
  <2> QED
    BY <1>5, <2>2, <2>3 DEF Ingested
<1> QED
  BY <1>4, <1>5 DEF Commits

LEMMA ListingKeeps == ASSUME FolderInv, BackfillLists PROVE FolderInv'
<1>1. UNCHANGED <<file, source, copies, kept, admin, relied, apart, overrun>> /\ filling' = [NotFilling EXCEPT !.at = "listed", !.row = source]
  BY DEF BackfillLists
<1>2. filling' \in Filling
  BY <1>1, NothingIsTyped DEF FolderInv, FolderTypes, NotFilling, Filling
<1>3. filling'.new = NoCopy /\ filling'.no = 0 /\ filling'.mark = FALSE
  BY <1>1 DEF NotFilling
<1>4. FillingKnows'
  BY <1>3 DEF FillingKnows, NoCopy
<1>5. FolderTypes' /\ RowTells' /\ VersionsTrue' /\ ReliedStands'
  BY <1>1, <1>2 DEF FolderInv, FolderTypes, RowTells, VersionsTrue, VersionTrue, ReliedStands, Stands
<1>6. SessionsKnow'
  BY <1>1 DEF FolderInv, SessionsKnow, Knows, PutAway
<1> QED
  BY <1>4, <1>5, <1>6 DEF FolderInv

\* The chunks of now are of the listed text, unless the row moved.
LEMMA ChunksOfListed ==
  ASSUME FolderInv
  PROVE  source.chunks \in {filling.row.sha, NoText} \/ Moved(filling.row)
BY DEF FolderInv, RowTells, Moved

LEMMA ExaminingKeeps == ASSUME FolderInv, BackfillExamines PROVE FolderInv'
<1> DEFINE r == filling.row
<1>1. FolderTypes /\ filling \in Filling /\ r \in SourceRecord /\ FillingKnows /\ source \in SourceRecord
  BY DEF FolderInv, FolderTypes, Filling
<1>2. /\ UNCHANGED <<file, source, copies, admin, relied, apart>>
      /\ kept \cup overrun \subseteq kept' \cup overrun'
  <2>1. Puts(r.sha) \/ UNCHANGED <<kept, overrun>>
    BY DEF BackfillExamines
  <2> QED
    BY <2>1, PutsKeeps DEF BackfillExamines
<1>3. \A f : ToMark(r, f) \in BOOLEAN /\ ToPoint(r, f) \in BOOLEAN /\ (ToMark(r, f) => r.status = "active")
  BY DEF ToMark, ToPoint
<1>4. Moved(r) \in BOOLEAN
  BY DEF Moved
<1>5. filling.no = 0
  BY <1>1 DEF BackfillExamines, FillingKnows
<1>6. filling' \in Filling /\ FillingKnows'
  <2>1. CASE filling' = [filling EXCEPT !.at = "examined"]
    <3>1. filling' \in Filling /\ filling'.at = "examined" /\ filling'.new = filling.new /\ filling'.no = filling.no /\ filling'.copying = filling.copying
          /\ filling'.torn = filling.torn /\ filling'.mark = filling.mark /\ filling'.row = filling.row
      BY <1>1, <2>1 DEF Filling
    <3> QED
      BY <1>1, <1>2, <3>1 DEF FillingKnows
  <2>2. ASSUME NEW f \in {"byte_exact", "reconstructed_text", "unavailable"},
               f = "byte_exact" => r.sha \in kept',
               filling' = [filling EXCEPT !.at = "examined",
                   !.new = [NoCopy EXCEPT !.sha = r.sha, !.fidelity = f,
                                          !.chunks = source.chunks, !.torn = Moved(r)],
                   !.point = ToPoint(r, f), !.mark = ToMark(r, f), !.torn = Moved(r)]
        PROVE  filling' \in Filling /\ FillingKnows'
    <3> DEFINE c == [NoCopy EXCEPT !.sha = r.sha, !.fidelity = f, !.chunks = source.chunks, !.torn = Moved(r)]
    <3>1. c \in CopyRow /\ c.life = "kept" /\ c.sha = r.sha /\ c.fidelity = f /\ c.chunks = source.chunks /\ c.torn = Moved(r)
      BY <1>1, <1>4 DEF CopyRow, NoCopy, Life, SourceRecord
    <3>2. filling' = [filling EXCEPT !.at = "examined", !.new = c, !.point = ToPoint(r, f), !.mark = ToMark(r, f), !.torn = Moved(r)]
      BY <2>2
    <3> HIDE DEF c
    <3>3. filling' \in Filling /\ filling'.at = "examined" /\ filling'.new = c /\ filling'.no = filling.no /\ filling'.copying = filling.copying
          /\ filling'.torn = Moved(r) /\ filling'.mark = ToMark(r, f) /\ filling'.row = r
      BY <1>1, <1>3, <1>4, <3>1, <3>2 DEF Filling
    <3>4. c.chunks \in {c.sha, NoText} \/ c.torn
      BY <3>1, ChunksOfListed
    <3>5. f = "byte_exact" => r.sha \in kept' \cup overrun'
      BY <2>2
    <3>6. filling'.no \in {0} \cup DOMAIN copies' /\ copies' = copies
      BY <1>1, <1>2, <3>3 DEF FillingKnows
    <3>7. filling'.no # 0 /\ filling'.copying # NoText => filling'.copying = copies'[filling'.no].sha \/ filling'.torn
      BY <1>1, <1>5, <3>3
    <3> HIDE DEF r
    <3> QED
      BY <1>3, <3>1, <3>3, <3>4, <3>5, <3>6, <3>7 DEF FillingKnows
  <2>3. ASSUME NEW n \in Standing(r.sha), NEW c \in Copyable(n), NEW f,
               filling' = [filling EXCEPT !.at = "examined", !.no = n, !.copying = c,
                          !.point = ToPoint(r, f), !.mark = ToMark(r, f), !.torn = Moved(r)]
        PROVE  filling' \in Filling /\ FillingKnows'
    <3>1. c \in {source.chunks, NoText} /\ c \in Texts \cup {NoText}
      BY <1>1 DEF Copyable, SourceRecord
    <3>2. n \in DOMAIN copies /\ n \in Nat /\ copies[n].sha = r.sha
      BY <1>1, CopiesAreSeq DEF Standing
    <3>3. filling' \in Filling /\ filling'.at = "examined" /\ filling'.new = filling.new /\ filling'.no = n /\ filling'.copying = c
          /\ filling'.torn = Moved(r) /\ filling'.mark = ToMark(r, f) /\ filling'.row = r
      BY <1>1, <1>3, <1>4, <2>3, <3>1, <3>2 DEF Filling
    <3> QED
      BY <1>1, <1>2, <1>3, <3>1, <3>2, <3>3, ChunksOfListed DEF FillingKnows
  <2>4. Fidelity(r.sha) \in {"byte_exact", "reconstructed_text", "unavailable"}
    BY DEF Fidelity
  <2>5. CASE filling' = [filling EXCEPT !.at = "examined"]
    BY <2>1, <2>5
  <2>6. CASE \E n \in Standing(r.sha) : \E c \in Copyable(n) :
               LET f == copies[n].fidelity
               IN filling' = [filling EXCEPT !.at = "examined", !.no = n, !.copying = c,
                          !.point = ToPoint(r, f), !.mark = ToMark(r, f), !.torn = Moved(r)]
    BY <2>3, <2>6
  <2>7. CASE LET f == Fidelity(r.sha)
             IN /\ f = "byte_exact" => r.sha \in kept'
                /\ filling' = [filling EXCEPT !.at = "examined",
                   !.new = [NoCopy EXCEPT !.sha = r.sha, !.fidelity = f,
                                          !.chunks = source.chunks, !.torn = Moved(r)],
                   !.point = ToPoint(r, f), !.mark = ToMark(r, f), !.torn = Moved(r)]
    BY <2>2, <2>4, <2>7
  <2> QED
    BY <2>5, <2>6, <2>7 DEF BackfillExamines, Puts
<1>7. SessionsKnow'
  BY <1>2 DEF FolderInv, SessionsKnow, Knows, PutAway
<1>8. FolderTypes' /\ RowTells' /\ VersionsTrue' /\ ReliedStands'
  BY <1>1, <1>2, <1>6 DEF FolderInv, FolderTypes, RowTells, VersionsTrue, VersionTrue, ReliedStands, Stands
<1> QED
  BY <1>6, <1>7, <1>8 DEF FolderInv

\* The transaction of the backfill is over.
LEMMA FillingEnds == ASSUME filling' = NotFilling PROVE filling' \in Filling /\ FillingKnows'
BY NothingIsTyped DEF FillingKnows, NotFilling, NoCopy

LEMMA AbortKeeps ==
  ASSUME FolderInv, filling' = NotFilling, UNCHANGED <<file, source, copies, kept, admin, relied, apart, overrun>>
  PROVE  FolderInv'
<1>1. FolderTypes' /\ RowTells' /\ VersionsTrue' /\ ReliedStands'
  BY FillingEnds DEF FolderInv, FolderTypes, RowTells, VersionsTrue, VersionTrue, ReliedStands, Stands
<1>2. SessionsKnow'
  BY DEF FolderInv, SessionsKnow, Knows, PutAway
<1> QED
  BY <1>1, <1>2, FillingEnds DEF FolderInv

\* What the backfill leaves, if its versions are as they should be.
LEMMA FillingKeeps ==
  ASSUME FolderInv, filling' = NotFilling, NEW all, NEW n \in Nat, Fills(all, n),
         UNCHANGED <<file, kept, admin, apart, overrun>>,
         copies' \in Seq(CopyRow), VersionsTrue',
         \A i \in DOMAIN copies : Stands(i) => Stands(i)'
  PROVE  FolderInv'
<1>1. FolderTypes /\ source \in SourceRecord /\ RowTells
  BY DEF FolderInv, FolderTypes
<1>2. /\ source' = [source EXCEPT !.current = IF filling.point THEN n ELSE @,
                                   !.status = IF filling.mark THEN "source_unavailable" ELSE @]
      /\ copies' = all /\ relied' = relied \cup Bound(all)
  BY DEF Fills
<1>3. /\ source' \in SourceRecord /\ source'.chunks = source.chunks /\ source'.sha = source.sha
      /\ source'.status \in {source.status, "source_unavailable"}
  BY <1>1, <1>2 DEF SourceRecord
<1>4. RowTells'
  BY <1>1, <1>3 DEF RowTells
<1>5. \A i \in Bound(all) : i \in DOMAIN all /\ all[i].life = "kept"
  BY DEF Bound
<1>6. ReliedStands'
  BY <1>2, <1>5 DEF FolderInv, ReliedStands, Stands
<1>7. SessionsKnow'
  BY DEF FolderInv, SessionsKnow, Knows, PutAway
<1>8. FolderTypes'
  BY <1>1, <1>3, FillingEnds DEF FolderTypes
<1> QED
  BY <1>4, <1>6, <1>7, <1>8, FillingEnds DEF FolderInv

LEMMA CopiedShape ==
  ASSUME FolderTypes, filling.no \in DOMAIN copies, filling.copying # NoText
  PROVE  LET n == filling.no  all == Copied(filling.no, filling)
         IN /\ all \in Seq(CopyRow) /\ DOMAIN all = DOMAIN copies
            /\ \A m \in DOMAIN copies \ {n} : all[m] = copies[m]
            /\ all[n].sha = copies[n].sha /\ all[n].fidelity = copies[n].fidelity /\ all[n].life = copies[n].life
            /\ all[n].chunks = filling.copying /\ all[n].torn = filling.torn
<1> DEFINE n == filling.no
           c == [copies[n] EXCEPT !.chunks = filling.copying]
           d == [c EXCEPT !.torn = filling.torn]
           first == [copies EXCEPT ![n] = c]
<1>1. copies \in Seq(CopyRow) /\ copies[n] \in CopyRow /\ filling \in Filling
  BY CopiesAreSeq DEF FolderTypes
<1>2. filling.copying \in Texts \cup {NoText} /\ filling.torn \in BOOLEAN
  BY <1>1 DEF Filling
<1>3. c \in CopyRow /\ c.sha = copies[n].sha /\ c.fidelity = copies[n].fidelity /\ c.life = copies[n].life /\ c.chunks = filling.copying
  BY <1>1, <1>2 DEF CopyRow
<1>4. /\ d \in CopyRow /\ d.sha = c.sha /\ d.fidelity = c.fidelity /\ d.life = c.life /\ d.chunks = c.chunks
      /\ d.torn = filling.torn
  <2> HIDE DEF c
  <2> QED BY <1>2, <1>3 DEF CopyRow
<1>5. Copied(filling.no, filling) = [first EXCEPT ![n] = [first[n] EXCEPT !.torn = filling.torn]]
  BY DEF Copied
<1> HIDE DEF c, d
<1>6. DOMAIN copies = 1 .. Len(copies) /\ n \in 1 .. Len(copies)
  BY <1>1
<1>7. first \in Seq(CopyRow) /\ Len(first) = Len(copies) /\ first[n] = c /\ \A m \in DOMAIN copies \ {n} : first[m] = copies[m]
  BY <1>1, <1>3, <1>6, ExceptSeq
<1>8. [first[n] EXCEPT !.torn = filling.torn] = d
  BY <1>7 DEF d
<1>9. [first EXCEPT ![n] = d] \in Seq(CopyRow) /\ Len([first EXCEPT ![n] = d]) = Len(first)
  <2> HIDE DEF first
  <2> QED BY <1>4, <1>6, <1>7, ExceptSeq
<1>10. [first EXCEPT ![n] = d][n] = d /\ \A m \in DOMAIN copies \ {n} : [first EXCEPT ![n] = d][m] = copies[m]
  BY <1>6, <1>7
<1>11. DOMAIN [first EXCEPT ![n] = d] = DOMAIN copies
  OBVIOUS
<1> HIDE DEF n, first
<1> QED
  BY <1>3, <1>4, <1>5, <1>8, <1>9, <1>10, <1>11 DEF n

LEMMA BackfillingKeeps == ASSUME FolderInv, BackfillCommits PROVE FolderInv'
<1>1. FolderTypes /\ filling \in Filling /\ FillingKnows /\ VersionsTrue
  BY DEF FolderInv, FolderTypes
<1>2. filling' = NotFilling /\ UNCHANGED <<file, kept, admin, apart, overrun>>
  BY DEF BackfillCommits
<1>3. CASE UNCHANGED <<source, copies, relied>>
  BY <1>2, <1>3, AbortKeeps
<1>4. ASSUME NEW n \in Nat, Fills(copies, n) PROVE FolderInv'
  <2>1. copies' = copies
    BY <1>4 DEF Fills
  <2>2. copies' \in Seq(CopyRow) /\ VersionsTrue'
    BY <1>1, <1>2, <2>1 DEF FolderTypes, VersionsTrue, VersionTrue, Stands
  <2> QED
    BY <1>2, <1>4, <2>1, <2>2, FillingKeeps DEF Stands
<1>5. ASSUME Fills(Append(copies, filling.new), Len(copies) + 1),
             \A n \in Standing(filling.new.sha) :
               (filling.new.fidelity = "unavailable") # (copies[n].fidelity = "unavailable")
      PROVE  FolderInv'
  <2>1. copies' = Append(copies, filling.new) /\ filling.new \in CopyRow /\ Len(copies) + 1 \in Nat
    BY <1>1, <1>5, CopiesAreSeq DEF Fills, Filling
  <2>2. /\ copies' \in Seq(CopyRow) /\ VersionsTrue'
        /\ \A n \in DOMAIN copies : n \in DOMAIN copies' /\ copies'[n] = copies[n]
    BY <1>1, <1>2, <1>5, <2>1, CopyAdded DEF FillingKnows
  <2> QED
    BY <1>2, <1>5, <2>1, <2>2, FillingKeeps DEF Stands
<1>6. ASSUME filling.no # 0, Fills(Copied(filling.no, filling), filling.no) PROVE FolderInv'
  <2>1. filling.no \in DOMAIN copies /\ filling.no \in Nat
    BY <1>1, <1>6, CopiesAreSeq DEF FillingKnows
  <2>2. CASE filling.copying = NoText
    BY <1>4, <1>6, <2>1, <2>2 DEF Copied
  <2>3. CASE filling.copying # NoText
    <3>1. copies' = Copied(filling.no, filling)
      BY <1>6 DEF Fills
    <3>2. /\ copies' \in Seq(CopyRow) /\ DOMAIN copies' = DOMAIN copies
          /\ \A m \in DOMAIN copies :
               /\ copies'[m].sha = copies[m].sha /\ copies'[m].fidelity = copies[m].fidelity
               /\ copies'[m].life = copies[m].life
               /\ \/ copies'[m].chunks = copies[m].chunks /\ copies'[m].torn = copies[m].torn
                  \/ copies'[m].chunks = copies[m].sha \/ copies'[m].torn
      BY <1>1, <1>6, <2>1, <2>3, <3>1, CopiedShape DEF FillingKnows
    <3>3. VersionsTrue'
      BY <1>2, <3>2, VersionsKeep DEF Stands
    <3> QED
      BY <1>2, <1>6, <2>1, <3>2, <3>3, FillingKeeps DEF Stands
  <2> QED
    BY <2>2, <2>3
<1> QED
  BY <1>3, <1>4, <1>5, <1>6 DEF BackfillCommits

LEMMA QuotingKeeps == ASSUME FolderInv, RunQuotes PROVE FolderInv'
<1>1. /\ UNCHANGED <<file, source, copies, kept, admin, filling, apart, overrun>>
      /\ \A n \in relied' \ relied : Stands(n)
  BY DEF RunQuotes
<1>2. FolderTypes' /\ RowTells' /\ VersionsTrue' /\ ReliedStands'
  BY <1>1 DEF FolderInv, FolderTypes, RowTells, VersionsTrue, VersionTrue, ReliedStands, Stands
<1>3. SessionsKnow' /\ FillingKnows'
  BY <1>1 DEF FolderInv, SessionsKnow, Knows, PutAway, FillingKnows
<1> QED
  BY <1>2, <1>3 DEF FolderInv

\* A tombstone instead of a version, or a tombstone that is carried on.
LEMMA LifeMoves ==
  ASSUME FolderTypes, NEW n \in DOMAIN copies, NEW l \in Life, copies' = [copies EXCEPT ![n].life = l]
  PROVE  /\ copies' \in Seq(CopyRow) /\ DOMAIN copies' = DOMAIN copies
         /\ \A m \in DOMAIN copies :
              /\ copies'[m].sha = copies[m].sha /\ copies'[m].fidelity = copies[m].fidelity
              /\ copies'[m].chunks = copies[m].chunks /\ copies'[m].torn = copies[m].torn
              /\ copies'[m].life = IF m = n THEN l ELSE copies[m].life
<1> DEFINE c == [copies[n] EXCEPT !.life = l]
<1>1. copies \in Seq(CopyRow) /\ copies[n] \in CopyRow /\ DOMAIN copies = 1 .. Len(copies)
  BY CopiesAreSeq DEF FolderTypes
<1>2. /\ c \in CopyRow /\ c.sha = copies[n].sha /\ c.fidelity = copies[n].fidelity
      /\ c.chunks = copies[n].chunks /\ c.torn = copies[n].torn /\ c.life = l
  BY <1>1 DEF CopyRow
<1>3. copies' = [copies EXCEPT ![n] = c]
  OBVIOUS
<1> HIDE DEF c
<1>4. copies' \in Seq(CopyRow) /\ DOMAIN copies' = DOMAIN copies
  BY <1>1, <1>2, <1>3, ExceptSeq
<1>5. \A m \in DOMAIN copies : copies'[m] = IF m = n THEN c ELSE copies[m]
  BY <1>1, <1>3
<1> QED
  BY <1>2, <1>4, <1>5

LEMMA PurgingKeeps == ASSUME FolderInv, PurgeVersion PROVE FolderInv'
<1>1. FolderTypes /\ ReliedStands /\ FillingKnows
  BY DEF FolderInv
<1>2. UNCHANGED <<file, source, kept, admin, filling, relied, apart, overrun>>
  BY DEF PurgeVersion
<1>3. PICK n \in DOMAIN copies :
        /\ Stands(n) /\ Unused(n)
        /\ copies' = [copies EXCEPT ![n].life =
             IF copies[n].fidelity = "byte_exact" THEN "object_cleanup_pending" ELSE "completed"]
  BY DEF PurgeVersion
<1> DEFINE l == IF copies[n].fidelity = "byte_exact" THEN "object_cleanup_pending" ELSE "completed"
<1>4. l \in Life /\ l # "kept" /\ copies' = [copies EXCEPT ![n].life = l]
  BY <1>3 DEF Life
<1> HIDE DEF l
<1>5. /\ copies' \in Seq(CopyRow) /\ DOMAIN copies' = DOMAIN copies
      /\ \A m \in DOMAIN copies :
           /\ copies'[m].sha = copies[m].sha /\ copies'[m].fidelity = copies[m].fidelity
           /\ copies'[m].chunks = copies[m].chunks /\ copies'[m].torn = copies[m].torn
           /\ copies'[m].life = IF m = n THEN l ELSE copies[m].life
  BY <1>1, <1>4, LifeMoves
<1>6. VersionsTrue'
  BY <1>2, <1>4, <1>5, VersionsKeep DEF Stands
<1>7. ReliedStands'
  BY <1>1, <1>2, <1>3, <1>5 DEF ReliedStands, Stands, Unused
<1>8. FillingKnows'
  BY <1>1, <1>2, <1>5 DEF FillingKnows
<1>9. FolderTypes' /\ RowTells'
  BY <1>2, <1>5 DEF FolderInv, FolderTypes, RowTells
<1>10. SessionsKnow'
  BY <1>2 DEF FolderInv, SessionsKnow, Knows, PutAway
<1> QED
  BY <1>6, <1>7, <1>8, <1>9, <1>10 DEF FolderInv

LEMMA ObjectPurgeKeeps == ASSUME FolderInv, DeletesUnrelied, CheckObject \/ DeleteObject PROVE FolderInv'
<1>1. FolderTypes /\ ReliedStands /\ FillingKnows /\ SessionsKnow
  BY DEF FolderInv
<1>2. UNCHANGED <<file, source, admin, filling, relied, apart>>
  BY DEF CheckObject, DeleteObject
<1>3. PICK n \in DOMAIN copies : LET t == copies[n].sha IN
        /\ copies[n].life = "object_cleanup_pending"
        /\ \/ /\ kept' = kept /\ overrun \subseteq overrun'
           \/ /\ Relying(t) => t \in overrun
              /\ kept' \in {kept, kept \ {t}} /\ overrun' = overrun
        /\ copies' = copies \/ \E l \in Life \ {"kept"} : copies' = [copies EXCEPT ![n].life = l]
  BY DEF CheckObject, DeleteObject, DeletesUnrelied, Life
<1>5. /\ copies' \in Seq(CopyRow) /\ DOMAIN copies' = DOMAIN copies
      /\ \A m \in DOMAIN copies :
           /\ copies'[m].sha = copies[m].sha /\ copies'[m].fidelity = copies[m].fidelity
           /\ copies'[m].chunks = copies[m].chunks /\ copies'[m].torn = copies[m].torn
           /\ copies'[m].life = IF m = n THEN copies'[n].life ELSE copies[m].life
      /\ copies'[n].life # "kept"
  <2>1. CASE copies' = copies
    BY <1>1, <1>3, <2>1 DEF FolderTypes
  <2>2. ASSUME NEW l \in Life \ {"kept"}, copies' = [copies EXCEPT ![n].life = l]
        PROVE  /\ copies' \in Seq(CopyRow) /\ DOMAIN copies' = DOMAIN copies
               /\ \A m \in DOMAIN copies :
                    /\ copies'[m].sha = copies[m].sha /\ copies'[m].fidelity = copies[m].fidelity
                    /\ copies'[m].chunks = copies[m].chunks /\ copies'[m].torn = copies[m].torn
                    /\ copies'[m].life = IF m = n THEN l ELSE copies[m].life
    BY <1>1, <2>2, LifeMoves
  <2> QED
    BY <1>3, <2>1, <2>2
<1>6. PICK t : t = copies[n].sha
  OBVIOUS
<1>7. /\ \A u \in kept \cup overrun : u \in kept' \cup overrun' \/ (u = t /\ ~Writing(t))
      /\ Shared(t) => kept \cup overrun \subseteq kept' \cup overrun'
  BY <1>3, <1>6 DEF Relying
<1>8. VersionsTrue'
  <2>1. ASSUME NEW m \in DOMAIN copies, Stands(m)', copies[m].fidelity = "byte_exact",
               copies[m].sha \in kept \cup overrun
        PROVE  copies[m].sha \in kept' \cup overrun'
    <3>1. Stands(m)
      BY <1>5, <2>1 DEF Stands
    <3>2. copies[m].sha = t => Shared(t)
      BY <2>1, <3>1 DEF Shared, Retained, Standing
    <3> QED
      BY <1>7, <2>1, <3>2
  <2>2. \A m \in DOMAIN copies : Stands(m)' => Stands(m)
    BY <1>5 DEF Stands
  <2> QED
    BY <1>5, <2>1, <2>2, VersionsKeep
<1>9. SessionsKnow'
  <2>1. ASSUME NEW p \in Admins PROVE Knows(admin[p], kept' \cup overrun')
    BY <1>1, <1>7, <2>1 DEF SessionsKnow, Knows, Writing
  <2> QED
    BY <1>2, <2>1 DEF SessionsKnow, Knows, PutAway
<1>10. FillingKnows'
  BY <1>1, <1>2, <1>5, <1>7 DEF FillingKnows, Writing
<1>11. FolderTypes' /\ RowTells'
  BY <1>2, <1>5 DEF FolderInv, FolderTypes, RowTells
<1>12. ReliedStands'
  BY <1>1, <1>2, <1>3, <1>5 DEF ReliedStands, Stands
<1> QED
  BY <1>8, <1>9, <1>10, <1>11, <1>12 DEF FolderInv

\* An object about to be deleted is relied on by whoever did before, or was overrun.
LEMMA DeletesFollow ==
  ASSUME DeletesUnrelied, deleting' = deleting,
         \A n \in deleting : /\ n \in DOMAIN copies' /\ copies'[n].sha = copies[n].sha
                            /\ copies'[n].life = copies[n].life
                            /\ (copies[n].sha \in overrun => copies[n].sha \in overrun')
                            /\ (Relying(copies[n].sha)' => Relying(copies[n].sha) \/ copies[n].sha \in overrun')
  PROVE  DeletesUnrelied'
BY DEF DeletesUnrelied

\* Nobody new relies on an object.
LEMMA QuietDeletes ==
  ASSUME FolderInv, DeletesUnrelied, UNCHANGED <<copies, deleting, overrun>>,
         admin' \in [Admins -> Session],
         \A p \in Admins : admin'[p] = admin[p] \/ admin'[p].at = "read" \/ admin'[p].missed,
         filling'.new = filling.new \/ filling'.new = NoCopy
  PROVE  DeletesUnrelied'
<1>1. ASSUME NEW t, Writing(t)' PROVE Writing(t)
  BY <1>1 DEF Writing, NoCopy, Session
<1>2. ASSUME NEW t, Shared(t)' PROVE Shared(t)
  BY <1>2 DEF Shared, Retained, Standing, Stands
<1>3. \A t : Relying(t)' => Relying(t)
  BY <1>1, <1>2 DEF Relying
<1> QED
  BY <1>3, DeletesFollow DEF DeletesUnrelied

\* Bytes are stored, and then perhaps relied on.
LEMMA StoredDeletes ==
  ASSUME DeletesUnrelied, UNCHANGED <<copies, deleting>>, NEW t, Puts(t),
         \A u : Writing(u)' => Writing(u) \/ u = t
  PROVE  DeletesUnrelied'
<1>1. ASSUME NEW u, Shared(u)' PROVE Shared(u)
  BY <1>1 DEF Shared, Retained, Standing, Stands
<1>2. \A u : Relying(u)' => Relying(u) \/ u = t
  BY <1>1 DEF Relying
<1>3. \A n \in deleting : copies[n].sha = t => t \in overrun'
  BY DEF Puts
<1>4. \A n \in deleting : copies[n].sha \in overrun => copies[n].sha \in overrun'
  BY <1>3, PutsKeeps
<1> QED
  BY <1>2, <1>3, <1>4, DeletesFollow DEF DeletesUnrelied

LEMMA SessionDeletes ==
  ASSUME FolderSafe, FolderInv', NEW p \in Admins,
         \/ RefreshReads(p) \/ ArchiveReads(p) \/ Archives(p) \/ RestoreReads(p)
         \/ RestoreRequests(p) \/ Stores(p) \/ SessionFails(p)
  PROVE  DeletesUnrelied'
<1>1. /\ FolderInv /\ DeletesUnrelied /\ admin \in [Admins -> Session] /\ admin' \in [Admins -> Session]
      /\ UNCHANGED <<copies, deleting, filling>>
  BY DEF FolderSafe, FolderInv, FolderTypes, RefreshReads, ArchiveReads, Archives, RestoreReads, RestoreRequests,
    Stores, SessionFails, Begins
<1>2. CASE RefreshReads(p) \/ ArchiveReads(p) \/ RestoreReads(p)
  <2>1. admin'[p].at = "read" /\ overrun' = overrun /\ \A q \in Admins \ {p} : admin'[q] = admin[q]
    BY <1>1, <1>2 DEF RefreshReads, ArchiveReads, RestoreReads, Begins, NoSession
  <2> QED
    BY <1>1, <2>1, QuietDeletes
<1>3. CASE Archives(p) \/ RestoreRequests(p) \/ SessionFails(p)
  <2>1. admin'[p].at = "read" /\ overrun' = overrun /\ \A q \in Admins \ {p} : admin'[q] = admin[q]
    BY <1>1, <1>3 DEF Archives, RestoreRequests, SessionFails, NoSession
  <2> QED
    BY <1>1, <2>1, QuietDeletes
<1>4. CASE Stores(p)
  <2> DEFINE t == admin[p].saw
  <2>1. /\ \A q \in Admins \ {p} : admin'[q] = admin[q]
        /\ \/ admin'[p].at = "read" /\ overrun' = overrun
           \/ admin'[p].missed /\ overrun' = overrun
           \/ admin'[p].saw = t /\ Puts(t)
    BY <1>1, <1>4 DEF Stores, NoSession, Session
  <2>2. CASE overrun' = overrun /\ (admin'[p].at = "read" \/ admin'[p].missed)
    BY <1>1, <2>1, <2>2, QuietDeletes
  <2>3. CASE admin'[p].saw = t /\ Puts(t)
    <3>1. \A u : Writing(u)' => Writing(u) \/ u = t
      BY <1>1, <2>1, <2>3 DEF Writing
    <3> QED
      BY <1>1, <2>3, <3>1, StoredDeletes
  <2> QED
    BY <2>1, <2>2, <2>3
<1> QED
  BY <1>2, <1>3, <1>4

\* A version of a text somebody was writing is added.
LEMMA AddedDeletes ==
  ASSUME FolderInv, DeletesUnrelied, UNCHANGED <<deleting, overrun>>, NEW c \in CopyRow,
         copies' = Append(copies, c), c.fidelity = "byte_exact" => Writing(c.sha),
         \A u : Writing(u)' => Writing(u)
  PROVE  DeletesUnrelied'
<1>1. /\ copies \in Seq(CopyRow) /\ Len(copies) \in Nat /\ DOMAIN copies = 1 .. Len(copies)
      /\ DOMAIN copies' = 1 .. Len(copies) + 1
      /\ copies'[Len(copies) + 1] = c /\ \A n \in 1 .. Len(copies) : copies'[n] = copies[n]
  BY AppendProperties, CopiesAreSeq DEF FolderInv, FolderTypes
<1>2. \A n \in DOMAIN copies : n \in DOMAIN copies' /\ copies'[n] = copies[n]
  BY <1>1
<1>3. \A n \in DOMAIN copies' : n \in DOMAIN copies \/ copies'[n] = c
  BY <1>1
<1>4. ASSUME NEW t, Shared(t)' PROVE Relying(t)
  <2>1. PICK n \in DOMAIN copies' :
          copies'[n].life = "kept" /\ copies'[n].sha = t /\ copies'[n].fidelity = "byte_exact"
    BY <1>4 DEF Shared, Retained, Standing, Stands
  <2>2. CASE n \in DOMAIN copies
    BY <1>2, <2>1, <2>2 DEF Relying, Shared, Retained, Standing, Stands
  <2> QED
    BY <1>3, <2>1, <2>2 DEF Relying
<1>5. \A t : Relying(t)' => Relying(t)
  BY <1>4 DEF Relying
<1> QED
  BY <1>2, <1>5, DeletesFollow DEF DeletesUnrelied

\* Versions that keep their text, what is claimed of it and, if they stood not, their life.
LEMMA ChangedDeletes ==
  ASSUME DeletesUnrelied, UNCHANGED <<deleting, overrun>>, DOMAIN copies' = DOMAIN copies,
         \A n \in DOMAIN copies :
           /\ copies'[n].sha = copies[n].sha /\ copies'[n].fidelity = copies[n].fidelity
           /\ Stands(n)' => Stands(n)
           /\ n \in deleting => copies'[n].life = copies[n].life,
         \A u : Writing(u)' => Writing(u)
  PROVE  DeletesUnrelied'
<1>1. ASSUME NEW t, Shared(t)' PROVE Shared(t)
  BY <1>1 DEF Shared, Retained, Standing, Stands
<1>2. \A t : Relying(t)' => Relying(t)
  BY <1>1 DEF Relying
<1> QED
  BY <1>2, DeletesFollow DEF DeletesUnrelied

LEMMA CommitDeletes == ASSUME FolderSafe, FolderInv', NEW p \in Admins, Commits(p) PROVE DeletesUnrelied'
<1>1. /\ FolderInv /\ DeletesUnrelied /\ admin \in [Admins -> Session] /\ admin' \in [Admins -> Session]
      /\ SessionsKnow /\ admin[p] \in Session
  BY DEF FolderSafe, FolderInv, FolderTypes
<1>2. /\ admin' = [admin EXCEPT ![p] = NoSession] /\ UNCHANGED <<filling, deleting, overrun>>
      /\ admin[p].at = "stored"
  BY DEF Commits
<1>3. /\ admin'[p].at = "read" /\ \A q \in Admins \ {p} : admin'[q] = admin[q]
      /\ \A u : Writing(u)' => Writing(u)
  BY <1>1, <1>2 DEF NoSession, Writing
<1>4. CASE copies' = copies
  BY <1>1, <1>2, <1>3, <1>4, QuietDeletes
<1>5. CASE copies' = Ingested(admin[p]) /\ ~(admin[p].missed \/ admin[p].reused # 0)
  <2> DEFINE c == [NoCopy EXCEPT !.sha = admin[p].saw, !.fidelity = "byte_exact", !.chunks = admin[p].saw]
  <2>1. copies' = Append(copies, c) /\ c \in CopyRow /\ c.sha = admin[p].saw
    BY <1>1, <1>5, NothingIsTyped DEF Ingested, CopyRow, NoCopy, Session
  <2>2. Writing(admin[p].saw)
    BY <1>2, <1>5 DEF Writing
  <2> HIDE DEF c
  <2> QED
    BY <1>1, <1>2, <1>3, <2>1, <2>2, AddedDeletes
<1> QED
  BY <1>4, <1>5 DEF Commits, Ingested

LEMMA BackfillDeletes ==
  ASSUME FolderSafe, FolderInv', BackfillLists \/ BackfillExamines \/ BackfillCommits \/ BackfillFails
  PROVE  DeletesUnrelied'
<1>1. /\ FolderInv /\ DeletesUnrelied /\ admin \in [Admins -> Session] /\ FolderTypes
      /\ filling \in Filling /\ UNCHANGED <<admin, deleting>>
  BY DEF FolderSafe, FolderInv, FolderTypes, BackfillLists, BackfillExamines, BackfillCommits, BackfillFails
<1>2. CASE BackfillLists \/ BackfillFails
  <2>1. UNCHANGED <<copies, overrun>>
    BY <1>2 DEF BackfillLists, BackfillFails
  <2>2. CASE BackfillLists
    <3>1. filling' = [NotFilling EXCEPT !.at = "listed", !.row = source]
      BY <2>2 DEF BackfillLists
    <3> QED
      BY <1>1, <2>1, <3>1, QuietDeletes DEF NotFilling
  <2>3. CASE BackfillFails
    BY <1>1, <2>1, <2>3, QuietDeletes DEF BackfillFails, NotFilling
  <2> QED
    BY <1>2, <2>2, <2>3
<1>3. CASE BackfillExamines
  <2> DEFINE t == filling.row.sha
  <2>1. copies' = copies /\ (Puts(t) \/ overrun' = overrun)
    BY <1>3 DEF BackfillExamines
  <2>2. \/ filling'.new = filling.new
        \/ filling'.new.sha = t /\ (filling'.new.fidelity = "byte_exact" => Puts(t))
    <3> DEFINE f == Fidelity(t)
               made == [NoCopy EXCEPT !.sha = t, !.fidelity = f, !.chunks = source.chunks, !.torn = Moved(filling.row)]
    <3>1. CASE filling' = [filling EXCEPT !.at = "examined"]
      BY <1>1, <3>1 DEF Filling
    <3>2. ASSUME filling' = [filling EXCEPT !.at = "examined", !.new = made,
                                !.point = ToPoint(filling.row, f), !.mark = ToMark(filling.row, f),
                                !.torn = Moved(filling.row)]
          PROVE  filling'.new.sha = t /\ filling'.new.fidelity = f
      <4>1. made.sha = t /\ made.fidelity = f
        BY DEF NoCopy
      <4> HIDE DEF made
      <4> QED
        BY <1>1, <3>2, <4>1 DEF Filling
    <3>3. ASSUME NEW n \in Standing(t), NEW c \in Copyable(n),
                 filling' = [filling EXCEPT !.at = "examined", !.no = n, !.copying = c,
                   !.point = ToPoint(filling.row, copies[n].fidelity),
                   !.mark = ToMark(filling.row, copies[n].fidelity), !.torn = Moved(filling.row)]
          PROVE  filling'.new = filling.new
      BY <1>1, <3>3 DEF Filling
    <3>4. \/ filling' = [filling EXCEPT !.at = "examined"]
          \/ /\ filling' = [filling EXCEPT !.at = "examined", !.new = made,
                              !.point = ToPoint(filling.row, f), !.mark = ToMark(filling.row, f),
                              !.torn = Moved(filling.row)]
             /\ f = "byte_exact" => Puts(t)
          \/ \E n \in Standing(t) : \E c \in Copyable(n) :
               filling' = [filling EXCEPT !.at = "examined", !.no = n, !.copying = c,
                 !.point = ToPoint(filling.row, copies[n].fidelity),
                 !.mark = ToMark(filling.row, copies[n].fidelity), !.torn = Moved(filling.row)]
      BY <1>3 DEF BackfillExamines
    <3> HIDE DEF t, f, made
    <3> QED
      BY <3>1, <3>2, <3>3, <3>4
  <2> HIDE DEF t
  <2>3. CASE Puts(t)
    <3>1. \A u : Writing(u)' => Writing(u) \/ u = t
      BY <1>1, <2>2 DEF Writing
    <3> QED
      BY <1>1, <2>1, <2>3, <3>1, StoredDeletes
  <2>4. CASE overrun' = overrun /\ ~Puts(t)
    <3>1. ASSUME NEW u, Writing(u)' PROVE Writing(u)
      BY <1>1, <2>2, <2>4, <3>1 DEF Writing
    <3>2. \A n \in DOMAIN copies : Stands(n)' => Stands(n)
      BY <2>1 DEF Stands
    <3> QED
      BY <1>1, <2>1, <2>4, <3>1, <3>2, ChangedDeletes
  <2> QED
    BY <2>1, <2>3, <2>4
<1>4. CASE BackfillCommits
  <2>1. /\ filling' = NotFilling /\ overrun' = overrun /\ FillingKnows /\ filling'.new = NoCopy
    BY <1>1, <1>4 DEF BackfillCommits, FolderInv, NotFilling
  <2>2. ASSUME NEW u, Writing(u)' PROVE Writing(u)
    BY <1>1, <2>1, <2>2 DEF Writing, NoCopy
  <2>3. CASE copies' = copies
    BY <1>1, <2>1, <2>3, QuietDeletes
  <2>4. CASE copies' = Append(copies, filling.new)
    <3>1. filling.new \in CopyRow /\ (filling.new.fidelity = "byte_exact" => Writing(filling.new.sha))
      BY <1>1 DEF Filling, Writing
    <3> QED
      BY <1>1, <2>1, <2>2, <2>4, <3>1, AddedDeletes
  <2>5. CASE filling.no # 0 /\ filling.copying # NoText /\ copies' = Copied(filling.no, filling)
    <3>1. /\ DOMAIN copies' = DOMAIN copies
          /\ \A m \in DOMAIN copies :
               /\ copies'[m].sha = copies[m].sha /\ copies'[m].fidelity = copies[m].fidelity
               /\ copies'[m].life = copies[m].life
      BY <1>1, <2>1, <2>5, CopiedShape DEF FillingKnows
    <3>2. \A n \in DOMAIN copies : Stands(n)' => Stands(n)
      BY <3>1 DEF Stands
    <3> QED
      BY <1>1, <2>1, <2>2, <3>1, <3>2, ChangedDeletes
  <2> QED
    BY <1>4, <2>3, <2>4, <2>5 DEF BackfillCommits, Fills, Copied
<1> QED
  BY <1>2, <1>3, <1>4

LEMMA PurgeDeletes ==
  ASSUME FolderSafe, FolderInv', PurgeVersion \/ CheckObject \/ DeleteObject PROVE DeletesUnrelied'
<1>1. FolderInv /\ DeletesUnrelied /\ FolderTypes /\ UNCHANGED <<admin, filling>>
  BY DEF FolderSafe, FolderInv, PurgeVersion, CheckObject, DeleteObject
<1>2. \A u : Writing(u)' => Writing(u)
  BY <1>1 DEF Writing
<1>3. ASSUME NEW n \in DOMAIN copies \ deleting, NEW l \in Life \ {"kept"}, copies' = [copies EXCEPT ![n].life = l],
             UNCHANGED <<deleting, overrun>>
      PROVE  DeletesUnrelied'
  <2>1. /\ DOMAIN copies' = DOMAIN copies
        /\ \A m \in DOMAIN copies :
             /\ copies'[m].sha = copies[m].sha /\ copies'[m].fidelity = copies[m].fidelity
             /\ copies'[m].life = IF m = n THEN l ELSE copies[m].life
    BY <1>1, <1>3, LifeMoves
  <2>2. \A m \in DOMAIN copies : Stands(m)' => Stands(m)
    BY <2>1 DEF Stands
  <2> QED
    BY <1>1, <1>2, <1>3, <2>1, <2>2, ChangedDeletes
<1>4. CASE PurgeVersion
  <2>1. PICK n \in DOMAIN copies :
          /\ Stands(n) /\ UNCHANGED <<deleting, overrun>>
          /\ \E l \in Life \ {"kept"} : copies' = [copies EXCEPT ![n].life = l]
    BY <1>4 DEF PurgeVersion, Life
  <2>2. n \notin deleting
    BY <1>1, <2>1 DEF DeletesUnrelied, Stands
  <2> QED
    BY <1>3, <2>1, <2>2
<1>5. CASE CheckObject
  <2>1. PICK n \in DOMAIN copies \ deleting : LET t == copies[n].sha IN
          /\ copies[n].life = "object_cleanup_pending"
          /\ \/ /\ copies' = [copies EXCEPT ![n].life = "completed_object_retained_shared"]
                /\ UNCHANGED <<deleting, overrun>>
             \/ /\ ~Shared(t) /\ deleting' = deleting \cup {n} /\ copies' = copies
                /\ overrun' = IF Writing(t) THEN overrun \cup {t} ELSE overrun
    BY <1>5 DEF CheckObject
  <2>2. CASE copies' = [copies EXCEPT ![n].life = "completed_object_retained_shared"] /\ UNCHANGED <<deleting, overrun>>
    BY <1>3, <2>2 DEF Life
  <2>3. CASE LET t == copies[n].sha IN
             /\ ~Shared(t) /\ deleting' = deleting \cup {n} /\ copies' = copies
             /\ overrun' = IF Writing(t) THEN overrun \cup {t} ELSE overrun
    <3>1. \A u : Relying(u)' => Relying(u)
      BY <1>2, <2>3 DEF Relying, Shared, Retained, Standing, Stands
    <3>2. Relying(copies[n].sha) => copies[n].sha \in overrun'
      BY <2>3 DEF Relying
    <3> QED
      BY <1>1, <2>1, <2>3, <3>1, <3>2 DEF DeletesUnrelied
  <2> QED
    BY <2>1, <2>2, <2>3
<1>6. CASE DeleteObject
  <2>1. PICK n \in deleting :
          /\ deleting' = deleting \ {n} /\ overrun' = overrun
          /\ copies' = copies \/ copies' = [copies EXCEPT ![n].life = "completed"]
    BY <1>6 DEF DeleteObject
  <2>2. /\ DOMAIN copies' = DOMAIN copies
        /\ \A m \in DOMAIN copies :
             /\ copies'[m].sha = copies[m].sha /\ copies'[m].fidelity = copies[m].fidelity
             /\ copies'[m].life = "kept" => copies[m].life = "kept"
             /\ m # n => copies'[m].life = copies[m].life
    BY <1>1, <2>1, LifeMoves DEF DeletesUnrelied, Life
  <2>3. \A u : Relying(u)' => Relying(u)
    BY <1>2, <2>2 DEF Relying, Shared, Retained, Standing, Stands
  <2> QED
    BY <1>1, <2>1, <2>2, <2>3 DEF DeletesUnrelied
<1> QED
  BY <1>4, <1>5, <1>6

-----------------------------------------------------------------------------
LEMMA FolderInvNext == ASSUME FolderSafe, [FolderNext]_folderVars PROVE FolderInv'
<1> USE DEF FolderSafe
<1>1. CASE UNCHANGED folderVars
  <2>1. FolderTypes' /\ RowTells' /\ VersionsTrue' /\ ReliedStands'
    BY <1>1 DEF FolderInv, FolderTypes, RowTells, VersionsTrue, VersionTrue, ReliedStands, Stands, folderVars
  <2>2. SessionsKnow' /\ FillingKnows'
    BY <1>1 DEF FolderInv, SessionsKnow, Knows, PutAway, FillingKnows, folderVars
  <2> QED
    BY <2>1, <2>2 DEF FolderInv
<1>2. CASE FileChanges
  <2>1. SessionsKnow' /\ RowTells' /\ admin' \in [Admins -> Session] /\ source' \in SourceRecord
    BY <1>2 DEF FileChanges, FolderInv, FolderTypes, SessionsKnow, Knows, PutAway, RowTells
  <2> QED
    BY <1>2, <2>1, FolderSessionMoves DEF FileChanges, Standstill
<1>3. ASSUME NEW p \in Admins,
             \/ RefreshReads(p) \/ ArchiveReads(p) \/ Archives(p) \/ RestoreReads(p)
             \/ RestoreRequests(p) \/ Stores(p) \/ Commits(p) \/ SessionFails(p)
      PROVE  FolderInv'
  BY <1>3, FolderReadKeeps, ArchivingKeeps, StoringKeeps, CommittingKeeps
<1>4. CASE BackfillLists \/ BackfillExamines \/ BackfillCommits
  BY <1>4, ListingKeeps, ExaminingKeeps, BackfillingKeeps
<1>5. CASE BackfillFails
  BY <1>5, AbortKeeps DEF BackfillFails
<1>6. CASE RunQuotes \/ PurgeVersion \/ CheckObject \/ DeleteObject
  BY <1>6, QuotingKeeps, PurgingKeeps, ObjectPurgeKeeps
<1> QED
  BY <1>1, <1>2, <1>3, <1>4, <1>5, <1>6 DEF FolderNext

LEMMA FolderSafeInit == ASSUME FolderInit PROVE FolderSafe
<1>1. DeletesUnrelied
  BY DEF FolderInit, DeletesUnrelied
<1> QED
  BY <1>1, FolderInvInit DEF FolderSafe

LEMMA FolderSafeNext == ASSUME FolderSafe, [FolderNext]_folderVars PROVE FolderSafe'
<1>1. FolderInv' /\ FolderInv /\ DeletesUnrelied
  BY FolderInvNext DEF FolderSafe
<1>2. CASE FileChanges \/ RunQuotes \/ UNCHANGED folderVars
  <2>1. UNCHANGED <<copies, deleting, overrun, admin, filling>>
    BY <1>2 DEF FileChanges, RunQuotes, folderVars
  <2>2. admin' \in [Admins -> Session]
    BY <1>1 DEF FolderInv, FolderTypes
  <2> QED
    BY <1>1, <2>1, <2>2, QuietDeletes DEF FolderSafe
<1>3. ASSUME NEW p \in Admins,
             \/ RefreshReads(p) \/ ArchiveReads(p) \/ Archives(p) \/ RestoreReads(p)
             \/ RestoreRequests(p) \/ Stores(p) \/ Commits(p) \/ SessionFails(p)
      PROVE  FolderSafe'
  BY <1>1, <1>3, SessionDeletes, CommitDeletes DEF FolderSafe
<1>4. CASE BackfillLists \/ BackfillExamines \/ BackfillCommits \/ BackfillFails
  BY <1>1, <1>4, BackfillDeletes DEF FolderSafe
<1>5. CASE PurgeVersion \/ CheckObject \/ DeleteObject
  BY <1>1, <1>5, PurgeDeletes DEF FolderSafe
<1> QED
  BY <1>2, <1>3, <1>4, <1>5 DEF FolderNext

LEMMA FolderSafeHolds == FolderSpec => []FolderSafe
<1>1. FolderInit => FolderSafe
  BY FolderSafeInit
<1>2. FolderSafe /\ [FolderNext]_folderVars => FolderSafe'
  BY FolderSafeNext
<1> QED
  BY <1>1, <1>2, PTL DEF FolderSpec

\* What is recorded of a file of a folder is so: its bytes are retained, the chunks of a
\* version are of its text, what a run names by id stands and an active document gives
\* the text its hash says, the exceptions of the property apart.
THEOREM EvidenceStaysTrue == FolderSpec => []EvidenceIsTrue
<1>1. FolderSafe => EvidenceIsTrue
  <2>1. SUFFICES ASSUME FolderSafe PROVE EvidenceIsTrue
    OBVIOUS
  <2>2. VersionsTrue /\ ReliedStands /\ RowTells
    BY <2>1 DEF FolderSafe, FolderInv
  <2>3. ASSUME NEW n \in DOMAIN copies, Stands(n)
        PROVE  /\ copies[n].fidelity = "byte_exact" => copies[n].sha \in kept \cup overrun
               /\ copies[n].chunks \in {copies[n].sha, NoText} \/ copies[n].torn
               /\ \A m \in Standing(copies[n].sha) \ {n} :
                    (copies[m].fidelity = "unavailable") # (copies[n].fidelity = "unavailable")
    BY <2>2, <2>3 DEF VersionsTrue, VersionTrue, Standing
  <2> QED
    BY <2>2, <2>3 DEF EvidenceIsTrue, ReliedStands, RowTells
<1> QED
  BY <1>1, FolderSafeHolds, PTL

\* No silent restore: who takes an archived document out of the archive was asked to, or
\* had read its row before it was put there.
THEOREM ArchiveAlwaysRespected == FolderSpec => ArchiveIsRespected
<1> DEFINE Respected ==
      PutAway(source) /\ source'.status # "archived" =>
        \/ \E p \in Admins :
             /\ admin[p].op = "restore" \/ ~PutAway(admin[p].row)
             /\ admin[p].at = "stored" /\ admin'[p] = NoSession
        \/ filling.mark /\ filling' = NotFilling /\ ~PutAway(filling.row)
<1>1. FolderSafe /\ [FolderNext]_folderVars => [Respected]_folderVars
  <2>1. SUFFICES ASSUME FolderSafe, FolderNext, PutAway(source), source'.status # "archived"
                 PROVE  Respected
    OBVIOUS
  <2>2. /\ SessionsKnow /\ FillingKnows /\ source \in SourceRecord /\ admin \in [Admins -> Session]
        /\ source.status = "archived" /\ source' # source
    BY <2>1 DEF FolderSafe, FolderInv, FolderTypes, PutAway
  <2>3. ASSUME NEW p \in Admins, Archives(p) \/ RestoreRequests(p) PROVE FALSE
    BY <2>1, <2>2, <2>3 DEF Archives, RestoreRequests, SourceRecord
  <2>4. ASSUME NEW p \in Admins, Commits(p) PROVE Respected
    <3>1. /\ admin[p].at = "stored" /\ admin'[p] = NoSession
          /\ admin[p].op = "restore" \/ ~PutAway(admin[p].row)
      BY <2>2, <2>4 DEF Commits, SessionsKnow, Knows
    <3> QED
      BY <3>1
  <2>5. ASSUME BackfillCommits PROVE Respected
    <3>1. filling.mark
      BY <2>1, <2>2, <2>5 DEF BackfillCommits, Fills, SourceRecord
    <3> QED
      BY <2>2, <2>5, <3>1 DEF BackfillCommits, FillingKnows, PutAway
  <2>6. \/ \E p \in Admins : Archives(p) \/ RestoreRequests(p) \/ Commits(p)
        \/ BackfillCommits
    BY <2>1, <2>2 DEF FolderNext, FileChanges, RefreshReads, ArchiveReads, RestoreReads, Begins,
       Stores, SessionFails, BackfillLists, BackfillExamines, BackfillFails, RunQuotes, PurgeVersion,
       CheckObject, DeleteObject
  <2> QED
    BY <2>3, <2>4, <2>5, <2>6
<1> QED
  BY <1>1, FolderSafeHolds, PTL DEF FolderSpec, ArchiveIsRespected

-----------------------------------------------------------------------------
(* Types of the documents. *)

DocumentBounds ==
  /\ rowHolder \in {{}} \cup {{w} : w \in IndexWorkers}
  /\ cleanup \in [Contents -> {"none", "proposed", "authorized"}] /\ cleaning \in Bytes
  /\ requests \in 0..MaxRequests /\ docFaults \in 0..MaxFaults
  /\ overtaken \in BOOLEAN /\ restored \subseteq ObjectKeys
StoreTyped == DocumentsInv /\ DocumentBounds

LEMMA StoreTypedInit == DocumentsInit => StoreTyped
<1>1. DocumentsInit => DocumentBounds
  <2> SUFFICES ASSUME DocumentsInit PROVE DocumentBounds
    OBVIOUS
  <2>1. rowHolder \in {{}} \cup {{w} : w \in IndexWorkers}
    BY DEF DocumentsInit
  <2>2. cleanup \in [Contents -> {"none", "proposed", "authorized"}] /\ overtaken \in BOOLEAN
    BY DEF DocumentsInit
  <2> QED
    BY <2>1, <2>2, DocumentStoreAssumption DEF DocumentsInit, DocumentBounds, Bytes
<1> QED
  BY <1>1, StoreInvInit DEF StoreTyped, DocumentsInv, RestoreInv, Restores, DocumentsInit

\* What the steps of each kind do to what the bounds are about.
LEMMA UserSteps ==
  ASSUME StoreTypes, DocumentBounds,
         \/ PutObject \/ CommitUpload \/ CommitFirstUpload \/ UploadFails \/ UploadUnsupported
         \/ RetryDocument \/ ArchiveDocument \/ CiteCurrentVersion
  PROVE  /\ UNCHANGED <<rowHolder, cleanup, cleaning>>
         /\ requests' = requests \/ DocumentRequest
         /\ docFaults' = docFaults \/ DocumentFault
         /\ overtaken' \in BOOLEAN /\ restored' \subseteq restored \cup ObjectKeys
<1>1. CASE PutObject
  <2>1. \A c \in Contents : UploadKey(c) \in ObjectKeys
    BY DocumentStoreAssumption DEF ObjectKeys, UploadKey
  <2> QED
    BY <1>1, <2>1 DEF PutObject, DocumentBounds
<1>2. CASE CommitUpload
  BY <1>2 DEF CommitUpload
<1>3. CASE CommitFirstUpload \/ UploadFails \/ UploadUnsupported
  BY <1>3 DEF CommitFirstUpload, UploadFails, UploadUnsupported, DocumentBounds
<1>4. CASE RetryDocument \/ ArchiveDocument \/ CiteCurrentVersion
  BY <1>4 DEF RetryDocument, ArchiveDocument, CiteCurrentVersion, DocumentBounds
<1> QED
  BY <1>1, <1>2, <1>3, <1>4

LEMMA RestoreChanges ==
  ASSUME DocumentsInv, DocumentBounds, RestoreSteps
  PROVE  /\ UNCHANGED <<rowHolder, cleanup, cleaning, overtaken>>
         /\ requests' = requests \/ DocumentRequest
         /\ docFaults' = docFaults \/ DocumentFault
         /\ restored' \subseteq restored \cup ObjectKeys
<1>1. CASE StoreVersion
  <2>1. restoring.doc \in DocIds /\ restoring.key \in Contents
    BY <1>1 DEF DocumentsInv, RestoreInv, Restores, NoRestore, StoreVersion
  <2> QED
    BY <1>1, <2>1, DocumentStoreAssumption DEF StoreVersion, ObjectKeys, DocIds
<1> QED
  BY <1>1 DEF RestoreSteps, ReadArchived, FetchArchived, LookForVersion, CommitRestore, RestoreFails

LEMMA WorkerSteps ==
  ASSUME StoreTypes, DocumentBounds, NEW w \in IndexWorkers,
         \/ ClaimNextDocumentJob(w) \/ ReadDocument(w) \/ LockDocument(w) \/ IndexDocument(w)
         \/ SourceUnavailable(w) \/ FailIndex(w) \/ FinishJob(w) \/ WorkerCrash(w)
  PROVE  /\ UNCHANGED <<cleanup, cleaning, requests, overtaken, restored>>
         /\ rowHolder' \in {rowHolder, {}, {w}, rowHolder \ {w}}
         /\ docFaults' = docFaults \/ DocumentFault
BY DEF ClaimNextDocumentJob, ReadDocument, LockDocument, IndexDocument, IndexEnds, SourceUnavailable, FailIndex,
  FinishJob, WorkerCrash

LEMMA StoredKeys == ASSUME NEW c \in Contents PROVE StoredSince(c) \subseteq restored \cup ObjectKeys
BY DocumentStoreAssumption DEF StoredSince, UploadKey, ObjectKeys

LEMMA PurgeSteps ==
  ASSUME StoreTypes, DocumentBounds,
         \/ JobLeaseExpires \/ ReconcileStaleDocumentJobs
         \/ ProposeDocumentPurge \/ AuthorizeDocumentPurge \/ CancelDocumentPurge
         \/ PurgeDatabase \/ ResumePurge \/ PurgeObject \/ CompletePurge \/ PurgeCrash
  PROVE  /\ UNCHANGED <<rowHolder, cleanup, cleaning>>
         /\ requests' = requests \/ DocumentRequest
         /\ docFaults' = docFaults \/ DocumentFault
         /\ overtaken' \in BOOLEAN /\ restored' \subseteq restored \cup ObjectKeys
<1>1. CASE PurgeDatabase
  <2>1. doc.sha \in Contents /\ restored' = StoredSince(doc.sha)
    BY <1>1, DocumentTypes DEF PurgeDatabase
  <2> QED
    BY <1>1, <2>1, StoredKeys DEF PurgeDatabase, DocumentBounds
<1>2. CASE ~PurgeDatabase
  BY <1>2 DEF DocumentBounds, JobLeaseExpires, ReconcileStaleDocumentJobs, ProposeDocumentPurge,
    AuthorizeDocumentPurge, CancelDocumentPurge, ResumePurge, PurgeObject, CompletePurge, PurgeCrash
<1> QED
  BY <1>1, <1>2

LEMMA CleanupSteps ==
  ASSUME StoreTypes, DocumentBounds, ProposeObjectCleanup \/ AuthorizeObjectCleanup \/ DeleteOrphan
  PROVE  /\ UNCHANGED <<rowHolder, overtaken>>
         /\ cleanup' \in [Contents -> {"none", "proposed", "authorized"}] /\ cleaning' \in Bytes
         /\ requests' = requests \/ DocumentRequest
         /\ docFaults' = docFaults \/ DocumentFault
         /\ restored' \subseteq restored \cup ObjectKeys
<1>1. CASE ProposeObjectCleanup
  BY <1>1 DEF DocumentBounds, ProposeObjectCleanup
<1>2. CASE AuthorizeObjectCleanup
  BY <1>2, StoredKeys DEF DocumentBounds, AuthorizeObjectCleanup, Bytes
<1>3. CASE DeleteOrphan
  BY <1>3 DEF DocumentBounds, DeleteOrphan, Bytes
<1> QED
  BY <1>1, <1>2, <1>3

LEMMA StoreTypedStep == ASSUME StoreTyped, [DocumentsNext]_documentVars PROVE StoreTyped'
<1>1. StoreTypes /\ DocumentBounds
  BY DEF StoreTyped, DocumentsInv, StoreInv, IndexInv, BaseInv
<1>2. /\ requests' = requests \/ DocumentRequest
      /\ docFaults' = docFaults \/ DocumentFault
      /\ overtaken' \in BOOLEAN /\ restored' \subseteq restored \cup ObjectKeys
      /\ cleanup' \in [Contents -> {"none", "proposed", "authorized"}] /\ cleaning' \in Bytes
      /\ \/ rowHolder' \in {rowHolder, {}}
         \/ \E w \in IndexWorkers : rowHolder' \in {{w}, rowHolder \ {w}}
  <2>1. CASE UNCHANGED documentVars
    BY <1>1, <2>1 DEF documentVars, DocumentBounds
  <2>2. ASSUME NEW w \in IndexWorkers,
               \/ ClaimNextDocumentJob(w) \/ ReadDocument(w) \/ LockDocument(w) \/ IndexDocument(w)
               \/ SourceUnavailable(w) \/ FailIndex(w) \/ FinishJob(w) \/ WorkerCrash(w)
        PROVE  /\ UNCHANGED <<cleanup, cleaning, requests, overtaken, restored>>
               /\ rowHolder' \in {rowHolder, {}, {w}, rowHolder \ {w}}
               /\ docFaults' = docFaults \/ DocumentFault
    BY <1>1, <2>2, WorkerSteps
  <2>3. CASE \/ PutObject \/ CommitUpload \/ CommitFirstUpload \/ UploadFails \/ UploadUnsupported
             \/ RetryDocument \/ ArchiveDocument \/ CiteCurrentVersion
    BY <1>1, <2>3, UserSteps DEF DocumentBounds
  <2>4. CASE \/ JobLeaseExpires \/ ReconcileStaleDocumentJobs
             \/ ProposeDocumentPurge \/ AuthorizeDocumentPurge \/ CancelDocumentPurge
             \/ PurgeDatabase \/ ResumePurge \/ PurgeObject \/ CompletePurge \/ PurgeCrash
    BY <1>1, <2>4, PurgeSteps DEF DocumentBounds
  <2>5. CASE ProposeObjectCleanup \/ AuthorizeObjectCleanup \/ DeleteOrphan
    BY <1>1, <2>5, CleanupSteps DEF DocumentBounds
  <2>6. CASE RestoreSteps
    BY <1>1, <2>6, RestoreChanges DEF DocumentBounds, StoreTyped
  <2> QED
    BY <1>1, <2>1, <2>2, <2>3, <2>4, <2>5, <2>6 DEF DocumentsNext, DocumentBounds, RestoreSteps
<1>3. requests' \in 0..MaxRequests /\ docFaults' \in 0..MaxFaults
  BY <1>1, <1>2, DocumentStoreAssumption DEF DocumentBounds, DocumentRequest, DocumentFault
<1>4. rowHolder' \in {{}} \cup {{w} : w \in IndexWorkers}
  BY <1>1, <1>2 DEF DocumentBounds
<1>5. DocumentBounds'
  BY <1>1, <1>2, <1>3, <1>4 DEF DocumentBounds
<1> QED
  BY <1>5, StoreInvNext DEF StoreTyped

LEMMA NoRestoreIsTyped ==
  NoRestore \in [at : {"idle", "fetch", "look", "put", "commit"}, doc : 0..MaxDocs, key : Bytes, known : BOOLEAN]
BY DocumentStoreAssumption DEF NoRestore, Bytes

LEMMA StoreTypedIsTyped == ASSUME StoreTyped PROVE DocumentsTypeOK
<1>1. StoreTypes /\ DocumentBounds
  BY DEF StoreTyped, DocumentsInv, StoreInv, IndexInv, BaseInv
<1>2. rowHolder \in SUBSET IndexWorkers /\ Cardinality(rowHolder) <= 1
  <2>1. CASE rowHolder = {}
    <3>1. Cardinality({}) = 0
      BY FS_EmptySet
    <3> QED
      BY <2>1, <3>1
  <2>2. ASSUME NEW w \in IndexWorkers, rowHolder = {w} PROVE Cardinality(rowHolder) <= 1
    <3>1. Cardinality({w}) = 1
      BY FS_Singleton
    <3> QED
      BY <2>2, <3>1
  <2> QED
    BY <1>1, <2>1, <2>2 DEF DocumentBounds
<1>3. upload \in [content : Bytes, prior : 0..MaxDocs]
  BY <1>1, DocumentStoreAssumption DEF StoreTypes, Uploads, NoUpload, Bytes
<1>4. /\ \A d \in DocIds : job[d].status \in {"none", "queued", "running", "ended", "deleted"}
      /\ \A w \in IndexWorkers : /\ docWorker[w].at \in {"idle", "claimed", "read", "locked", "finish"}
                                 /\ docWorker[w].key \in Bytes
      /\ \A d \in DocIds : purge[d].status \in PurgeStatus /\ purge[d].seen \in DocRow
      /\ purging.todo \subseteq (0..MaxDocs) \X Contents
  BY <1>1 DEF StoreTypes, JobRow, IndexMemory, PurgeRow, ObjectKeys
<1>5. restoring \in [at : {"idle", "fetch", "look", "put", "commit"}, doc : 0..MaxDocs, key : Bytes, known : BOOLEAN]
  <2>1. restoring \in Restores
    BY DEF StoreTyped, DocumentsInv, RestoreInv
  <2> QED
    BY <2>1, NoRestoreIsTyped DEF Restores, Bytes, DocIds
<1> QED
  BY <1>1, <1>2, <1>3, <1>4, <1>5 DEF StoreTypes, DocumentBounds, DocumentsTypeOK, ObjectKeys

\* Every step keeps the types of DocumentsTypeOK: the statuses of jobs, purges and cleanups are
\* those of the tables, and two workers never hold the row of a document.
THEOREM DocumentsStayTyped == DocumentsSpec => []DocumentsTypeOK
<1>1. DocumentsInit => StoreTyped
  BY StoreTypedInit
<1>2. StoreTyped /\ [DocumentsNext]_documentVars => StoreTyped'
  BY StoreTypedStep
<1>3. StoreTyped => DocumentsTypeOK
  BY StoreTypedIsTyped
<1> QED
  BY <1>1, <1>2, <1>3, PTL DEF DocumentsSpec

-----------------------------------------------------------------------------
(* The types of the folder.  A text is named by every row there is, by every version and by   *)
(* whatever is about to make one; and no row points past the versions, those read and kept    *)
(* by a transaction included.                                                                 *)

\* A session, if there is a row or not and with the versions there are.
SessionNames(s, rowIs, top) ==
  /\ s.row.current <= top
  /\ s.op = "refresh" \/ s.at = "stored" => s.saw \in Texts
  /\ s.op \in {"vanished", "archive", "restore"} => rowIs

FillingNames(f, rowIs, top) ==
  /\ f.row.current <= top
  /\ f.at # "idle" => rowIs /\ f.row.sha \in Texts
  /\ f.new = NoCopy \/ f.new.sha \in Texts

RowIs == source.status # "none"

FolderNames ==
  /\ RowIs => source.sha \in Texts
  /\ source.current <= Len(copies)
  /\ \A n \in DOMAIN copies : copies[n].sha \in Texts
  /\ \A p \in Admins : SessionNames(admin[p], RowIs, Len(copies))
  /\ FillingNames(filling, RowIs, Len(copies))
  /\ kept \subseteq Texts /\ quoted \subseteq Texts /\ overrun \subseteq Texts

FolderBounds ==
  /\ folderRequests \in 0..MaxFolderRequests /\ fileChanges \in 0..MaxFileChanges
  /\ folderFaults \in 0..MaxFolderFaults /\ apart \in BOOLEAN

FolderTyped == FolderSafe /\ FolderNames /\ FolderBounds

LEMMA FolderTypedIsTyped == ASSUME FolderTyped PROVE FolderTypeOK
<1>1. FolderTypes /\ ReliedStands /\ FolderNames /\ FolderBounds /\ deleting \subseteq DOMAIN copies
  BY DEF FolderTyped, FolderSafe, FolderInv, DeletesUnrelied
<1>2. /\ Len(copies) \in Nat /\ \A n \in DOMAIN copies : copies[n] \in CopyRow
      /\ \A p \in Admins : admin[p] \in Session
  BY <1>1, CopiesAreSeq DEF FolderTypes
<1>3. ASSUME NEW r \in SourceRecord, r.current <= Len(copies) PROVE r \in SourceRow
  BY <1>2, <1>3 DEF SourceRecord, SourceRow
<1>4. source \in SourceRow
  BY <1>1, <1>3 DEF FolderTypes, FolderNames
<1>5. filling.at \in {"idle", "listed", "examined"} /\ filling.row \in SourceRow
  <2>1. filling \in Filling /\ filling.row.current <= Len(copies)
    BY <1>1 DEF FolderTypes, FolderNames, FillingNames
  <2>2. filling.row \in SourceRecord /\ filling.at \in {"idle", "listed", "examined"}
    BY <2>1 DEF Filling
  <2> QED
    BY <1>3, <2>1, <2>2
<1>6. ASSUME NEW p \in Admins
      PROVE  /\ admin[p].op \in {"none", "refresh", "vanished", "archive", "restore"}
             /\ admin[p].row \in SourceRow /\ admin[p].at \in {"read", "stored"}
  <2>1. admin[p] \in Session /\ admin[p].row.current <= Len(copies)
    BY <1>1, <1>2 DEF FolderNames, SessionNames
  <2>2. /\ admin[p].row \in SourceRecord /\ admin[p].at \in {"read", "stored"}
        /\ admin[p].op \in {"none", "refresh", "vanished", "archive", "restore"}
    BY <2>1 DEF Session
  <2> QED
    BY <1>3, <2>1, <2>2
<1>7. ASSUME NEW n \in DOMAIN copies
      PROVE  copies[n] \in [sha : Texts, fidelity : {"byte_exact", "reconstructed_text", "unavailable"},
                            chunks : Texts \cup {NoText}, torn : BOOLEAN,
                            life : {"kept", "object_cleanup_pending", "completed",
                                    "completed_object_retained_shared"}]
  <2>1. copies[n] \in CopyRow /\ copies[n].sha \in Texts
    BY <1>1, <1>2 DEF FolderNames
  <2> QED
    BY <2>1 DEF CopyRow, Life
<1>8. relied \subseteq DOMAIN copies
  BY <1>1 DEF ReliedStands, Stands
<1>9. file \in Texts \cup {"missing", "unreachable"} /\ folderRequests <= MaxFolderRequests
      /\ fileChanges <= MaxFileChanges /\ folderFaults <= MaxFolderFaults /\ apart \in BOOLEAN
  BY <1>1, FolderAssumption DEF FolderTypes, FolderBounds
<1> QED
  BY <1>1, <1>4, <1>5, <1>6, <1>7, <1>8, <1>9 DEF FolderNames, FolderTypeOK

LEMMA NobodyNames == \A b \in BOOLEAN, top \in Nat : SessionNames(NoSession, b, top) /\ FillingNames(NotFilling, b, top)
BY DEF SessionNames, FillingNames, NoSession, NotFilling, NoSource, NoCopy

LEMMA FolderTypedInit == ASSUME FolderInit PROVE FolderTyped
<1>1. RowIs => source.sha \in Texts
  <2>1. CASE source = NoSource
    BY <2>1 DEF RowIs, NoSource
  <2>2. ASSUME NEW t \in Texts, source \in {[NoSource EXCEPT !.status = "active", !.sha = t, !.chunks = t],
                                            [NoSource EXCEPT !.status = "archived", !.sha = t]}
        PROVE  source.sha = t
    BY <2>2 DEF NoSource
  <2> QED
    BY <2>1, <2>2 DEF FolderInit
<1>2. source.current = 0
  <2>1. CASE source = NoSource
    BY <2>1 DEF NoSource
  <2>2. ASSUME NEW t \in Texts, source \in {[NoSource EXCEPT !.status = "active", !.sha = t, !.chunks = t],
                                            [NoSource EXCEPT !.status = "archived", !.sha = t]}
        PROVE  source.current = 0
    BY <2>2 DEF NoSource
  <2> QED
    BY <2>1, <2>2 DEF FolderInit
<1>3. /\ copies = <<>> /\ kept = {} /\ quoted = {} /\ overrun = {} /\ apart = FALSE
      /\ admin = [p \in Admins |-> NoSession] /\ filling = NotFilling
      /\ folderRequests = 0 /\ fileChanges = 0 /\ folderFaults = 0
  BY DEF FolderInit
<1>4. Len(copies) = 0 /\ DOMAIN copies = {} /\ RowIs \in BOOLEAN
  BY <1>3 DEF RowIs
<1>5. FolderNames
  <2>1. Len(copies) \in Nat
    BY <1>4
  <2>2. \A p \in Admins : SessionNames(admin[p], RowIs, Len(copies))
    BY <1>3, <1>4, <2>1, NobodyNames
  <2>3. FillingNames(filling, RowIs, Len(copies))
    BY <1>3, <1>4, <2>1, NobodyNames
  <2>4. source.current <= Len(copies)
    BY <1>2, <1>4
  <2>5. \A n \in DOMAIN copies : copies[n].sha \in Texts
    BY <1>4
  <2>6. kept \subseteq Texts /\ quoted \subseteq Texts /\ overrun \subseteq Texts
    BY <1>3
  <2> QED
    BY <1>1, <2>2, <2>3, <2>4, <2>5, <2>6 DEF FolderNames
<1>6. FolderBounds
  <2>1. apart \in BOOLEAN
    BY <1>3
  <2> QED
    BY <1>3, <2>1, FolderAssumption DEF FolderBounds
<1> QED
  BY <1>5, <1>6, FolderSafeInit DEF FolderTyped

\* What no step does: a version or the row never goes.
Grows == /\ Len(copies) <= Len(copies') /\ (RowIs => RowIs')
         /\ \A n \in DOMAIN copies' : copies'[n].sha \in Texts

\* What a step may leave in the row, in a session and with the backfill.
RowNamed == source' = source \/ (source'.sha \in Texts /\ source'.current <= Len(copies'))
SessionNamed == admin' = admin \/ \E p \in Admins, s \in Session :
  admin' = [admin EXCEPT ![p] = s] /\ SessionNames(s, RowIs', Len(copies'))
FillingNamed == filling' = filling \/ FillingNames(filling', RowIs', Len(copies'))
SetsNamed == kept' \subseteq Texts /\ quoted' \subseteq Texts /\ overrun' \subseteq Texts

LEMMA NamesFollow ==
  ASSUME FolderInv, FolderInv', FolderNames, Grows, RowNamed, SessionNamed, FillingNamed, SetsNamed
  PROVE  FolderNames'
<1>1. /\ Len(copies) \in Nat /\ Len(copies') \in Nat /\ source \in SourceRecord
      /\ admin \in [Admins -> Session] /\ filling \in Filling
  BY CopiesAreSeq DEF FolderInv, FolderTypes
<1>2. /\ source.current \in Nat /\ filling.row.current \in Nat
      /\ \A p \in Admins : admin[p].row.current \in Nat
  BY <1>1 DEF SourceRecord, Filling, Session
<1>3. /\ RowIs' => source'.sha \in Texts
      /\ source'.current <= Len(copies')
  BY <1>1, <1>2 DEF FolderNames, Grows, RowNamed, RowIs
<1>4. ASSUME NEW q \in Admins PROVE SessionNames(admin'[q], RowIs', Len(copies'))
  <2>1. SessionNames(admin[q], RowIs', Len(copies'))
    BY <1>1, <1>2 DEF FolderNames, Grows, SessionNames
  <2> QED
    BY <1>1, <2>1 DEF SessionNamed
<1>5. FillingNames(filling', RowIs', Len(copies'))
  BY <1>1, <1>2 DEF FolderNames, Grows, FillingNamed, FillingNames
<1> QED
  BY <1>3, <1>4, <1>5 DEF FolderNames, Grows, SetsNamed

\* The steps after which the versions are the same.
LEMMA SessionNamesStep ==
  ASSUME FolderInv, FolderInv', FolderNames, NEW p \in Admins,
         \/ RefreshReads(p) \/ ArchiveReads(p) \/ Archives(p) \/ RestoreReads(p)
         \/ RestoreRequests(p) \/ Stores(p) \/ SessionFails(p)
  PROVE  Grows /\ RowNamed /\ SessionNamed /\ FillingNamed /\ SetsNamed
<1>1. /\ Len(copies) \in Nat /\ source \in SourceRecord /\ admin \in [Admins -> Session]
      /\ admin[p] \in Session /\ admin'[p] \in Session
  BY CopiesAreSeq DEF FolderInv, FolderTypes
<1>2. UNCHANGED <<copies, filling, quoted>>
  BY DEF RefreshReads, ArchiveReads, Archives, RestoreReads, RestoreRequests, Stores, SessionFails, Begins
<1>3. /\ SessionNames(admin[p], RowIs, Len(copies)) /\ kept \subseteq Texts /\ overrun \subseteq Texts
      /\ quoted \subseteq Texts /\ (RowIs => source.sha \in Texts) /\ source.current <= Len(copies)
      /\ \A n \in DOMAIN copies : copies[n].sha \in Texts
  BY DEF FolderNames
<1>4. SessionNames(NoSession, RowIs', Len(copies'))
  BY <1>1, <1>2, NobodyNames DEF RowIs
<1>5. ASSUME NEW op \in {"refresh", "vanished", "archive", "restore"}, NEW t \in Texts \cup {NoText},
             Begins(p, op, t), op = "refresh" => t \in Texts, op # "refresh" => RowIs
      PROVE  Grows /\ RowNamed /\ SessionNamed /\ FillingNamed /\ SetsNamed
  <2> DEFINE s == [NoSession EXCEPT !.op = op, !.row = source, !.saw = t]
  <2>1. admin' = [admin EXCEPT ![p] = s] /\ UNCHANGED <<source, kept, overrun>>
    BY <1>5 DEF Begins
  <2>2. s \in Session /\ SessionNames(s, RowIs', Len(copies'))
    BY <1>1, <1>2, <1>3, <1>5, <2>1, NothingIsTyped DEF Session, NoSession, SessionNames, RowIs
  <2> HIDE DEF s
  <2>3. SessionNamed
    BY <2>1, <2>2 DEF SessionNamed
  <2> QED
    BY <1>1, <1>2, <1>3, <2>1, <2>3 DEF Grows, RowNamed, FillingNamed, SetsNamed, RowIs
<1>6. CASE RefreshReads(p)
  <2>1. file = "missing" /\ source.status = "active" => RowIs
    BY DEF RowIs
  <2> QED
    BY <1>5, <1>6, <2>1 DEF RefreshReads
<1>7. CASE ArchiveReads(p) \/ RestoreReads(p)
  BY <1>5, <1>7 DEF ArchiveReads, RestoreReads, RowIs
<1>8. CASE Archives(p) \/ RestoreRequests(p)
  <2>1. admin' = [admin EXCEPT ![p] = NoSession] /\ UNCHANGED <<kept, overrun>>
    BY <1>8 DEF Archives, RestoreRequests
  <2>2. RowIs
    BY <1>3, <1>8 DEF Archives, RestoreRequests, SessionNames
  <2>3. RowIs' /\ source'.sha = source.sha /\ source'.current = source.current
    BY <1>1, <1>8, <2>2 DEF Archives, RestoreRequests, SourceRecord, RowIs
  <2>4. SessionNamed
    BY <1>4, <2>1, NothingIsTyped DEF SessionNamed
  <2> QED
    BY <1>1, <1>2, <1>3, <2>1, <2>2, <2>3, <2>4 DEF Grows, RowNamed, FillingNamed, SetsNamed
<1>9. CASE SessionFails(p)
  <2>1. SessionNamed
    BY <1>4, <1>9, NothingIsTyped DEF SessionNamed, SessionFails
  <2> QED
    BY <1>1, <1>2, <1>3, <1>9, <2>1 DEF Grows, RowNamed, FillingNamed, SetsNamed, SessionFails, RowIs
<1>10. CASE Stores(p)
  <2> DEFINE t == admin[p].saw
  <2>1. t \in Texts
    BY <1>1, <1>10 DEF Stores, Session
  <2>2. /\ source' = source
        /\ \/ admin' = [admin EXCEPT ![p] = NoSession] /\ UNCHANGED <<kept, overrun>>
           \/ /\ admin'[p].row = admin[p].row /\ admin'[p].saw = t /\ admin'[p].op = admin[p].op
              /\ admin' = [admin EXCEPT ![p] = admin'[p]]
              /\ kept' \subseteq kept \cup {t} /\ overrun' \subseteq overrun \cup {t}
    BY <1>1, <1>10, PutsKeeps DEF Stores, Session
  <2>3. SessionNamed
    <3>1. CASE admin' = [admin EXCEPT ![p] = NoSession]
      BY <1>4, <3>1, NothingIsTyped DEF SessionNamed
    <3>2. CASE /\ admin'[p].row = admin[p].row /\ admin'[p].saw = t /\ admin'[p].op = admin[p].op
               /\ admin' = [admin EXCEPT ![p] = admin'[p]]
      <4>1. SessionNames(admin'[p], RowIs', Len(copies'))
        BY <1>2, <1>3, <2>1, <2>2, <3>2 DEF SessionNames, RowIs
      <4> QED
        BY <1>1, <3>2, <4>1 DEF SessionNamed
    <3> QED
      BY <2>2, <3>1, <3>2
  <2> QED
    BY <1>1, <1>2, <1>3, <2>1, <2>2, <2>3 DEF Grows, RowNamed, FillingNamed, SetsNamed, RowIs
<1> QED
  BY <1>6, <1>7, <1>8, <1>9, <1>10

LEMMA CommitNamesStep ==
  ASSUME FolderInv, FolderInv', FolderNames, NEW p \in Admins, Commits(p)
  PROVE  Grows /\ RowNamed /\ SessionNamed /\ FillingNamed /\ SetsNamed
<1> DEFINE s == admin[p]
<1>1. /\ copies \in Seq(CopyRow) /\ Len(copies) \in Nat /\ source \in SourceRecord /\ s \in Session
      /\ DOMAIN copies = 1 .. Len(copies) /\ DOMAIN copies' = 1 .. Len(copies')
  BY CopiesAreSeq DEF FolderInv, FolderTypes
<1>2. /\ admin' = [admin EXCEPT ![p] = NoSession] /\ UNCHANGED <<kept, filling, quoted, overrun>>
      /\ s.at = "stored"
  BY DEF Commits
<1>3. /\ SessionNames(s, RowIs, Len(copies)) /\ (RowIs => source.sha \in Texts)
      /\ kept \subseteq Texts /\ quoted \subseteq Texts /\ overrun \subseteq Texts
      /\ source.current <= Len(copies) /\ \A n \in DOMAIN copies : copies[n].sha \in Texts
  BY DEF FolderNames
<1>4. s.saw \in Texts /\ s.op \in {"refresh", "restore"}
  BY <1>2, <1>3 DEF SessionNames, FolderInv, SessionsKnow, Knows
<1>5. FillingNamed /\ SetsNamed
  BY <1>2, <1>3 DEF FillingNamed, SetsNamed
<1>6. Len(copies') \in Nat
  BY CopiesAreSeq DEF FolderInv, FolderTypes
<1>7. SessionNamed
  <2>1. SessionNames(NoSession, RowIs', Len(copies'))
    BY <1>6, NobodyNames DEF RowIs
  <2> QED
    BY <1>2, <2>1, NothingIsTyped DEF SessionNamed
<1>8. CASE UNCHANGED <<source, copies>>
  BY <1>1, <1>3, <1>5, <1>7, <1>8 DEF Grows, RowNamed, RowIs
<1>9. CASE source' = Indexed(s) /\ copies' = Ingested(s)
  <2>1. source'.status = "active" /\ source'.current = CurrentAfter(s)
        /\ source'.sha = IF s.op = "refresh" THEN s.saw ELSE source.sha
    BY <1>1, <1>9 DEF Indexed, SourceRecord
  <2>2. source'.sha \in Texts /\ RowIs'
    BY <1>3, <1>4, <2>1 DEF SessionNames, RowIs
  <2>3. CASE s.missed \/ s.reused # 0
    BY <1>1, <1>3, <1>5, <1>7, <1>9, <2>1, <2>2, <2>3 DEF Grows, RowNamed, Ingested, CurrentAfter
  <2>4. CASE ~(s.missed \/ s.reused # 0)
    <3> DEFINE c == [NoCopy EXCEPT !.sha = s.saw, !.fidelity = "byte_exact", !.chunks = s.saw]
    <3>1. c \in CopyRow /\ c.sha = s.saw
      BY <1>4, NothingIsTyped DEF NoCopy, CopyRow
    <3>2. copies' = Append(copies, c) /\ source'.current = Len(copies) + 1
      BY <1>9, <2>1, <2>4 DEF Ingested, CurrentAfter
    <3> HIDE DEF c
    <3>3. Len(copies') = Len(copies) + 1 /\ copies'[Len(copies) + 1] = c /\ \A n \in 1 .. Len(copies) : copies'[n] = copies[n]
      BY <1>1, <3>1, <3>2, AppendProperties
    <3>4. \A n \in DOMAIN copies' : copies'[n].sha \in Texts
      BY <1>1, <1>3, <1>4, <3>1, <3>3
    <3> QED
      BY <1>1, <1>5, <1>7, <2>2, <3>2, <3>3, <3>4 DEF Grows, RowNamed
  <2> QED
    BY <2>3, <2>4
<1> QED
  BY <1>8, <1>9 DEF Commits

LEMMA FillingNamesStep ==
  ASSUME FolderInv, FolderInv', FolderNames, BackfillLists \/ BackfillExamines \/ BackfillFails
  PROVE  Grows /\ RowNamed /\ SessionNamed /\ FillingNamed /\ SetsNamed
<1>1. /\ Len(copies) \in Nat /\ source \in SourceRecord /\ filling \in Filling
      /\ UNCHANGED <<source, copies, admin, quoted>>
  BY CopiesAreSeq DEF FolderInv, FolderTypes, BackfillLists, BackfillExamines, BackfillFails
<1>2. /\ FillingNames(filling, RowIs, Len(copies)) /\ (RowIs => source.sha \in Texts)
      /\ kept \subseteq Texts /\ quoted \subseteq Texts /\ overrun \subseteq Texts
      /\ source.current <= Len(copies) /\ \A n \in DOMAIN copies : copies[n].sha \in Texts
  BY DEF FolderNames
<1>3. Grows /\ RowNamed /\ SessionNamed
  BY <1>1, <1>2 DEF Grows, RowNamed, SessionNamed, RowIs
<1>4. CASE BackfillFails
  <2>1. FillingNames(NotFilling, RowIs', Len(copies'))
    BY <1>1, NobodyNames DEF RowIs
  <2> QED
    BY <1>1, <1>2, <1>3, <1>4, <2>1 DEF BackfillFails, FillingNamed, SetsNamed
<1>5. CASE BackfillLists
  <2>1. /\ filling'.row = source /\ filling'.new = NoCopy /\ RowIs /\ UNCHANGED <<kept, overrun>>
    BY <1>5 DEF BackfillLists, NotFilling, RowIs
  <2> QED
    BY <1>1, <1>2, <1>3, <2>1 DEF FillingNamed, FillingNames, SetsNamed, RowIs
<1>6. CASE BackfillExamines
  <2> DEFINE row == filling.row
  <2>1. filling.at = "listed" /\ RowIs /\ row.sha \in Texts /\ row.current <= Len(copies)
    BY <1>2, <1>6 DEF BackfillExamines, FillingNames
  <2>2. /\ filling'.row = row
        /\ filling'.new = filling.new \/ filling'.new.sha = row.sha
    <3> DEFINE fidelity == Fidelity(row.sha)
               made == [NoCopy EXCEPT !.sha = row.sha, !.fidelity = fidelity,
                                      !.chunks = source.chunks, !.torn = Moved(row)]
    <3>1. CASE filling' = [filling EXCEPT !.at = "examined"]
      BY <1>1, <3>1 DEF Filling
    <3>2. CASE filling' = [filling EXCEPT !.at = "examined", !.new = made,
                             !.point = ToPoint(row, fidelity), !.mark = ToMark(row, fidelity),
                             !.torn = Moved(row)]
      <4>1. made.sha = row.sha
        BY DEF NoCopy
      <4> HIDE DEF made
      <4> QED
        BY <1>1, <3>2, <4>1 DEF Filling
    <3>3. ASSUME NEW n \in Standing(row.sha), NEW c \in Copyable(n),
                 filling' = [filling EXCEPT !.at = "examined", !.no = n, !.copying = c,
                   !.point = ToPoint(row, copies[n].fidelity),
                   !.mark = ToMark(row, copies[n].fidelity), !.torn = Moved(row)]
          PROVE  filling'.row = row /\ filling'.new = filling.new
      BY <1>1, <3>3 DEF Filling
    <3>4. \/ filling' = [filling EXCEPT !.at = "examined"]
          \/ filling' = [filling EXCEPT !.at = "examined", !.new = made,
                           !.point = ToPoint(row, fidelity), !.mark = ToMark(row, fidelity),
                           !.torn = Moved(row)]
          \/ \E n \in Standing(row.sha) : \E c \in Copyable(n) :
               filling' = [filling EXCEPT !.at = "examined", !.no = n, !.copying = c,
                 !.point = ToPoint(row, copies[n].fidelity),
                 !.mark = ToMark(row, copies[n].fidelity), !.torn = Moved(row)]
      BY <1>6 DEF BackfillExamines
    <3> HIDE DEF row, fidelity, made
    <3> QED
      BY <3>1, <3>2, <3>3, <3>4
  <2>3. kept' \subseteq kept \cup {row.sha} /\ overrun' \subseteq overrun \cup {row.sha}
    <3>1. Puts(row.sha) \/ UNCHANGED <<kept, overrun>>
      BY <1>6 DEF BackfillExamines
    <3> QED
      BY <3>1, PutsKeeps
  <2> HIDE DEF row
  <2>4. FillingNamed
    BY <1>1, <1>2, <2>1, <2>2 DEF FillingNamed, FillingNames, RowIs
  <2> QED
    BY <1>1, <1>2, <1>3, <2>1, <2>3, <2>4 DEF SetsNamed
<1> QED
  BY <1>4, <1>5, <1>6

LEMMA BackfillNamesStep ==
  ASSUME FolderInv, FolderInv', FolderNames, BackfillCommits
  PROVE  Grows /\ RowNamed /\ SessionNamed /\ FillingNamed /\ SetsNamed
<1>1. /\ copies \in Seq(CopyRow) /\ Len(copies) \in Nat /\ source \in SourceRecord /\ filling \in Filling
      /\ DOMAIN copies = 1 .. Len(copies) /\ FolderTypes /\ filling.no \in {0} \cup DOMAIN copies
  BY CopiesAreSeq DEF FolderInv, FolderTypes, FillingKnows
<1>2. Len(copies') \in Nat
  BY CopiesAreSeq DEF FolderInv, FolderTypes
<1>3. /\ FillingNames(filling, RowIs, Len(copies)) /\ (RowIs => source.sha \in Texts)
      /\ kept \subseteq Texts /\ quoted \subseteq Texts /\ overrun \subseteq Texts
      /\ source.current <= Len(copies) /\ \A n \in DOMAIN copies : copies[n].sha \in Texts
  BY DEF FolderNames
<1>4. filling' = NotFilling /\ UNCHANGED <<kept, admin, quoted, overrun>> /\ filling.at = "examined"
  BY DEF BackfillCommits
<1>5. SessionNamed /\ FillingNamed /\ SetsNamed
  BY <1>2, <1>3, <1>4, NobodyNames DEF SessionNamed, FillingNamed, SetsNamed, RowIs
<1>6. RowIs /\ source.sha \in Texts
  BY <1>3, <1>4 DEF FillingNames
<1>7. CASE UNCHANGED <<source, copies>>
  BY <1>1, <1>3, <1>5, <1>7 DEF Grows, RowNamed, RowIs
<1>8. ASSUME NEW n \in 0 .. Len(copies'), Fills(copies', n),
             Len(copies) <= Len(copies'), \A i \in DOMAIN copies' : copies'[i].sha \in Texts
      PROVE  Grows /\ RowNamed /\ SessionNamed /\ FillingNamed /\ SetsNamed
  <2>1. /\ source'.sha = source.sha /\ source'.status \in {source.status, "source_unavailable"}
        /\ source'.current \in {source.current, n}
    BY <1>1, <1>8 DEF Fills, SourceRecord
  <2>2. source'.current <= Len(copies') /\ source.current \in Nat
    BY <1>1, <1>2, <1>3, <1>8, <2>1 DEF SourceRecord
  <2> QED
    BY <1>5, <1>6, <1>8, <2>1, <2>2 DEF Grows, RowNamed, RowIs
<1>9. CASE Fills(copies, 0)
  <2>1. copies' = copies
    BY <1>9 DEF Fills
  <2> QED
    BY <1>1, <1>3, <1>8, <1>9, <2>1
<1>10. CASE filling.new # NoCopy /\ Fills(Append(copies, filling.new), Len(copies) + 1)
  <2>1. filling.new \in CopyRow /\ copies' = Append(copies, filling.new) /\ filling.new.sha \in Texts
    BY <1>1, <1>3, <1>10 DEF Fills, Filling, FillingNames
  <2>2. /\ Len(copies') = Len(copies) + 1 /\ copies'[Len(copies) + 1] = filling.new
        /\ DOMAIN copies' = 1 .. Len(copies) + 1 /\ \A n \in 1 .. Len(copies) : copies'[n] = copies[n]
    BY <1>1, <2>1, AppendProperties
  <2>3. \A n \in DOMAIN copies' : copies'[n].sha \in Texts
    BY <1>1, <1>3, <2>1, <2>2
  <2> QED
    BY <1>1, <1>8, <1>10, <2>1, <2>2, <2>3
<1>11. CASE filling.no # 0 /\ Fills(Copied(filling.no, filling), filling.no)
  <2>1. copies' = Copied(filling.no, filling) /\ filling.no \in DOMAIN copies
    BY <1>1, <1>11 DEF Fills
  <2>2. Len(copies') = Len(copies) /\ \A n \in DOMAIN copies' : n \in DOMAIN copies /\ copies'[n].sha = copies[n].sha
    <3>1. CASE filling.copying = NoText
      BY <2>1, <3>1 DEF Copied
    <3>2. CASE filling.copying # NoText
      <4>1. copies' \in Seq(CopyRow) /\ DOMAIN copies' = DOMAIN copies
            /\ \A n \in DOMAIN copies : copies'[n].sha = copies[n].sha
        BY <1>1, <2>1, <3>2, CopiedShape
      <4>2. Len(copies') \in Nat /\ DOMAIN copies' = 1 .. Len(copies')
        BY <4>1
      <4> QED
        BY <1>1, <4>1, <4>2
    <3> QED
      BY <3>1, <3>2
  <2> QED
    BY <1>1, <1>3, <1>8, <1>11, <2>1, <2>2
<1> QED
  BY <1>7, <1>9, <1>10, <1>11 DEF BackfillCommits

LEMMA RestNamesStep ==
  ASSUME FolderInv, FolderInv', FolderNames, deleting \subseteq DOMAIN copies,
         \/ FileChanges \/ RunQuotes \/ PurgeVersion \/ CheckObject \/ DeleteObject
         \/ UNCHANGED folderVars
  PROVE  Grows /\ RowNamed /\ SessionNamed /\ FillingNamed /\ SetsNamed
<1>1. /\ copies \in Seq(CopyRow) /\ Len(copies) \in Nat /\ DOMAIN copies = 1 .. Len(copies) /\ FolderTypes
      /\ UNCHANGED <<source, admin, filling>>
  BY CopiesAreSeq DEF FolderInv, FolderTypes, FileChanges, RunQuotes, PurgeVersion, CheckObject,
    DeleteObject, folderVars
<1>2. /\ kept \subseteq Texts /\ quoted \subseteq Texts /\ overrun \subseteq Texts
      /\ (RowIs => source.sha \in Texts) /\ \A n \in DOMAIN copies : copies[n].sha \in Texts
  BY DEF FolderNames
<1>3. Len(copies') = Len(copies) /\ \A n \in DOMAIN copies' : n \in DOMAIN copies /\ copies'[n].sha = copies[n].sha
  <2>1. CASE copies' = copies
    BY <2>1
  <2>2. ASSUME NEW n \in DOMAIN copies, NEW l \in Life, copies' = [copies EXCEPT ![n].life = l]
        PROVE  Len(copies') = Len(copies) /\ \A m \in DOMAIN copies' : m \in DOMAIN copies /\ copies'[m].sha = copies[m].sha
    <3>1. copies' \in Seq(CopyRow) /\ DOMAIN copies' = DOMAIN copies
          /\ \A m \in DOMAIN copies : copies'[m].sha = copies[m].sha
      BY <1>1, <2>2, LifeMoves
    <3>2. Len(copies') \in Nat /\ DOMAIN copies' = 1 .. Len(copies')
      BY <3>1
    <3> QED
      BY <1>1, <3>1, <3>2
  <2>3. CASE PurgeVersion \/ CheckObject \/ DeleteObject
    <3>1. copies' = copies \/ \E n \in DOMAIN copies, l \in Life : copies' = [copies EXCEPT ![n].life = l]
      BY <2>3 DEF PurgeVersion, CheckObject, DeleteObject, Life
    <3> QED
      BY <2>1, <2>2, <3>1
  <2> QED
    BY <2>1, <2>3 DEF FileChanges, RunQuotes, folderVars
<1>4. SetsNamed
  <2>1. CASE RunQuotes
    BY <1>2, <2>1 DEF RunQuotes, SetsNamed, RowIs
  <2>2. CASE CheckObject \/ DeleteObject
    BY <1>2, <2>2 DEF CheckObject, DeleteObject, SetsNamed
  <2> QED
    BY <1>2, <2>1, <2>2 DEF FileChanges, PurgeVersion, folderVars, SetsNamed
<1> QED
  BY <1>1, <1>2, <1>3, <1>4 DEF Grows, RowNamed, SessionNamed, FillingNamed, RowIs

LEMMA FolderBoundsStep ==
  ASSUME FolderInv, FolderBounds, [FolderNext]_folderVars
  PROVE  FolderBounds'
<1> USE FolderAssumption DEF FolderBounds, FolderRequest, FolderFault
<1>1. CASE FileChanges
  BY <1>1 DEF FileChanges
<1>2. ASSUME NEW p \in Admins, RefreshReads(p) \/ ArchiveReads(p) \/ RestoreReads(p)
      PROVE  FolderBounds'
  BY <1>2 DEF RefreshReads, ArchiveReads, RestoreReads, Begins
<1>3. ASSUME NEW p \in Admins, Archives(p) \/ RestoreRequests(p) \/ SessionFails(p)
      PROVE  FolderBounds'
  BY <1>3 DEF Archives, RestoreRequests, SessionFails
<1>4. ASSUME NEW p \in Admins, Stores(p) PROVE FolderBounds'
  BY <1>4 DEF Stores
<1>5. ASSUME NEW p \in Admins, Commits(p) PROVE FolderBounds'
  BY <1>5 DEF Commits
<1>6. CASE BackfillLists \/ BackfillFails
  BY <1>6 DEF BackfillLists, BackfillFails
<1>7. CASE BackfillExamines \/ BackfillCommits
  BY <1>7 DEF BackfillExamines, BackfillCommits
<1>8. CASE RunQuotes \/ PurgeVersion \/ CheckObject \/ DeleteObject \/ UNCHANGED folderVars
  BY <1>8 DEF RunQuotes, PurgeVersion, CheckObject, DeleteObject, folderVars
<1> QED
  BY <1>1, <1>2, <1>3, <1>4, <1>5, <1>6, <1>7, <1>8 DEF FolderNext

LEMMA FolderTypedNext == ASSUME FolderTyped, [FolderNext]_folderVars PROVE FolderTyped'
<1>1. FolderInv /\ FolderNames /\ FolderBounds /\ FolderInv' /\ FolderSafe' /\ deleting \subseteq DOMAIN copies
  BY FolderSafeNext DEF FolderTyped, FolderSafe, DeletesUnrelied
<1>2. Grows /\ RowNamed /\ SessionNamed /\ FillingNamed /\ SetsNamed
  <2>1. ASSUME NEW p \in Admins,
               \/ RefreshReads(p) \/ ArchiveReads(p) \/ Archives(p) \/ RestoreReads(p)
               \/ RestoreRequests(p) \/ Stores(p) \/ Commits(p) \/ SessionFails(p)
        PROVE  Grows /\ RowNamed /\ SessionNamed /\ FillingNamed /\ SetsNamed
    BY <1>1, <2>1, SessionNamesStep, CommitNamesStep
  <2>2. CASE BackfillLists \/ BackfillExamines \/ BackfillCommits \/ BackfillFails
    BY <1>1, <2>2, FillingNamesStep, BackfillNamesStep
  <2>3. CASE \/ FileChanges \/ RunQuotes \/ PurgeVersion \/ CheckObject \/ DeleteObject
             \/ UNCHANGED folderVars
    BY <1>1, <2>3, RestNamesStep
  <2> QED
    BY <2>1, <2>2, <2>3 DEF FolderNext
<1>3. FolderNames'
  BY <1>1, <1>2, NamesFollow
<1> QED
  BY <1>1, <1>3, FolderBoundsStep DEF FolderTyped

\* Every step keeps the types of FolderTypeOK: every row, version and object is of a text the
\* file held, what a run names is a version there is, and no row, nor one that a session or the
\* backfill read before, points to a version that was never made.
THEOREM FolderStaysTyped == FolderSpec => []FolderTypeOK
<1>1. FolderInit => FolderTyped
  BY FolderTypedInit
<1>2. FolderTyped /\ [FolderNext]_folderVars => FolderTyped'
  BY FolderTypedNext
<1>3. FolderTyped => FolderTypeOK
  BY FolderTypedIsTyped
<1> QED
  BY <1>1, <1>2, <1>3, PTL DEF FolderSpec

=============================================================================

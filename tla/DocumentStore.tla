---- MODULE DocumentStore ----
(***************************************************************************)
(* One cloud document of a workspace: its row and versions in the          *)
(* database, its bytes in the object store, the durable queue that indexes *)
(* it, and the two operations that delete bytes: purge of the document and *)
(* cleanup of an orphaned object.                                          *)
(*                                                                         *)
(* A content stands for the bytes of a file and for their hash.  An object *)
(* key is <<0, c>> (the key of an upload, the same for every incarnation   *)
(* of the document) or <<d, c>> (the key of a version of incarnation d).   *)
(* A transaction that calls the object store is split around the call and  *)
(* its writes appear at its commit, so "indexing" is never a visible       *)
(* status.                                                                 *)
(***************************************************************************)
EXTENDS Integers, FiniteSets

CONSTANTS Contents,     \* file contents that are uploaded
          IndexWorkers,      \* sequential consumers of the document queue
          NoContent,
          MaxDocs,      \* incarnations of the document (a purge ends one)
          MaxRequests,  \* requests of users (clicks, runs that cite) and faults together
          MaxFaults     \* faults: crashes, expired leases and storage errors

ASSUME DocumentStoreAssumption ==
  /\ NoContent \notin Contents
  /\ MaxDocs \in Nat /\ MaxRequests \in Nat /\ MaxFaults \in Nat

VARIABLES doc,        \* documents: the row of the source, or NoDoc
          job,        \* document_jobs: the latest job of each incarnation
          docWorker,  \* what each worker is doing
          rowHolder,  \* the worker whose transaction holds the row lock
          upload,     \* the upload whose bytes are stored and whose rows are not written
          restoring,  \* the restore under way, one at a time as for uploads
          objects,    \* the object store: keys present
          cited,      \* versions <<d, c>> named by a run or by knowledge
          purge,      \* document_purge_operations: the one of each incarnation, NoPurge when
                      \* there is none or it was cancelled
          purging,    \* the running object reconciler of a purge
          cleanup,    \* object_cleanup_operations: the live one of each upload key, or "none"
          cleaning,   \* the content whose upload key an authorized cleanup deletes next
          requests, docFaults,  \* history: requests and faults so far
          overtaken,  \* history: an upload committed between an indexer's read and its lock or
                      \* during a restore, or a cancelled purge put back a status the document
                      \* no longer had
          restored    \* history: keys stored again after what deletes them last looked

documentVars == <<doc, job, docWorker, rowHolder, upload, restoring, objects, cited, purge,
                  purging, cleanup, cleaning, requests, docFaults, overtaken, restored>>

DocIds == 1..MaxDocs
UploadKey(c) == <<0, c>>
NoDoc == [id |-> 0, status |-> "none", sha |-> NoContent, chunks |-> NoContent,
          versions |-> {}, current |-> NoContent]
NoJob == [no |-> 0, status |-> "none", leased |-> FALSE]
Resting == [at |-> "idle", doc |-> 0, no |-> 0, key |-> NoContent]
NoUpload == [content |-> NoContent, prior |-> 0]
NoRestore == [at |-> "idle", doc |-> 0, key |-> NoContent, known |-> FALSE]
NoPurge == [status |-> "none", seen |-> NoDoc, held |-> "none"]
NotPurging == [doc |-> 0, todo |-> {}, missed |-> FALSE]

DocumentsInit ==
  /\ doc = NoDoc /\ job = [d \in DocIds |-> NoJob]
  /\ docWorker = [w \in IndexWorkers |-> Resting] /\ rowHolder = {}
  /\ upload = NoUpload /\ restoring = NoRestore /\ objects = {} /\ cited = {}
  /\ purge = [d \in DocIds |-> NoPurge] /\ purging = NotPurging
  /\ cleanup = [c \in Contents |-> "none"] /\ cleaning = NoContent
  /\ requests = 0 /\ docFaults = 0 /\ overtaken = FALSE /\ restored = {}

DocStatus == {"none", "queued", "active", "failed", "source_unavailable", "unsupported", "archived",
              "purge_quarantined"}
PurgeStatus == {"none", "proposed", "quarantined", "database_purged", "object_cleanup_pending",
                "completed"}
Bytes == Contents \cup {NoContent}
DocRow == [id : 0..MaxDocs, status : DocStatus, sha : Bytes, chunks : Bytes,
           versions : SUBSET Contents, current : Bytes]

DocumentsTypeOK ==
  /\ doc \in DocRow /\ upload \in [content : Bytes, prior : 0..MaxDocs]
  /\ \A d \in DocIds : job[d].status \in {"none", "queued", "running", "ended", "deleted"}
  /\ \A w \in IndexWorkers : /\ docWorker[w].at \in {"idle", "claimed", "read", "locked", "finish"}
                            /\ docWorker[w].key \in Bytes
  /\ restoring \in [at : {"idle", "fetch", "look", "put", "commit"}, doc : 0..MaxDocs,
                    key : Bytes, known : BOOLEAN]
  /\ rowHolder \in SUBSET IndexWorkers /\ Cardinality(rowHolder) <= 1
  /\ objects \subseteq (0..MaxDocs) \X Contents /\ cited \subseteq DocIds \X Contents
  /\ \A d \in DocIds : purge[d].status \in PurgeStatus /\ purge[d].seen \in DocRow
  /\ purging.todo \subseteq (0..MaxDocs) \X Contents
  /\ cleanup \in [Contents -> {"none", "proposed", "authorized"}] /\ cleaning \in Bytes
  /\ requests \in 0..MaxRequests /\ docFaults \in 0..MaxFaults
  /\ overtaken \in BOOLEAN /\ restored \subseteq (0..MaxDocs) \X Contents

DocumentRequest == requests + docFaults < MaxRequests /\ requests' = requests + 1
LiveJob(d) == job[d].status \in {"queued", "running"}
Unlocked == rowHolder = {}
DocumentFault ==
  docFaults < MaxFaults /\ requests + docFaults < MaxRequests /\ docFaults' = docFaults + 1

\* enqueueDocumentJob: the partial unique index drops a second live job silently.
EnqueueDocumentJob(d) ==
  job' = IF LiveJob(d) THEN job
         ELSE [job EXCEPT ![d] = [no |-> @.no + 1, status |-> "queued", leased |-> FALSE]]

---------------------------------------------------------------------------
\* Uploads and the lifecycle actions of the Library page.

\* A deletion of upload key c has been decided and is not finished.
DeletionDecided(c) ==
  \/ cleaning = c
  \/ \E d \in DocIds : /\ purge[d].status \in {"database_purged", "object_cleanup_pending"}
                       /\ purge[d].seen.sha = c

\* A last look at upload key c: only an upload under way can have stored it since.
StoredSince(c) ==
  (restored \ {UploadKey(c)}) \cup {UploadKey(k) : k \in {upload.content} \cap {c}}

\* uploadDocument up to the store: the prior row is read, the bytes are stored.
PutObject ==
  \E c \in Contents :
    /\ upload = NoUpload /\ DocumentRequest
    /\ ~(doc.sha = c /\ doc.status = "active")
    /\ objects' = objects \cup {UploadKey(c)}
    /\ upload' = [content |-> c, prior |-> doc.id]
    /\ restored' = IF DeletionDecided(c) THEN restored \cup {UploadKey(c)} ELSE restored
    /\ UNCHANGED <<doc, job, docWorker, rowHolder, restoring, cited, purge, purging, cleanup,
                   cleaning, docFaults, overtaken>>

\* An indexer that has not locked the row, or a restore, has read the old key.
UploadOvertakes ==
  \/ \E w \in IndexWorkers : /\ docWorker[w].at = "read" /\ docWorker[w].doc = doc.id
                             /\ docWorker[w].key # upload.content
  \/ restoring # NoRestore /\ restoring.doc = doc.id /\ restoring.key # upload.content

\* Seeded bug: the row is written under the lock of an indexer.
CommitUploadUnlocked ==
  /\ upload # NoUpload /\ upload.prior # 0 /\ doc.id = upload.prior
  /\ doc' = [doc EXCEPT !.sha = upload.content, !.status = "queued"]
  /\ EnqueueDocumentJob(doc.id)
  /\ overtaken' = (overtaken \/ UploadOvertakes)
  /\ upload' = NoUpload
  /\ UNCHANGED <<docWorker, rowHolder, restoring, objects, cited, purge, purging, cleanup, cleaning,
                 requests, docFaults, restored>>

\* The row is repointed whatever its status is, the job is queued, the transaction commits.
CommitUpload ==
  /\ upload # NoUpload /\ upload.prior # 0 /\ doc.id = upload.prior /\ Unlocked
  /\ doc' = [doc EXCEPT !.sha = upload.content, !.status = "queued"]
  /\ EnqueueDocumentJob(doc.id)
  /\ overtaken' = (overtaken \/ UploadOvertakes)
  /\ upload' = NoUpload
  /\ UNCHANGED <<docWorker, rowHolder, restoring, objects, cited, purge, purging, cleanup, cleaning,
                 requests, docFaults, restored>>

\* The same with no prior row: the source gets a new incarnation.
CommitFirstUpload ==
  /\ upload # NoUpload /\ upload.prior = 0 /\ doc = NoDoc
  /\ \E d \in DocIds :
       /\ job[d] = NoJob /\ \A e \in 1..(d - 1) : job[e] # NoJob
       /\ doc' = [NoDoc EXCEPT !.id = d, !.sha = upload.content, !.status = "queued"]
       /\ EnqueueDocumentJob(d)
  /\ upload' = NoUpload
  /\ UNCHANGED <<docWorker, rowHolder, restoring, objects, cited, purge, purging, cleanup, cleaning,
                 requests, docFaults, overtaken, restored>>

\* The transaction fails after the put (the row was purged under it, or any error): the bytes stay.
UploadFails ==
  /\ upload # NoUpload
  /\ \/ doc.id # upload.prior /\ UNCHANGED docFaults
     \/ DocumentFault
  /\ upload' = NoUpload
  /\ UNCHANGED <<doc, job, docWorker, rowHolder, restoring, objects, cited, purge, purging, cleanup,
                 cleaning, requests, overtaken, restored>>

\* recordUnsupported: an upload whose type is refused marks the existing row; its job is not touched.
UploadUnsupported ==
  /\ doc # NoDoc /\ Unlocked /\ DocumentRequest
  /\ doc' = [doc EXCEPT !.status = "unsupported"]
  /\ UNCHANGED <<job, docWorker, rowHolder, upload, restoring, objects, cited, purge, purging,
                 cleanup, cleaning, docFaults, overtaken, restored>>

RetryDocument ==
  /\ doc.status \in {"failed", "source_unavailable"} /\ Unlocked /\ DocumentRequest
  /\ doc' = [doc EXCEPT !.status = "queued"]
  /\ EnqueueDocumentJob(doc.id)
  /\ UNCHANGED <<docWorker, rowHolder, upload, restoring, objects, cited, purge, purging, cleanup,
                 cleaning, docFaults, overtaken, restored>>

ArchiveDocument ==
  /\ doc # NoDoc /\ doc.status # "archived" /\ Unlocked /\ DocumentRequest
  /\ doc' = [doc EXCEPT !.status = "archived", !.chunks = NoContent]
  /\ UNCHANGED <<job, docWorker, rowHolder, upload, restoring, objects, cited, purge, purging,
                 cleanup, cleaning, docFaults, overtaken, restored>>

\* ingestDocumentVersion: known content is reused and the current pointer is left where it is.
Ingest(row, c) ==
  IF c \in row.versions THEN row
  ELSE [row EXCEPT !.versions = @ \cup {c}, !.current = c]

\* restoreDocument, one transaction: the row is read without a lock.
ReadArchived ==
  /\ DocumentRequest /\ restoring = NoRestore /\ doc.status = "archived"
  /\ restoring' = [NoRestore EXCEPT !.at = "fetch", !.doc = doc.id, !.key = doc.sha]
  /\ UNCHANGED <<doc, job, docWorker, rowHolder, upload, objects, cited, purge, purging, cleanup,
                 cleaning, docFaults, overtaken, restored>>

\* The bytes behind the key read before are fetched; without them the intent is noted.
FetchArchived ==
  /\ restoring.at = "fetch"
  /\ restoring' = IF UploadKey(restoring.key) \in objects THEN [restoring EXCEPT !.at = "look"]
                  ELSE NoRestore
  /\ UNCHANGED <<doc, job, docWorker, rowHolder, upload, objects, cited, purge, purging, cleanup,
                 cleaning, requests, docFaults, overtaken, restored>>

\* ingestDocumentVersion looks for the document and for a version of the same bytes.
LookForVersion ==
  /\ restoring.at = "look"
  /\ restoring' = IF doc.id # restoring.doc THEN NoRestore
                  ELSE [restoring EXCEPT !.at = "put", !.known = restoring.key \in doc.versions]
  /\ UNCHANGED <<doc, job, docWorker, rowHolder, upload, objects, cited, purge, purging, cleanup,
                 cleaning, requests, docFaults, overtaken, restored>>

\* ensureObject; the rows may have been purged since.
StoreVersion ==
  /\ restoring.at = "put"
  /\ objects' = objects \cup {<<restoring.doc, restoring.key>>}
  /\ restoring' = [restoring EXCEPT !.at = "commit"]
  /\ restored' = IF doc.id = restoring.doc THEN restored
                 ELSE restored \cup {<<restoring.doc, restoring.key>>}
  /\ UNCHANGED <<doc, job, docWorker, rowHolder, upload, cited, purge, purging, cleanup, cleaning,
                 requests, docFaults, overtaken>>

\* The writes, by id and whatever the row has become: without the row, or with a version
\* another transaction wrote first, they are refused.
CommitRestore ==
  /\ restoring.at = "commit" /\ Unlocked
  /\ doc' = IF doc.id = restoring.doc /\ (restoring.known \/ restoring.key \notin doc.versions)
            THEN [Ingest(doc, restoring.key) EXCEPT !.status = "active", !.chunks = restoring.key]
            ELSE doc
  /\ restoring' = NoRestore
  /\ UNCHANGED <<job, docWorker, rowHolder, upload, objects, cited, purge, purging, cleanup,
                 cleaning, requests, docFaults, overtaken, restored>>

\* An error or a crash rolls it back; the object stays.
RestoreFails ==
  /\ restoring # NoRestore /\ DocumentFault
  /\ restoring' = NoRestore
  /\ UNCHANGED <<doc, job, docWorker, rowHolder, upload, objects, cited, purge, purging, cleanup,
                 cleaning, requests, overtaken, restored>>

\* A run is given the current version of an active document and keeps the reference.
CiteCurrentVersion ==
  /\ doc.status = "active" /\ doc.current # NoContent
  /\ cited' = cited \cup {<<doc.id, doc.current>>}
  /\ UNCHANGED <<doc, job, docWorker, rowHolder, upload, restoring, objects, purge, purging,
                 cleanup, cleaning, requests, docFaults, overtaken, restored>>

---------------------------------------------------------------------------
\* The worker: claim, one index transaction, and the end of the job in a transaction of its own.

\* Seeded bug: a running job whose lease has run out is not claimed again.
DocJobUnleased(d) == job[d].status = "queued" /\ ~job[d].leased

DocJobExpired(d) == job[d].status = "running" /\ ~job[d].leased

ClaimNextDocumentJob(w) ==
  /\ docWorker[w].at = "idle"
  /\ \E d \in DocIds :
       /\ job[d].status = "queued" \/ DocJobExpired(d)
       /\ job' = [job EXCEPT ![d].status = "running", ![d].leased = TRUE]
       /\ docWorker' = [docWorker EXCEPT ![w] =
                          [Resting EXCEPT !.at = "claimed", !.doc = d, !.no = job[d].no]]
  /\ UNCHANGED <<doc, rowHolder, upload, restoring, objects, cited, purge, purging, cleanup,
                 cleaning, requests, docFaults, overtaken, restored>>

\* indexCloudDocument reads the row, without a lock: a vanished row throws, and an active
\* document with chunks is a duplicate delivery.
ReadDocument(w) ==
  /\ docWorker[w].at = "claimed"
  /\ docWorker' = [docWorker EXCEPT ![w] =
       IF doc.id # @.doc \/ (doc.status = "active" /\ doc.chunks # NoContent)
       THEN [@ EXCEPT !.at = "finish"]
       ELSE [@ EXCEPT !.at = "read", !.key = doc.sha]]
  /\ UNCHANGED <<doc, job, rowHolder, upload, restoring, objects, cited, purge, purging, cleanup,
                 cleaning, requests, docFaults, overtaken, restored>>

\* The update to "indexing" takes the row lock.
LockDocument(w) ==
  /\ docWorker[w].at = "read" /\ Unlocked
  /\ IF doc.id = docWorker[w].doc
     THEN rowHolder' = {w} /\ docWorker' = [docWorker EXCEPT ![w].at = "locked"]
     ELSE rowHolder' = {} /\ docWorker' = [docWorker EXCEPT ![w].at = "finish"]
  /\ UNCHANGED <<doc, job, upload, restoring, objects, cited, purge, purging, cleanup, cleaning,
                 requests, docFaults, overtaken, restored>>

IndexEnds(w, row) ==
  /\ docWorker[w].at = "locked"
  /\ doc' = row /\ rowHolder' = {}
  /\ docWorker' = [docWorker EXCEPT ![w].at = "finish"]
  /\ UNCHANGED <<job, upload, restoring, cited, purge, purging, cleanup, cleaning, requests,
                 overtaken, restored>>

\* The bytes behind the key read before are fetched; the legacy chunks and the version are
\* written from them.
IndexDocument(w) ==
  LET c == docWorker[w].key
      row == [doc EXCEPT !.status = "active", !.chunks = c]
  IN /\ UploadKey(c) \in objects
     /\ \/ IndexEnds(w, Ingest(row, c)) /\ objects' = objects \cup {<<doc.id, c>>}
           /\ UNCHANGED docFaults
        \* the version write failed in the store: logged, the legacy index stands
        \/ IndexEnds(w, row) /\ DocumentFault /\ UNCHANGED objects

SourceUnavailable(w) ==
  /\ UploadKey(docWorker[w].key) \notin objects
  /\ IndexEnds(w, [doc EXCEPT !.status = "source_unavailable"])
  /\ UNCHANGED <<objects, docFaults>>

FailIndex(w) ==
  /\ IndexEnds(w, [doc EXCEPT !.status = "failed"])
  /\ DocumentFault /\ UNCHANGED objects

\* finish_document_job: by id, whoever runs the job now. Nothing tells done from failed.
FinishJob(w) ==
  /\ docWorker[w].at = "finish"
  /\ LET d == docWorker[w].doc
     IN job' = IF job[d].no = docWorker[w].no /\ job[d].status # "deleted"
               THEN [job EXCEPT ![d].status = "ended"]
               ELSE job
  /\ docWorker' = [docWorker EXCEPT ![w] = Resting]
  /\ UNCHANGED <<doc, rowHolder, upload, restoring, objects, cited, purge, purging, cleanup,
                 cleaning, requests, docFaults, overtaken, restored>>

\* A crash rolls the open transaction back and releases its lock; the job keeps its lease.
WorkerCrash(w) ==
  /\ docWorker[w].at # "idle" /\ DocumentFault
  /\ docWorker' = [docWorker EXCEPT ![w] = Resting]
  /\ rowHolder' = rowHolder \ {w}
  /\ UNCHANGED <<doc, job, upload, restoring, objects, cited, purge, purging, cleanup, cleaning,
                 requests, overtaken, restored>>

\* Ten minutes pass. While a worker still indexes this is a fault; for an abandoned job it is time.
JobLeaseExpires ==
  \E d \in DocIds :
    /\ job[d].status = "running" /\ job[d].leased
    /\ IF \E w \in IndexWorkers : docWorker[w].doc = d /\ docWorker[w].no = job[d].no
       THEN DocumentFault ELSE UNCHANGED docFaults
    /\ job' = [job EXCEPT ![d].leased = FALSE]
    /\ UNCHANGED <<doc, docWorker, rowHolder, upload, restoring, objects, cited, purge, purging,
                   cleanup, cleaning, requests, overtaken, restored>>

\* reconcileStaleDocumentJobs at a worker's boot.
ReconcileStaleDocumentJobs ==
  /\ \E d \in DocIds : DocJobExpired(d)
  /\ job' = [d \in DocIds |-> IF DocJobExpired(d) THEN [job[d] EXCEPT !.status = "queued"] ELSE job[d]]
  /\ UNCHANGED <<doc, docWorker, rowHolder, upload, restoring, objects, cited, purge, purging,
                 cleanup, cleaning, requests, docFaults, overtaken, restored>>

---------------------------------------------------------------------------
\* Purge: proposed, quarantined for the retention window, executed in two phases.

\* purgeFingerprint: versions, current pointer and keys; never the status.
SameFingerprint(a, b) == a.versions = b.versions /\ a.current = b.current /\ a.sha = b.sha

\* assessDocumentPurge: a citation or a live cleanup of the object blocks.
PurgePermitted(row) ==
  /\ \A c \in row.versions : <<row.id, c>> \notin cited
  /\ row.sha # NoContent => cleanup[row.sha] = "none"

ProposeDocumentPurge ==
  /\ DocumentRequest /\ doc # NoDoc /\ PurgePermitted(doc)
  /\ purge[doc.id].status = "none"
  /\ purge' = [purge EXCEPT ![doc.id] = [NoPurge EXCEPT !.status = "proposed", !.seen = doc]]
  /\ UNCHANGED <<doc, job, docWorker, rowHolder, upload, restoring, objects, cited, purging,
                 cleanup, cleaning, docFaults, overtaken, restored>>

\* Neither the status of the document nor a live job of it is looked at.
AuthorizeDocumentPurge ==
  /\ DocumentRequest /\ doc # NoDoc /\ Unlocked
  /\ purge[doc.id].status = "proposed"
  /\ PurgePermitted(doc) /\ SameFingerprint(doc, purge[doc.id].seen)
  /\ purge' = [purge EXCEPT ![doc.id].status = "quarantined", ![doc.id].held = doc.status]
  /\ doc' = [doc EXCEPT !.status = "purge_quarantined"]
  /\ UNCHANGED <<job, docWorker, rowHolder, upload, restoring, objects, cited, purging, cleanup,
                 cleaning, docFaults, overtaken, restored>>

\* The status to restore is the one of the proposal.
CancelDocumentPurge ==
  /\ DocumentRequest /\ doc # NoDoc /\ Unlocked
  /\ purge[doc.id].status \in {"proposed", "quarantined"}
  /\ purge' = [purge EXCEPT ![doc.id] = NoPurge]
  /\ doc' = IF purge[doc.id].status = "quarantined" /\ doc.status = "purge_quarantined"
            THEN [doc EXCEPT !.status = purge[doc.id].seen.status] ELSE doc
  /\ overtaken' = (overtaken \/ /\ doc.status = "purge_quarantined"
                                /\ purge[doc.id].held # purge[doc.id].seen.status)
  /\ UNCHANGED <<job, docWorker, rowHolder, upload, restoring, objects, cited, purging, cleanup,
                 cleaning, docFaults, restored>>

PurgeTargets(row) ==
  {<<row.id, c>> : c \in row.versions} \cup {UploadKey(c) : c \in {row.sha} \ {NoContent}}

\* Phase A, one transaction, after the retention window: the rows go, the objects stay.
PurgeDatabase ==
  /\ DocumentRequest /\ doc # NoDoc /\ Unlocked /\ purging = NotPurging
  /\ purge[doc.id].status = "quarantined"
  /\ PurgePermitted(doc) /\ SameFingerprint(doc, purge[doc.id].seen)
  /\ doc' = NoDoc
  /\ job' = [job EXCEPT ![doc.id].status = "deleted"]
  /\ purge' = [purge EXCEPT ![doc.id].status = "database_purged"]
  /\ purging' = [doc |-> doc.id, todo |-> PurgeTargets(doc), missed |-> FALSE]
  /\ restored' = StoredSince(doc.sha)
  /\ UNCHANGED <<docWorker, rowHolder, upload, restoring, objects, cited, cleanup, cleaning,
                 docFaults, overtaken>>

\* Phase B again, by a later call of an administrator.
ResumePurge ==
  /\ DocumentRequest /\ purging = NotPurging
  /\ \E d \in DocIds :
       /\ purge[d].status \in {"database_purged", "object_cleanup_pending"}
       /\ purge' = [purge EXCEPT ![d].status = "object_cleanup_pending"]
       /\ purging' = [doc |-> d, todo |-> PurgeTargets(purge[d].seen), missed |-> FALSE]
  /\ UNCHANGED <<doc, job, docWorker, rowHolder, upload, restoring, objects, cited, cleanup,
                 cleaning, docFaults, overtaken, restored>>

\* One key: delete, then head. No version of another document holds an upload key, so the
\* sharing check before it finds nothing.
PurgeObject ==
  \E k \in purging.todo :
    /\ \/ objects' = objects \ {k} /\ purging' = [purging EXCEPT !.todo = @ \ {k}]
          /\ UNCHANGED docFaults
       \* an error whose head does not confirm the absence
       \/ /\ DocumentFault /\ objects' \in {objects, objects \ {k}}
          /\ purging' = [purging EXCEPT !.todo = @ \ {k}, !.missed = TRUE]
    /\ UNCHANGED <<doc, job, docWorker, rowHolder, upload, restoring, cited, purge, cleanup,
                   cleaning, requests, overtaken, restored>>

\* completed only when every key was confirmed absent.
CompletePurge ==
  /\ purging.doc # 0 /\ purging.todo = {}
  /\ purge' = [purge EXCEPT ![purging.doc].status =
                 IF purging.missed THEN "object_cleanup_pending" ELSE "completed"]
  /\ purging' = NotPurging
  /\ UNCHANGED <<doc, job, docWorker, rowHolder, upload, restoring, objects, cited, cleanup,
                 cleaning, requests, docFaults, overtaken, restored>>

PurgeCrash ==
  /\ purging # NotPurging /\ DocumentFault
  /\ purging' = NotPurging
  /\ UNCHANGED <<doc, job, docWorker, rowHolder, upload, restoring, objects, cited, purge, cleanup,
                 cleaning, requests, overtaken, restored>>

---------------------------------------------------------------------------
\* Cleanup of an upload object no row refers to.

\* Seeded bug: the closure of references leaves the rows of documents out.
OrphanOfVersions(c) == c \notin doc.versions

Orphan(c) == doc.sha # c
IngestionActive == \E d \in DocIds : LiveJob(d)

ProposeObjectCleanup ==
  \E c \in Contents :
    /\ DocumentRequest /\ cleanup[c] = "none" /\ UploadKey(c) \in objects
    /\ Orphan(c) /\ ~IngestionActive
    /\ cleanup' = [cleanup EXCEPT ![c] = "proposed"]
    /\ UNCHANGED <<doc, job, docWorker, rowHolder, upload, restoring, objects, cited, purge,
                   purging, cleaning, docFaults, overtaken, restored>>

\* Phase A of executeObjectCleanup, after the quiet period.
AuthorizeObjectCleanup ==
  \E c \in Contents :
    /\ DocumentRequest /\ cleanup[c] \in {"proposed", "authorized"} /\ cleaning = NoContent
    /\ Orphan(c) /\ ~IngestionActive
    /\ IF UploadKey(c) \in objects
       THEN cleanup' = [cleanup EXCEPT ![c] = "authorized"] /\ cleaning' = c
       ELSE cleanup' = [cleanup EXCEPT ![c] = "none"] /\ UNCHANGED cleaning
    /\ restored' = StoredSince(c)
    /\ UNCHANGED <<doc, job, docWorker, rowHolder, upload, restoring, objects, cited, purge,
                   purging, docFaults, overtaken>>

\* Phases B and C: the delete and its record; on an error that head does not confirm as a
\* removal the operation stays authorized for a retry.
DeleteOrphan ==
  /\ cleaning # NoContent
  /\ \/ /\ objects' = objects \ {UploadKey(cleaning)}
        /\ cleanup' = [cleanup EXCEPT ![cleaning] = "none"]
        /\ UNCHANGED docFaults
     \/ /\ DocumentFault /\ objects' \in {objects, objects \ {UploadKey(cleaning)}}
        /\ UNCHANGED cleanup
  /\ cleaning' = NoContent
  /\ UNCHANGED <<doc, job, docWorker, rowHolder, upload, restoring, cited, purge, purging, requests,
                 overtaken, restored>>

---------------------------------------------------------------------------
DocumentsNext ==
  \/ PutObject \/ CommitUpload \/ CommitFirstUpload \/ UploadFails \/ UploadUnsupported
  \/ RetryDocument \/ ArchiveDocument \/ CiteCurrentVersion
  \/ ReadArchived \/ FetchArchived \/ LookForVersion \/ StoreVersion \/ CommitRestore
  \/ RestoreFails
  \/ \E w \in IndexWorkers :
       \/ ClaimNextDocumentJob(w) \/ ReadDocument(w) \/ LockDocument(w) \/ IndexDocument(w)
       \/ SourceUnavailable(w) \/ FailIndex(w) \/ FinishJob(w) \/ WorkerCrash(w)
  \/ JobLeaseExpires \/ ReconcileStaleDocumentJobs
  \/ ProposeDocumentPurge \/ AuthorizeDocumentPurge \/ CancelDocumentPurge
  \/ PurgeDatabase \/ ResumePurge \/ PurgeObject \/ CompletePurge \/ PurgeCrash
  \/ ProposeObjectCleanup \/ AuthorizeObjectCleanup \/ DeleteOrphan

\* The worker's loop keeps going, a row lock is granted in turn, and a lease
\* nobody renews runs out.
DocumentsFairness ==
  /\ \A w \in IndexWorkers :
       /\ WF_documentVars(ClaimNextDocumentJob(w)) /\ WF_documentVars(ReadDocument(w))
       /\ SF_documentVars(LockDocument(w))
       /\ WF_documentVars(IndexDocument(w) \/ SourceUnavailable(w))
       /\ WF_documentVars(FinishJob(w))
  /\ WF_documentVars(JobLeaseExpires)

DocumentsSpec == DocumentsInit /\ [][DocumentsNext]_documentVars

---------------------------------------------------------------------------
(* The legacy chunks of an active document are those of the bytes its row  *)
(* names, whatever uploads, retries, restores and crashes met its index *)
(* job (cloud.ts indexCloudDocument: the row lock is held from the update  *)
(* to "indexing" to the commit). The code leaves three exceptions: an      *)
(* upload that commits after an indexer read the row and before it locked  *)
(* it; one that commits between the read of a restore, which takes no      *)
(* lock, and its writes by id (documents.ts restoreDocument); and a        *)
(* cancelled purge that puts the status of its proposal back on a document *)
(* that had left it before the quarantine.                                 *)
ServesItsContent ==
  doc.status = "active" => doc.chunks \in {doc.sha, NoContent} \/ overtaken

(* The bytes that rows name stay in the store.  Neither a purge of an      *)
(* earlier incarnation nor a cleanup deletes the object of a document,     *)
(* unless the same bytes were uploaded again after the deletion's last     *)
(* check of references (purge.ts phase A, cleanup.ts phase A); and a       *)
(* version that a run or a knowledge record cites survives every purge,    *)
(* row and bytes: the reference check is repeated at the irreversible step *)
(* (purge.ts executeDocumentPurge), since a quarantined document may have  *)
(* been indexed and cited again.  And a purge that says completed left no  *)
(* version object behind, through failed deletes, unconfirmed heads,       *)
(* crashes and resumed reconciliations, but for what a restore stored      *)
(* after the rows were gone (versions.ts ensureObject).                    *)
ObjectsMatchRows ==
  /\ doc # NoDoc => UploadKey(doc.sha) \in objects \cup restored
  /\ \A v \in cited : doc.id = v[1] /\ v[2] \in doc.versions /\ v \in objects
  /\ \A d \in DocIds : purge[d].status = "completed" =>
       \A c \in purge[d].seen.versions : <<d, c>> \notin objects \ restored

(* "Old chunks stay until the job atomically replaces them" (cloud.ts      *)
(* uploadDocument): an active document whose jobs are over does not serve  *)
(* the chunks of bytes that an upload has replaced.                        *)
UploadIsIndexed ==
  doc.status = "active" /\ ~LiveJob(doc.id) => doc.chunks \in {doc.sha, NoContent}

(* Every index job ends: done, failed or deleted with its document.        *)
IndexJobsSettle == \A d \in DocIds : LiveJob(d) ~> ~LiveJob(d)

(* After a document is indexed, the current version is the one its legacy  *)
(* chunks were cut from (cloud.ts indexCloudDocument, "repoint current").  *)
CurrentIsIndexed ==
  doc.status = "active" /\ doc.chunks # NoContent => doc.current = doc.chunks

(* A quarantined document is excluded from retrieval.                      *)
QuarantineExcludes ==
  doc # NoDoc /\ purge[doc.id].status = "quarantined" => doc.status # "active"
=============================================================================

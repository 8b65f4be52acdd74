---------------------------- MODULE FolderDocuments ----------------------------
(***************************************************************************)
(* One file of a linked folder as a document: its row, its immutable       *)
(* versions with their retained bytes, and what works on them at the same  *)
(* time: refreshes, archives and restores by admins, the backfill of       *)
(* versions, runs that quote it, the purge of a version in two phases.     *)
(*                                                                         *)
(* A text stands for a file's bytes, their hash and their chunks.          *)
(* Transactions are READ COMMITTED: one reads, then holds the row of the   *)
(* document from its first update ("stored") to its commit, where its      *)
(* writes appear.  An insert that a unique index forbids waits for the     *)
(* other transaction and then aborts: here it aborts at its commit.        *)
(***************************************************************************)
EXTENDS Naturals, Sequences

CONSTANTS
  Texts,              \* what the file may hold
  NoText,
  Admins,             \* sessions of the documents page
  MaxFolderRequests,  \* bound on refreshes, archives, restores and backfills together
  MaxFileChanges,     \* bound on the changes of the file
  MaxFolderFaults     \* bound on errors of the store and crashes

ASSUME FolderAssumption ==
  /\ NoText \notin Texts
  /\ MaxFolderRequests \in Nat /\ MaxFileChanges \in Nat /\ MaxFolderFaults \in Nat

VARIABLES
  file,      \* the text of the file, or "missing", or "unreachable" with its folder
  source,    \* documents: the row and, as chunks, the legacy chunks
  copies,    \* document_versions, a purged one with its tombstone
  kept,      \* texts whose version object is in the store
  admin,     \* the transaction of each admin
  filling,   \* the transaction of the backfill
  quoted,    \* hashes that runs and knowledge name without a version
  relied,    \* versions they name by id
  deleting,  \* purged versions whose object was found unshared and is deleted next
  folderRequests, fileChanges, folderFaults,
  apart,     \* ghost: a restore of changed bytes left the hash of the row behind
  overrun    \* ghost: texts whose object a transaction relied on when or after its deletion
             \* last looked for another version

folderVars == <<file, source, copies, kept, admin, filling, quoted, relied, deleting,
                folderRequests, fileChanges, folderFaults, apart, overrun>>

NoSource == [status |-> "none", sha |-> NoText, chunks |-> NoText, intended |-> FALSE,
             restore |-> FALSE, current |-> 0]
NoCopy == [sha |-> NoText, fidelity |-> "unavailable", chunks |-> NoText, life |-> "kept",
           torn |-> FALSE]
NoSession == [op |-> "none", row |-> NoSource, saw |-> NoText, at |-> "read", reused |-> 0,
              missed |-> FALSE]
NotFilling == [at |-> "idle", row |-> NoSource, no |-> 0, new |-> NoCopy, copying |-> NoText,
               point |-> FALSE, mark |-> FALSE, torn |-> FALSE]

\* A new file, or a document indexed, or found vanished, before there were versions.
FolderInit ==
  /\ file \in Texts \cup {"missing"}
  /\ source \in {NoSource} \cup
       UNION {{[NoSource EXCEPT !.status = "active", !.sha = t, !.chunks = t],
               [NoSource EXCEPT !.status = "archived", !.sha = t]} : t \in Texts}
  /\ copies = <<>> /\ kept = {}
  /\ admin = [p \in Admins |-> NoSession] /\ filling = NotFilling
  /\ quoted = {} /\ relied = {} /\ deleting = {}
  /\ folderRequests = 0 /\ fileChanges = 0 /\ folderFaults = 0
  /\ apart = FALSE /\ overrun = {}

\* The current version of a row is one there is, or none.
SourceRow ==
  [status : {"none", "active", "archived", "source_unavailable"}, sha : Texts \cup {NoText},
   chunks : Texts \cup {NoText}, intended : BOOLEAN, restore : BOOLEAN,
   current : 0..Len(copies)]

FolderTypeOK ==
  /\ file \in Texts \cup {"missing", "unreachable"} /\ source \in SourceRow
  /\ \A n \in DOMAIN copies :
       copies[n] \in [sha : Texts, fidelity : {"byte_exact", "reconstructed_text", "unavailable"},
                      chunks : Texts \cup {NoText}, torn : BOOLEAN,
                      life : {"kept", "object_cleanup_pending", "completed",
                              "completed_object_retained_shared"}]
  /\ kept \subseteq Texts /\ quoted \subseteq Texts /\ overrun \subseteq Texts
  /\ relied \subseteq DOMAIN copies /\ deleting \subseteq DOMAIN copies
  /\ \A p \in Admins : /\ admin[p].op \in {"none", "refresh", "vanished", "archive", "restore"}
                       /\ admin[p].row \in SourceRow /\ admin[p].at \in {"read", "stored"}
  /\ filling.at \in {"idle", "listed", "examined"} /\ filling.row \in SourceRow
  /\ folderRequests <= MaxFolderRequests /\ fileChanges <= MaxFileChanges
  /\ folderFaults <= MaxFolderFaults /\ apart \in BOOLEAN

FolderRequest == folderRequests < MaxFolderRequests /\ folderRequests' = folderRequests + 1
FolderFault == folderFaults < MaxFolderFaults /\ folderFaults' = folderFaults + 1
RowFree == \A p \in Admins : admin[p].at = "read"

Stands(n) == n \in DOMAIN copies /\ copies[n].life = "kept"
Standing(t) == {n \in DOMAIN copies : Stands(n) /\ copies[n].sha = t}
Retained(t) == {n \in Standing(t) : copies[n].fidelity # "unavailable"}

\* ensureObject.
Puts(t) ==
  /\ kept' = kept \cup {t}
  /\ overrun' = IF \E n \in deleting : copies[n].sha = t THEN overrun \cup {t} ELSE overrun \ {t}

-----------------------------------------------------------------------------
\* The owner of the folder edits, removes or moves the file, or the host loses the folder.
FileChanges ==
  /\ fileChanges < MaxFileChanges /\ fileChanges' = fileChanges + 1
  /\ file' \in (Texts \cup {"missing", "unreachable"}) \ {file}
  /\ UNCHANGED <<source, copies, kept, admin, filling, quoted, relied, deleting, folderRequests,
                 folderFaults, apart, overrun>>

Begins(p, op, t) ==
  /\ admin[p] = NoSession /\ FolderRequest
  /\ admin' = [admin EXCEPT ![p] = [NoSession EXCEPT !.op = op, !.row = source, !.saw = t]]
  /\ UNCHANGED <<file, source, copies, kept, filling, quoted, relied, deleting, fileChanges,
                 folderFaults, apart, overrun>>

\* Archived by an admin who has not asked for it back.
PutAway(row) == row.status = "archived" /\ row.intended /\ ~row.restore

\* Seeded bug: every archived document whose file exists is indexed again.
RefreshesArchived(row, t) == ~(row.status = "active" /\ row.sha = t)

Refreshes(row, t) == ~PutAway(row) /\ ~(row.status = "active" /\ row.sha = t)

\* refreshIndex reads the rows, then the folder.  An unreachable folder stops it.
RefreshReads(p) ==
  \/ file \in Texts /\ Refreshes(source, file) /\ Begins(p, "refresh", file)
  \/ file = "missing" /\ source.status = "active" /\ Begins(p, "vanished", NoText)

ArchiveReads(p) == source.status \notin {"none", "archived"} /\ Begins(p, "archive", NoText)

\* A file that is gone is archived without intent, archiveDocument records one.  The chunks
\* are deleted before the row is locked: those another transaction writes meanwhile stay.
Archives(p) ==
  /\ admin[p].op \in {"vanished", "archive"} /\ RowFree
  /\ \E left \in {NoText, IF source = admin[p].row THEN NoText ELSE source.chunks} :
       source' = [source EXCEPT !.status = "archived", !.chunks = left,
                    !.intended = @ \/ admin[p].op = "archive",
                    !.restore = @ /\ admin[p].op = "vanished"]
  /\ admin' = [admin EXCEPT ![p] = NoSession]
  /\ UNCHANGED <<file, copies, kept, filling, quoted, relied, deleting, folderRequests,
                 fileChanges, folderFaults, apart, overrun>>

\* restoreDocument, with the file at hand or without: then it records the request.
RestoreReads(p) ==
  source.status = "archived" /\ Begins(p, "restore", IF file \in Texts THEN file ELSE NoText)

RestoreRequests(p) ==
  /\ admin[p].op = "restore" /\ admin[p].saw = NoText /\ RowFree
  /\ source' = [source EXCEPT !.restore = TRUE]
  /\ admin' = [admin EXCEPT ![p] = NoSession]
  /\ UNCHANGED <<file, copies, kept, filling, quoted, relied, deleting, folderRequests,
                 fileChanges, folderFaults, apart, overrun>>

\* The object and, before it, the look for a version of the same content.
Stores(p) ==
  /\ admin[p].op \in {"refresh", "restore"} /\ admin[p].saw # NoText
  /\ admin[p].at = "read" /\ RowFree
  /\ LET t == admin[p].saw
         reused == IF Retained(t) = {} THEN 0 ELSE CHOOSE n \in Retained(t) : TRUE
     IN IF admin[p].row.status = "none" /\ source.status # "none"
        \* the row was inserted meanwhile
        THEN admin' = [admin EXCEPT ![p] = NoSession] /\ UNCHANGED <<kept, folderFaults, overrun>>
        ELSE \/ /\ admin' = [admin EXCEPT ![p].at = "stored", ![p].reused = reused]
                /\ Puts(t) /\ UNCHANGED folderFaults
             \* a refresh logs the error and goes on
             \/ /\ admin[p].op = "refresh" /\ FolderFault
                /\ admin' = [admin EXCEPT ![p].at = "stored", ![p].missed = TRUE]
                /\ UNCHANGED <<kept, overrun>>
  /\ UNCHANGED <<file, source, copies, filling, quoted, relied, deleting, folderRequests,
                 fileChanges, apart>>

\* ingestDocumentVersion: a new version with its chunks, unless the content is known.
Ingested(s) ==
  IF s.missed \/ s.reused # 0 THEN copies
  ELSE Append(copies, [NoCopy EXCEPT !.sha = s.saw, !.fidelity = "byte_exact",
                                     !.chunks = s.saw])

\* Only a new version becomes the current one.
CurrentAfter(s) == IF s.missed \/ s.reused # 0 THEN source.current ELSE Len(copies) + 1

\* A restore writes the chunks, and leaves the hash of the row as it was.
Indexed(s) ==
  [source EXCEPT !.status = "active", !.chunks = s.saw, !.intended = FALSE,
                 !.restore = FALSE, !.current = CurrentAfter(s),
                 !.sha = IF s.op = "refresh" THEN s.saw ELSE @]

\* The commit, unless the unique index found the version of another transaction.
Commits(p) ==
  LET s == admin[p]
  IN /\ s.at = "stored"
     /\ IF ~s.missed /\ s.reused = 0 /\ Retained(s.saw) # {}
        THEN UNCHANGED <<source, copies, apart>>
        ELSE /\ source' = Indexed(s) /\ copies' = Ingested(s)
             /\ apart' = (s.op = "restore" /\ s.saw # source.sha)
     /\ admin' = [admin EXCEPT ![p] = NoSession]
     /\ UNCHANGED <<file, kept, filling, quoted, relied, deleting, folderRequests, fileChanges,
                    folderFaults, overrun>>

\* A crash or an error of the database: the transaction rolls back, the object stays.
SessionFails(p) ==
  /\ admin[p].at = "stored" /\ FolderFault
  /\ admin' = [admin EXCEPT ![p] = NoSession]
  /\ UNCHANGED <<file, source, copies, kept, filling, quoted, relied, deleting, folderRequests,
                 fileChanges, apart, overrun>>

-----------------------------------------------------------------------------
\* backfillProject lists the rows of all documents first.
BackfillLists ==
  /\ filling = NotFilling /\ source.status # "none" /\ FolderRequest
  /\ filling' = [NotFilling EXCEPT !.at = "listed", !.row = source]
  /\ UNCHANGED <<file, source, copies, kept, admin, quoted, relied, deleting, fileChanges,
                 folderFaults, apart, overrun>>

\* A row whose current version stands is already reconciled.
Reconciled(row) == Stands(row.current)

\* classifyAndRetain: what can be claimed of the text that was indexed.
Fidelity(t) ==
  IF file = t THEN "byte_exact"
  ELSE IF source.chunks # NoText THEN "reconstructed_text" ELSE "unavailable"

\* Evidence is gone: only a document listed as active is marked.
ToMark(row, fidelity) == fidelity = "unavailable" /\ row.status = "active"

ToPoint(row, fidelity) ==
  /\ row.status = "active"
  /\ \/ fidelity = "byte_exact"
     \/ fidelity = "reconstructed_text" /\ source.chunks # NoText

\* The chunks of now are not those of the listed hash: the row has changed since, or a
\* restore had left its hash behind.
Moved(row) == source.sha # row.sha \/ apart

\* The legacy chunks to copy into a version: those it has are told apart by their number.
Copyable(n) ==
  IF source.chunks \in {NoText, copies[n].chunks} \/ copies[n].fidelity = "unavailable" THEN {NoText}
  ELSE {source.chunks} \cup (IF copies[n].chunks = NoText THEN {} ELSE {NoText})

\* backfillOneDocument up to its updates: the versions, the legacy chunks and the file as
\* they are now, for the row as it was.
BackfillExamines ==
  LET row == filling.row IN
  /\ filling.at = "listed"
  /\ \/ /\ Reconciled(row) /\ filling' = [filling EXCEPT !.at = "examined"]
        /\ UNCHANGED <<kept, overrun>>
     \/ /\ ~Reconciled(row) /\ Standing(row.sha) = {}
        /\ LET fidelity == Fidelity(row.sha)
           IN /\ filling' = [filling EXCEPT !.at = "examined",
                   !.new = [NoCopy EXCEPT !.sha = row.sha, !.fidelity = fidelity,
                                          !.chunks = source.chunks, !.torn = Moved(row)],
                   !.point = ToPoint(row, fidelity), !.mark = ToMark(row, fidelity),
                   !.torn = Moved(row)]
              /\ IF fidelity = "byte_exact"
                 THEN Puts(row.sha)
                 ELSE UNCHANGED <<kept, overrun>>
     \/ /\ ~Reconciled(row)
        /\ \E n \in Standing(row.sha) :
             LET fidelity == copies[n].fidelity
             IN /\ \E c \in Copyable(n) :
                     filling' = [filling EXCEPT !.at = "examined", !.no = n, !.copying = c,
                          !.point = ToPoint(row, fidelity), !.mark = ToMark(row, fidelity),
                          !.torn = Moved(row)]
                /\ IF fidelity = "byte_exact" /\ file = row.sha
                   THEN Puts(row.sha)
                   ELSE UNCHANGED <<kept, overrun>>
  /\ UNCHANGED <<file, source, copies, admin, quoted, relied, deleting, folderRequests,
                 fileChanges, folderFaults, apart>>

\* reconcileKnowledgeRefs and reconcileRunRefs: a hash with exactly one version is bound to it.
Bound(all) ==
  LET of(t) == {n \in DOMAIN all : all[n].life = "kept" /\ all[n].sha = t}
  IN UNION {of(t) : t \in {u \in quoted : \E n \in DOMAIN all : of(u) = {n}}}

Copied(n, f) ==
  IF f.copying = NoText THEN copies
  ELSE [copies EXCEPT ![n].chunks = f.copying, ![n].torn = f.torn]

\* The versions and the row the backfill leaves, both by id.
Fills(all, n) ==
  /\ copies' = all
  /\ source' = [source EXCEPT !.current = IF filling.point THEN n ELSE @,
                              !.status = IF filling.mark THEN "source_unavailable" ELSE @]
  /\ relied' = relied \cup Bound(all)

\* One transaction for the workspace: it aborts when the version it inserts exists by now, or
\* the one it found is gone when setCurrentVersion looks; it may be gone right after.
BackfillCommits ==
  /\ filling.at = "examined" /\ (filling.point \/ filling.mark => RowFree)
  /\ \/ filling.new = NoCopy /\ filling.no = 0 /\ Fills(copies, 0)
     \/ /\ filling.new # NoCopy
        /\ IF \A n \in Standing(filling.new.sha) :
                 (filling.new.fidelity = "unavailable") # (copies[n].fidelity = "unavailable")
           THEN Fills(Append(copies, filling.new), Len(copies) + 1)
           ELSE UNCHANGED <<source, copies, relied>>
     \/ filling.no # 0 /\ Fills(Copied(filling.no, filling), filling.no)
     \/ /\ filling.point /\ filling.no # 0 /\ ~Stands(filling.no)
        /\ UNCHANGED <<source, copies, relied>>
  /\ filling' = NotFilling
  /\ UNCHANGED <<file, kept, admin, quoted, deleting, folderRequests, fileChanges, folderFaults,
                 apart, overrun>>

BackfillFails ==
  /\ filling.at = "examined" /\ FolderFault
  /\ filling' = NotFilling
  /\ UNCHANGED <<file, source, copies, kept, admin, quoted, relied, deleting, folderRequests,
                 fileChanges, apart, overrun>>

-----------------------------------------------------------------------------
\* A run gets the document: by hash under the legacy retrieval, by version under the other.
RunQuotes ==
  /\ source.status = "active"
  /\ \/ source.chunks # NoText /\ quoted' = quoted \cup {source.sha} /\ UNCHANGED relied
     \/ /\ Stands(source.current) /\ copies[source.current].chunks # NoText
        /\ relied' = relied \cup {source.current} /\ UNCHANGED quoted
  /\ UNCHANGED <<file, source, copies, kept, admin, filling, deleting, folderRequests,
                 fileChanges, folderFaults, apart, overrun>>

\* assessPurge: the current pointer and every reference by id block.
Unused(n) == source.current # n /\ n \notin relied

\* The lock that a copy into the version holds, through its foreign key.
CopiedInto(n) == filling.no = n /\ filling.copying # NoText

\* Seeded bug: the object goes without a look for another version.
SharedNever(t) == t = NoText

\* objectShared: another version has the object.
Shared(t) == \E n \in Retained(t) : copies[n].fidelity = "byte_exact"

\* purgePhase1: version and row locked, the assessment repeated, the row deleted.
PurgeVersion ==
  /\ RowFree
  /\ \E n \in DOMAIN copies :
       /\ Stands(n) /\ Unused(n) /\ ~CopiedInto(n)
       /\ copies' = [copies EXCEPT ![n].life =
            IF copies[n].fidelity = "byte_exact" THEN "object_cleanup_pending"
            ELSE "completed"]
  /\ UNCHANGED <<file, source, kept, admin, filling, quoted, relied, deleting, folderRequests,
                 fileChanges, folderFaults, apart, overrun>>

\* A transaction that wrote the object or found it there, and has not committed.
Writing(t) ==
  \/ \E p \in Admins : admin[p].at = "stored" /\ admin[p].saw = t /\ ~admin[p].missed
  \/ filling.new.sha = t /\ filling.new.fidelity = "byte_exact"

\* purgePhase2, a transaction of its own (one at a time for a version) that holds no lock:
\* the look for another version that has the object.
CheckObject ==
  \E n \in DOMAIN copies \ deleting :
    LET t == copies[n].sha IN
    /\ copies[n].life = "object_cleanup_pending"
    /\ IF Shared(t)
       THEN /\ copies' = [copies EXCEPT ![n].life = "completed_object_retained_shared"]
            /\ UNCHANGED <<deleting, overrun>>
       ELSE /\ deleting' = deleting \cup {n}
            /\ overrun' = IF Writing(t) THEN overrun \cup {t} ELSE overrun
            /\ UNCHANGED copies
    /\ UNCHANGED <<file, source, kept, admin, filling, quoted, relied, folderRequests,
                   fileChanges, folderFaults, apart>>

\* The delete and its record; a failed delete or a crash leaves the tombstone pending.
DeleteObject ==
  \E n \in deleting :
    /\ deleting' = deleting \ {n}
    /\ \/ /\ kept' = kept \ {copies[n].sha}
          /\ copies' = [copies EXCEPT ![n].life = "completed"]
          /\ UNCHANGED folderFaults
       \/ /\ FolderFault
          /\ kept' \in {kept, kept \ {copies[n].sha}} /\ UNCHANGED copies
    /\ UNCHANGED <<file, source, admin, filling, quoted, relied, folderRequests, fileChanges,
                   apart, overrun>>

-----------------------------------------------------------------------------
FolderNext ==
  \/ FileChanges
  \/ \E p \in Admins :
       \/ RefreshReads(p) \/ ArchiveReads(p) \/ Archives(p) \/ RestoreReads(p)
       \/ RestoreRequests(p) \/ Stores(p) \/ Commits(p) \/ SessionFails(p)
  \/ BackfillLists \/ BackfillExamines \/ BackfillCommits \/ BackfillFails
  \/ RunQuotes \/ PurgeVersion \/ CheckObject \/ DeleteObject

FolderSpec == FolderInit /\ [][FolderNext]_folderVars

-----------------------------------------------------------------------------
\* What is recorded of a file is so, whatever refreshes, restores, backfills, purges and
\* crashes overlap.  A version called byte_exact has its bytes in the store, but for a purge
\* that looked for another version while a transaction had stored them and not committed, or
\* before they were stored again ahead of its delete (versions.ts ensureObject, retention.ts
\* purgePhase2: no lock is held from the look to the delete).  The chunks of a version are
\* those of its own text, but for a backfill that copied from a row changed since it was
\* listed, or left behind by a restore.  There is one placeholder and one retained version of
\* a text at most.  A version a run or knowledge names stands (retention.ts purgePhase1).
\* What an active document gives to a legacy run is the text its hash says, until a restore
\* of changed bytes, which leaves the hash as it was (documents.ts restoreDocument).
EvidenceIsTrue ==
  /\ \A n \in DOMAIN copies : Stands(n) =>
       /\ copies[n].fidelity = "byte_exact" => copies[n].sha \in kept \cup overrun
       /\ copies[n].chunks \in {copies[n].sha, NoText} \/ copies[n].torn
       /\ \A m \in Standing(copies[n].sha) \ {n} :
            (copies[m].fidelity = "unavailable") # (copies[n].fidelity = "unavailable")
  /\ \A n \in relied : Stands(n)
  /\ source.status = "active" /\ ~apart => source.chunks = source.sha

\* "No silent restore": a document archived by an admin leaves the archive through a restore,
\* or through a refresh or a backfill that had read its row before the archive or after a
\* request to restore it (documents.ts refreshIndex, restoreDocument, backfill.ts).
ArchiveIsRespected ==
  [][PutAway(source) /\ source'.status # "archived" =>
       \/ \E p \in Admins :
            /\ admin[p].op = "restore" \/ ~PutAway(admin[p].row)
            /\ admin[p].at = "stored" /\ admin'[p] = NoSession
       \/ filling.mark /\ filling' = NotFilling /\ ~PutAway(filling.row)]_folderVars
=============================================================================

------------------------------ MODULE OtaStore ------------------------------
(***************************************************************************)
(* The firmware store: OtaService.uploadOta and OtaService.delete.         *)
(*                                                                         *)
(* An upload stores the file and then inserts its row, whose version is    *)
(* unique.  A DELETE runs in a transaction: it looks for the row, deletes  *)
(* it, removes the file from the storage, which knows nothing of the       *)
(* transaction, and commits.  Between its DELETE statement and the end of  *)
(* the transaction it holds a lock on the row, for which other DELETEs of  *)
(* the row and INSERTs of its version wait; readers see the row until the  *)
(* commit.                                                                 *)
(*                                                                         *)
(* As in PrinterRegistration, a stage names the command a call awaits, and *)
(* an action is the execution of this command.                             *)
(***************************************************************************)
EXTENDS Naturals

CONSTANTS
    Versions,   \* firmware versions
    Uploads,    \* POST /ota calls; a call also stands for the key of its file
    Deletes,    \* DELETE /ota/:id calls
    MaxRows,    \* bound on the rows ever inserted
    MaxFaults,  \* bound on failed commands and crashes
    None        \* no value

ASSUME BoundAssumption == MaxRows \in Nat /\ MaxFaults \in Nat

VARIABLES
    rows,       \* the table pre_ota, as committed: id -> row, or None
    nextId,     \* the next AUTO_INCREMENT value
    lock,       \* the transaction that has deleted each row, or None
    files,      \* firmware files in the storage
    upload,     \* the POST /ota calls
    delete,     \* the DELETE /ota/:id calls
    faults      \* failed commands and crashes so far

vars == <<rows, nextId, lock, files, upload, delete, faults>>

RowIds == 1..MaxRows
Row    == [version : Versions, file : Uploads]

ASSUME NoneAssumption == None \notin Versions \cup Uploads \cup Deletes \cup Row

(***************************************************************************)
(* "refused" is an upload whose version was taken, "leaked" one that broke *)
(* off with its file, or a part of it, in the storage and no row; "broken" *)
(* is a DELETE whose transaction was rolled back after it had removed the  *)
(* file.                                                                   *)
(***************************************************************************)
UploadStages == {"new", "upload", "save", "done", "refused", "leaked", "failed"}
DeleteStages == {"new", "find", "erase", "unlink", "commit",
                 "done", "notfound", "failed", "broken"}

UploadCall == [stage : UploadStages, version : Versions \cup {None}]
DeleteCall == [stage : DeleteStages, id : RowIds \cup {0}, file : Uploads \cup {None}]

Init ==
    /\ rows   = [id \in RowIds |-> None]
    /\ nextId = 1
    /\ lock   = [id \in RowIds |-> None]
    /\ files  = {}
    /\ upload = [u \in Uploads |-> [stage |-> "new", version |-> None]]
    /\ delete = [d \in Deletes |-> [stage |-> "new", id |-> 0, file |-> None]]
    /\ faults = 0

-----------------------------------------------------------------------------
(* uploadOta                                                               *)

ReceiveUpload(u, version) ==
    /\ upload[u].stage = "new"
    /\ upload' = [upload EXCEPT ![u] = [stage |-> "upload", version |-> version]]
    /\ UNCHANGED <<rows, nextId, lock, files, delete, faults>>

\* Mutant: the call does not wait for the upload, which then fails.
StoreFileUnawaited(u) ==
    /\ upload[u].stage = "upload"
    /\ upload' = [upload EXCEPT ![u].stage = "save"]
    /\ UNCHANGED <<rows, nextId, lock, files, delete, faults>>

StoreFile(u) ==
    /\ upload[u].stage = "upload"
    /\ upload' = [upload EXCEPT ![u].stage = "save"]
    /\ files' = files \cup {u}
    /\ UNCHANGED <<rows, nextId, lock, delete, faults>>

WithVersion(version) == {id \in RowIds : rows[id] # None /\ rows[id].version = version}

\* Mutant: the row is saved without the key of its file.
InsertRowKeyless(u) ==
    /\ upload[u].stage = "save"
    /\ WithVersion(upload[u].version) = {}
    /\ nextId \in RowIds
    /\ upload' = [upload EXCEPT ![u].stage = "done"]
    /\ rows' = [rows EXCEPT ![nextId] = [version |-> upload[u].version, file |-> None]]
    /\ nextId' = nextId + 1
    /\ UNCHANGED <<lock, files, delete, faults>>

InsertRow(u) ==
    /\ upload[u].stage = "save"
    /\ WithVersion(upload[u].version) = {}
    /\ nextId \in RowIds
    /\ upload' = [upload EXCEPT ![u].stage = "done"]
    /\ rows' = [rows EXCEPT ![nextId] = [version |-> upload[u].version, file |-> u]]
    /\ nextId' = nextId + 1
    /\ UNCHANGED <<lock, files, delete, faults>>

\* The unique index refuses the INSERT.  Nobody removes the file.
RefuseRow(u) ==
    /\ upload[u].stage = "save"
    /\ \E id \in WithVersion(upload[u].version) : lock[id] = None
    /\ upload' = [upload EXCEPT ![u].stage = "refused"]
    /\ UNCHANGED <<rows, nextId, lock, files, delete, faults>>

\* A failed write may leave a part of the file, which nobody removes.
UploadFails(u) ==
    /\ upload[u].stage \in {"upload", "save"}
    /\ faults < MaxFaults
    /\ faults' = faults + 1
    /\ \E kept \in IF upload[u].stage = "save" THEN {TRUE} ELSE BOOLEAN :
         /\ upload' = [upload EXCEPT ![u].stage = IF kept THEN "leaked" ELSE "failed"]
         /\ files' = IF kept THEN files \cup {u} ELSE files
    /\ UNCHANGED <<rows, nextId, lock, delete>>

-----------------------------------------------------------------------------
(* delete                                                                  *)

ReceiveDelete(d, id) ==
    /\ delete[d].stage = "new"
    /\ delete' = [delete EXCEPT ![d] = [@ EXCEPT !.stage = "find", !.id = id]]
    /\ UNCHANGED <<rows, nextId, lock, files, upload, faults>>

\* A read without a lock: it sees the row until another DELETE has committed.
FindRow(d) ==
    /\ delete[d].stage = "find"
    /\ delete' = [delete EXCEPT ![d] =
                    IF rows[delete[d].id] = None
                    THEN [@ EXCEPT !.stage = "notfound"]
                    ELSE [@ EXCEPT !.stage = "erase", !.file = rows[delete[d].id].file]]
    /\ UNCHANGED <<rows, nextId, lock, files, upload, faults>>

\* DELETE waits for the lock.  A row that is gone by then affects nothing.
EraseRow(d) ==
    /\ delete[d].stage = "erase"
    /\ lock[delete[d].id] = None
    /\ delete' = [delete EXCEPT ![d].stage = "unlink"]
    /\ lock' = IF rows[delete[d].id] = None THEN lock
               ELSE [lock EXCEPT ![delete[d].id] = d]
    /\ UNCHANGED <<rows, nextId, files, upload, faults>>

\* Mutant: the file is left where it is.
UnlinkFileNot(d) ==
    /\ delete[d].stage = "unlink"
    /\ delete' = [delete EXCEPT ![d].stage = "commit"]
    /\ UNCHANGED <<rows, nextId, lock, files, upload, faults>>

\* The storage ignores a file that is already gone.
UnlinkFile(d) ==
    /\ delete[d].stage = "unlink"
    /\ delete' = [delete EXCEPT ![d].stage = "commit"]
    /\ files' = files \ {delete[d].file}
    /\ UNCHANGED <<rows, nextId, lock, upload, faults>>

Locked(d) == {id \in RowIds : lock[id] = d}
Unlocked(d) == [id \in RowIds |-> IF lock[id] = d THEN None ELSE lock[id]]

\* Mutant: the lock outlives its transaction.
CommitKeepsLock(d) ==
    /\ delete[d].stage = "commit"
    /\ delete' = [delete EXCEPT ![d].stage = "done"]
    /\ rows' = [id \in RowIds |-> IF id \in Locked(d) THEN None ELSE rows[id]]
    /\ UNCHANGED <<nextId, lock, files, upload, faults>>

Commit(d) ==
    /\ delete[d].stage = "commit"
    /\ delete' = [delete EXCEPT ![d].stage = "done"]
    /\ rows' = [id \in RowIds |-> IF id \in Locked(d) THEN None ELSE rows[id]]
    /\ lock' = Unlocked(d)
    /\ UNCHANGED <<nextId, files, upload, faults>>

\* A command fails, or the wait for the lock exceeds its timeout: rollback.
DeleteFails(d) ==
    /\ delete[d].stage \in {"find", "erase", "unlink", "commit"}
    /\ faults < MaxFaults
    /\ faults' = faults + 1
    /\ delete' = [delete EXCEPT ![d].stage =
                    IF @ = "commit" THEN "broken" ELSE "failed"]
    /\ lock' = Unlocked(d)
    /\ UNCHANGED <<rows, nextId, files, upload>>

-----------------------------------------------------------------------------
\* The process dies, with the files of the uploads S partly written; MySQL
\* rolls its open transactions back.
Crash(S) ==
    /\ faults < MaxFaults
    /\ \A u \in S : upload[u].stage = "upload"
    /\ faults' = faults + 1
    /\ files' = files \cup S
    /\ upload' = [u \in Uploads |->
         CASE upload[u].stage = "save" \/ u \in S -> [upload[u] EXCEPT !.stage = "leaked"]
           [] upload[u].stage = "upload" /\ u \notin S -> [upload[u] EXCEPT !.stage = "failed"]
           [] OTHER -> upload[u]]
    /\ delete' = [d \in Deletes |->
         CASE delete[d].stage = "commit" -> [delete[d] EXCEPT !.stage = "broken"]
           [] delete[d].stage \in {"find", "erase", "unlink"}
                -> [delete[d] EXCEPT !.stage = "failed"]
           [] OTHER -> delete[d]]
    /\ lock' = [id \in RowIds |-> None]
    /\ UNCHANGED <<rows, nextId>>

UploadBusy(u) == upload[u].stage \in {"upload", "save"}
DeleteBusy(d) == delete[d].stage \in {"find", "erase", "unlink", "commit"}

\* No call is under way: the model may rest.
Quiet ==
    /\ \A u \in Uploads : ~UploadBusy(u)
    /\ \A d \in Deletes : ~DeleteBusy(d)
    /\ UNCHANGED vars

UploadStep(u) == StoreFile(u) \/ InsertRow(u) \/ RefuseRow(u)
DeleteStep(d) == FindRow(d) \/ EraseRow(d) \/ UnlinkFile(d) \/ Commit(d)

Next ==
    \/ \E u \in Uploads, version \in Versions : ReceiveUpload(u, version)
    \/ \E u \in Uploads : UploadStep(u) \/ UploadFails(u)
    \/ \E d \in Deletes, id \in RowIds : ReceiveDelete(d, id)
    \/ \E d \in Deletes : DeleteStep(d) \/ DeleteFails(d)
    \/ \E S \in SUBSET Uploads : Crash(S)
    \/ Quiet

(***************************************************************************)
(* MySQL and the storage answer every command they can execute; nothing    *)
(* makes a call arrive.  Strong fairness stands for the queue in which     *)
(* MySQL grants a lock.                                                    *)
(***************************************************************************)
Fairness ==
    /\ \A u \in Uploads : SF_vars(UploadStep(u))
    /\ \A d \in Deletes : SF_vars(DeleteStep(d))

Spec == Init /\ [][Next]_vars /\ Fairness

-----------------------------------------------------------------------------
(***************************************************************************)
(* Type invariant.                                                         *)
(***************************************************************************)
TypeOK ==
    /\ rows   \in [RowIds -> Row \cup {None}]
    /\ nextId \in 1..(MaxRows + 1)
    /\ lock   \in [RowIds -> Deletes \cup {None}]
    /\ files  \subseteq Uploads
    /\ upload \in [Uploads -> UploadCall]
    /\ delete \in [Deletes -> DeleteCall]
    /\ faults \in 0..MaxFaults

(***************************************************************************)
(* A row that can be read has its file, except while a DELETE of it is     *)
(* about to commit or was rolled back at that point: the transaction does  *)
(* not cover the storage.                                                  *)
(***************************************************************************)
RowsHaveFiles ==
    \A id \in RowIds : rows[id] # None =>
        \/ rows[id].file \in files
        \/ \E d \in Deletes : delete[d].id = id /\ delete[d].stage \in {"commit", "broken"}

(***************************************************************************)
(* What the comments of delete say (ota.service.ts:50 and :53): it is      *)
(* atomic.  A row then lacks its file at most while a DELETE is at work.   *)
(* It lacks it for good when the transaction is rolled back after the file *)
(* is gone.                                                                *)
(***************************************************************************)
DeleteIsAtomic ==
    \A id \in RowIds : rows[id] # None /\ rows[id].file \notin files =>
        \E d \in Deletes : DeleteBusy(d) /\ delete[d].id = id

(***************************************************************************)
(* A file belongs to a row, except between an upload and its INSERT, or    *)
(* after an INSERT that was refused or broken off: DELETE leaves none.     *)
(***************************************************************************)
FilesHaveRows ==
    \A u \in files :
        \/ \E id \in RowIds : rows[id] # None /\ rows[id].file = u
        \/ upload[u].stage \in {"save", "refused", "leaked"}

(***************************************************************************)
(* Every DELETE comes to an end, also one that waits for the lock of       *)
(* another one on the same row.                                            *)
(***************************************************************************)
DeletesEnd == \A d \in Deletes : DeleteBusy(d) ~> ~DeleteBusy(d)

-----------------------------------------------------------------------------
\* The record of a row is there while the row can be read and has its file.
EntryOf(id) ==
    CASE id >= nextId -> "unborn"
      [] rows[id] # None /\ rows[id].file \in files -> "here"
      [] OTHER -> "gone"

AnswerOf(d) ==
    CASE delete[d].stage = "new"      -> "unasked"
      [] delete[d].stage = "done"     -> "deleted"
      [] delete[d].stage = "notfound" -> "missing"
      [] delete[d].stage \in {"failed", "broken"} -> "failed"
      [] OTHER -> "pending"

Catalog == INSTANCE RecordCatalog WITH
    entry <- [id \in RowIds |-> EntryOf(id)],
    call  <- [d \in Deletes |-> [id |-> delete[d].id, answer |-> AnswerOf(d)]]

(***************************************************************************)
(* To its callers the store is a catalogue whose records appear whole and  *)
(* disappear for good at the moment their file is removed.                 *)
(***************************************************************************)
ImplementsCatalog == Catalog!Spec

=============================================================================

--------------------------- MODULE OtaStoreProofs ---------------------------
(***************************************************************************)
(* Proofs about OtaStore for any number of versions, uploads and DELETEs:  *)
(* its type invariant, that rows and firmware files belong to each other   *)
(* up to the calls that stopped between the two, and that it implements    *)
(* RecordCatalog.                                                          *)
(***************************************************************************)
EXTENDS OtaStore, TLAPS

-----------------------------------------------------------------------------
(* The inductive invariant.                                                *)

\* Stages in which a DELETE knows the file of its row.
Claiming == {"erase", "unlink", "commit", "broken"}

\* Stages in which it has removed this file, and the row is to follow.
Gutted == {"commit", "broken"}

\* Stages in which an upload cannot have a row, and cannot have a file.
Rowless  == {"new", "upload", "save", "refused", "leaked", "failed"}
Fileless == {"new", "upload", "failed"}

\* A call knows what it is about once it has started.
CallsHaveSubjects ==
    /\ \A u \in Uploads : upload[u].stage # "new" => upload[u].version \in Versions
    /\ \A d \in Deletes : IF delete[d].stage = "new" THEN delete[d].id = 0
                                                     ELSE delete[d].id \in RowIds
    /\ \A d \in Deletes : delete[d].stage \in Claiming => delete[d].file \in Uploads

\* Ids at or above AUTO_INCREMENT are unused.
RowsBelowNext == \A id \in RowIds : id >= nextId => rows[id] = None

Shape == TypeOK /\ CallsHaveSubjects /\ RowsBelowNext

(***************************************************************************)
(* A transaction holds the lock of its row from its DELETE statement on,   *)
(* unless the row was gone by then, and no one else removes a locked row.  *)
(***************************************************************************)
LocksAreHeld ==
    /\ \A id \in RowIds : \A d \in Deletes : lock[id] = d =>
          delete[d].stage \in {"unlink", "commit"} /\ delete[d].id = id
    /\ \A d \in Deletes : delete[d].stage \in {"unlink", "commit"} =>
          \/ lock[delete[d].id] = d
          \/ rows[delete[d].id] = None

\* An upload stores its file right before its row, and never again.
FileBeforeRow ==
    /\ \A u \in Uploads : upload[u].stage = "save" => u \in files
    /\ \A u \in files : upload[u].stage \notin Fileless
    /\ \A id \in RowIds : rows[id] # None => upload[rows[id].file].stage \notin Rowless

\* The file of a row belongs to this row alone, and its DELETEs know it.
FilesArePrivate ==
    /\ \A i, j \in RowIds :
          rows[i] # None /\ rows[j] # None /\ rows[i].file = rows[j].file => i = j
    /\ \A d \in Deletes : delete[d].stage \in Claiming =>
          /\ delete[d].id < nextId
          /\ upload[delete[d].file].stage \notin Rowless
          /\ rows[delete[d].id] # None => rows[delete[d].id].file = delete[d].file
          /\ \A id \in RowIds : rows[id] # None /\ rows[id].file = delete[d].file =>
                id = delete[d].id

\* The file is gone once a DELETE has passed its storage step.
DeletedFilesAreGone ==
    \A d \in Deletes : delete[d].stage \in Gutted => delete[d].file \notin files

IInv ==
    /\ Shape
    /\ LocksAreHeld
    /\ FileBeforeRow
    /\ FilesArePrivate
    /\ DeletedFilesAreGone
    /\ RowsHaveFiles
    /\ FilesHaveRows

-----------------------------------------------------------------------------
(***************************************************************************)
(* Type correctness.                                                       *)
(***************************************************************************)
LEMMA ShapeInit == Init => Shape
<1> SUFFICES ASSUME Init PROVE Shape
  OBVIOUS
<1>1. 1 \in 1..(MaxRows + 1) /\ 0 \in 0..MaxFaults
  BY BoundAssumption
<1> QED
  BY <1>1 DEF Init, Shape, TypeOK, CallsHaveSubjects, RowsBelowNext, UploadCall, DeleteCall,
              UploadStages, DeleteStages, Claiming

\* The steps of uploads keep the types.
LEMMA UploadTypes ==
  ASSUME Shape, NEW u \in Uploads,
         \/ \E version \in Versions : ReceiveUpload(u, version)
         \/ UploadStep(u) \/ UploadFails(u)
  PROVE  Shape'
<1> USE DEF Shape, TypeOK, CallsHaveSubjects, RowsBelowNext
<1>1. ASSUME NEW version \in Versions, ReceiveUpload(u, version) PROVE Shape'
  BY <1>1 DEF ReceiveUpload, UploadCall, UploadStages
<1>2. CASE StoreFile(u)
  BY <1>2 DEF StoreFile, UploadCall, UploadStages
<1>3. CASE InsertRow(u)
  <2> DEFINE row == [version |-> upload[u].version, file |-> u]
  <2>1. row \in Row
    BY <1>3 DEF InsertRow, Row
  <2>2. /\ nextId \in RowIds /\ nextId' = nextId + 1
        /\ rows' = [rows EXCEPT ![nextId] = row]
    BY <1>3 DEF InsertRow
  <2> HIDE DEF row
  <2>3. /\ rows' \in [RowIds -> Row \cup {None}]
        /\ nextId' \in 1..(MaxRows + 1)
        /\ RowsBelowNext'
    BY <2>1, <2>2, BoundAssumption DEF RowIds
  <2> QED
    BY <1>3, <2>3 DEF InsertRow, UploadCall, UploadStages
<1>4. CASE RefuseRow(u)
  BY <1>4 DEF RefuseRow, UploadCall, UploadStages
<1>5. CASE UploadFails(u)
  <2>1. /\ upload' \in [Uploads -> UploadCall]
        /\ files' \subseteq Uploads
        /\ \A v \in Uploads : /\ upload'[v].version = upload[v].version
                              /\ upload'[v].stage # "new" => upload[v].stage # "new"
    BY <1>5 DEF UploadFails, UploadCall, UploadStages
  <2> QED
    BY <1>5, <2>1, BoundAssumption DEF UploadFails
<1> QED
  BY <1>1, <1>2, <1>3, <1>4, <1>5 DEF UploadStep

\* So do those of DELETEs.
LEMMA DeleteTypes ==
  ASSUME Shape, NEW d \in Deletes,
         \/ \E id \in RowIds : ReceiveDelete(d, id)
         \/ DeleteStep(d) \/ DeleteFails(d)
  PROVE  Shape'
<1> USE DEF Shape, TypeOK, CallsHaveSubjects, RowsBelowNext
<1>1. ASSUME NEW id \in RowIds, ReceiveDelete(d, id) PROVE Shape'
  BY <1>1 DEF ReceiveDelete, DeleteCall, DeleteStages, Claiming
<1>2. CASE FindRow(d)
  <2>1. rows[delete[d].id] # None => rows[delete[d].id].file \in Uploads
    BY <1>2 DEF FindRow, Row
  <2> QED
    BY <1>2, <2>1 DEF FindRow, DeleteCall, DeleteStages, Claiming
<1>3. CASE EraseRow(d)
  <2>1. lock' \in [RowIds -> Deletes \cup {None}]
    BY <1>3 DEF EraseRow
  <2> QED
    BY <1>3, <2>1 DEF EraseRow, DeleteCall, DeleteStages, Claiming
<1>4. CASE UnlinkFile(d)
  BY <1>4 DEF UnlinkFile, DeleteCall, DeleteStages, Claiming
<1>5. CASE Commit(d)
  BY <1>5 DEF Commit, Locked, Unlocked, DeleteCall, DeleteStages, Claiming
<1>6. CASE DeleteFails(d)
  <2>1. lock' \in [RowIds -> Deletes \cup {None}]
    BY <1>6 DEF DeleteFails, Unlocked
  <2>2. /\ delete' \in [Deletes -> DeleteCall]
        /\ CallsHaveSubjects'
    BY <1>6 DEF DeleteFails, DeleteCall, DeleteStages, Claiming
  <2> QED
    BY <1>6, <2>1, <2>2, BoundAssumption DEF DeleteFails
<1> QED
  BY <1>1, <1>2, <1>3, <1>4, <1>5, <1>6 DEF DeleteStep

LEMMA CrashTypes ==
  ASSUME Shape, NEW S \in SUBSET Uploads, Crash(S)
  PROVE  Shape'
<1> USE DEF Shape, TypeOK, CallsHaveSubjects, RowsBelowNext
<1>1. /\ upload' \in [Uploads -> UploadCall]
      /\ \A u \in Uploads : /\ upload'[u].version = upload[u].version
                            /\ upload'[u].stage # "new" => upload[u].stage # "new"
  BY DEF Crash, UploadCall, UploadStages
<1>2. /\ delete' \in [Deletes -> DeleteCall]
      /\ \A d \in Deletes : /\ delete'[d].id = delete[d].id /\ delete'[d].file = delete[d].file
                            /\ delete'[d].stage = "new" <=> delete[d].stage = "new"
                            /\ delete'[d].stage \in Claiming => delete[d].stage \in Claiming
  BY DEF Crash, DeleteCall, DeleteStages, Claiming
<1> QED
  BY <1>1, <1>2, BoundAssumption DEF Crash

LEMMA ShapeStep == Shape /\ [Next]_vars => Shape'
<1> SUFFICES ASSUME Shape, [Next]_vars PROVE Shape'
  OBVIOUS
<1>1. CASE UNCHANGED vars
  BY <1>1 DEF vars, Shape, TypeOK, CallsHaveSubjects, RowsBelowNext
<1> QED
  BY <1>1, UploadTypes, DeleteTypes, CrashTypes DEF Next, Quiet

(***************************************************************************)
(* Every reachable state of the firmware store is type correct.            *)
(***************************************************************************)
THEOREM TypeCorrect == Spec => []TypeOK
<1>1. Shape => TypeOK
  BY DEF Shape
<1> QED
  BY <1>1, ShapeInit, ShapeStep, PTL DEF Spec

-----------------------------------------------------------------------------
(***************************************************************************)
(* Locks.                                                                  *)
(***************************************************************************)

\* The locks that remain when a transaction has ended.
LEMMA UnlockedLocks ==
  ASSUME NEW d \in Deletes, NEW id \in RowIds
  PROVE  /\ Unlocked(d)[id] # d
         /\ lock[id] # d => Unlocked(d)[id] = lock[id]
         /\ lock[id] = d => Unlocked(d)[id] = None
  BY NoneAssumption DEF Unlocked

LEMMA LockStep == IInv /\ [Next]_vars => LocksAreHeld'
<1> SUFFICES ASSUME IInv, [Next]_vars PROVE LocksAreHeld'
  OBVIOUS
<1> USE NoneAssumption DEF IInv, Shape, TypeOK, DeleteCall
<1>1. ASSUME UNCHANGED <<lock, delete>>,
             \A id \in RowIds : rows[id] = None /\ id < nextId => rows'[id] = None,
             \A d \in Deletes : delete[d].stage \in {"unlink", "commit"} =>
                                   delete[d].id < nextId /\ delete[d].id \in RowIds
      PROVE  LocksAreHeld'
  BY <1>1 DEF LocksAreHeld
<1>2. \A d \in Deletes : delete[d].stage \in {"unlink", "commit"} =>
         delete[d].id < nextId /\ delete[d].id \in RowIds
  BY DEF FilesArePrivate, Claiming, CallsHaveSubjects
<1>3. ASSUME NEW u \in Uploads,
             \/ \E version \in Versions : ReceiveUpload(u, version)
             \/ UploadStep(u) \/ UploadFails(u)
      PROVE  LocksAreHeld'
  <2>1. UNCHANGED <<lock, delete>>
    BY <1>3 DEF ReceiveUpload, UploadStep, StoreFile, InsertRow, RefuseRow, UploadFails
  <2>2. \A id \in RowIds : id # nextId => rows'[id] = rows[id]
    BY <1>3 DEF ReceiveUpload, UploadStep, StoreFile, InsertRow, RefuseRow, UploadFails
  <2>3. nextId \notin {id \in RowIds : id < nextId}
    BY DEF RowIds
  <2> QED
    BY <1>1, <1>2, <2>1, <2>2, <2>3
<1>4. ASSUME NEW d \in Deletes,
             \/ \E id \in RowIds : ReceiveDelete(d, id)
             \/ FindRow(d) \/ UnlinkFile(d)
      PROVE  LocksAreHeld'
  <2>1. /\ UNCHANGED <<lock, rows>>
        /\ \A e \in Deletes \ {d} : delete'[e] = delete[e]
        /\ delete'[d].stage \in {"unlink", "commit"} => delete[d].stage = "unlink"
        /\ delete[d].stage \in {"unlink", "commit"} =>
              delete'[d].stage = "commit" /\ delete'[d].id = delete[d].id
    <3>1. CASE \E id \in RowIds : ReceiveDelete(d, id)
      BY <3>1 DEF ReceiveDelete
    <3>2. CASE FindRow(d)
      BY <3>2 DEF FindRow
    <3>3. CASE UnlinkFile(d)
      BY <3>3 DEF UnlinkFile
    <3> QED
      BY <1>4, <3>1, <3>2, <3>3
  <2> QED
    BY <2>1 DEF LocksAreHeld
<1>5. ASSUME NEW d \in Deletes, EraseRow(d) PROVE LocksAreHeld'
  <2>1. PICK i \in RowIds : i = delete[d].id
    BY <1>5 DEF EraseRow, CallsHaveSubjects
  <2>2. /\ rows' = rows
        /\ \A e \in Deletes \ {d} : delete'[e] = delete[e]
        /\ delete[d].stage = "erase"
        /\ delete'[d].stage = "unlink" /\ delete'[d].id = i
        /\ lock[i] = None
        /\ \A id \in RowIds \ {i} : lock'[id] = lock[id]
        /\ lock'[i] = IF rows[i] = None THEN None ELSE d
    BY <1>5, <2>1 DEF EraseRow
  <2>3. ASSUME NEW id \in RowIds, NEW e \in Deletes, lock'[id] = e
        PROVE  delete'[e].stage \in {"unlink", "commit"} /\ delete'[e].id = id
    BY <2>2, <2>3 DEF LocksAreHeld
  <2>4. ASSUME NEW e \in Deletes, delete'[e].stage \in {"unlink", "commit"}
        PROVE  lock'[delete'[e].id] = e \/ rows'[delete'[e].id] = None
    <3>1. CASE e = d
      BY <2>2, <3>1
    <3>2. CASE e # d
      <4>1. lock[delete[e].id] = e \/ rows[delete[e].id] = None
        BY <2>2, <2>4, <3>2 DEF LocksAreHeld
      <4> QED
        BY <1>2, <2>2, <2>4, <3>2, <4>1
    <3> QED
      BY <3>1, <3>2
  <2> QED
    BY <2>3, <2>4 DEF LocksAreHeld
<1>6. ASSUME NEW d \in Deletes, Commit(d) PROVE LocksAreHeld'
  <2>1. /\ \A e \in Deletes \ {d} : delete'[e] = delete[e]
        /\ delete'[d].stage = "done"
        /\ \A id \in RowIds : rows[id] = None => rows'[id] = None
        /\ lock' = Unlocked(d)
    BY <1>6 DEF Commit
  <2> QED
    BY <1>2, <2>1, UnlockedLocks DEF LocksAreHeld
<1>7. ASSUME NEW d \in Deletes, DeleteFails(d) PROVE LocksAreHeld'
  <2>1. /\ \A e \in Deletes \ {d} : delete'[e] = delete[e]
        /\ delete'[d].stage \notin {"unlink", "commit"}
        /\ rows' = rows /\ lock' = Unlocked(d)
    BY <1>7 DEF DeleteFails
  <2> QED
    BY <1>2, <2>1, UnlockedLocks DEF LocksAreHeld
<1>8. ASSUME NEW S \in SUBSET Uploads, Crash(S) PROVE LocksAreHeld'
  BY <1>8 DEF Crash, LocksAreHeld
<1>9. CASE UNCHANGED vars
  BY <1>1, <1>2, <1>9 DEF vars
<1> QED
  BY <1>3, <1>4, <1>5, <1>6, <1>7, <1>8, <1>9 DEF Next, Quiet, DeleteStep

-----------------------------------------------------------------------------
(***************************************************************************)
(* Rows and files.                                                         *)
(***************************************************************************)
FileInv ==
    /\ FileBeforeRow
    /\ FilesArePrivate
    /\ DeletedFilesAreGone
    /\ RowsHaveFiles
    /\ FilesHaveRows

\* The subjects of what the parts of FileInv say are there.
LEMMA FileSubjects ==
  ASSUME Shape
  PROVE  /\ \A id \in RowIds : rows[id] # None => rows[id].file \in Uploads
         /\ \A d \in Deletes : delete[d].stage \in Claiming =>
               delete[d].id \in RowIds /\ delete[d].file \in Uploads
         /\ nextId \in Nat /\ RowIds \subseteq Nat
  BY DEF Shape, TypeOK, CallsHaveSubjects, Claiming, Row, RowIds

(***************************************************************************)
(* A step that adds at most the files of the uploads S, which it leaves    *)
(* with one, and no row, and takes no DELETE past its storage step.        *)
(***************************************************************************)
OnlyAdds(S) ==
    /\ UNCHANGED <<rows, nextId>>
    /\ files' = files \cup S
    /\ \A u \in S : /\ upload[u].stage \in Rowless
                    /\ upload'[u].stage \in {"save", "leaked"}
    /\ \A u \in Uploads :
          /\ upload'[u].stage \in Rowless <=> upload[u].stage \in Rowless
          /\ upload'[u].stage \in Fileless => upload[u].stage \in Fileless
          /\ upload'[u].stage = "save" => upload[u].stage = "save" \/ u \in S
          /\ upload[u].stage \in {"save", "refused", "leaked"} =>
                upload'[u].stage \in {"save", "refused", "leaked"}
    /\ \A d \in Deletes :
          /\ delete'[d].stage \in Claiming => /\ delete[d].stage \in Claiming
                                              /\ delete'[d].id = delete[d].id
                                              /\ delete'[d].file = delete[d].file
          /\ delete'[d].stage \in Gutted <=> delete[d].stage \in Gutted

\* Such a step endangers nothing.
LEMMA FilesGrow ==
  ASSUME Shape, FileInv, NEW S \in SUBSET Uploads, OnlyAdds(S)
  PROVE  FileInv'
<1> USE FileSubjects DEF FileInv, OnlyAdds
<1>1. FileBeforeRow'
  <2>1. \A u \in Uploads : upload'[u].stage = "save" => u \in files'
    BY DEF FileBeforeRow
  <2>2. \A u \in files' : upload'[u].stage \notin Fileless
    BY DEF FileBeforeRow, Fileless, Shape, TypeOK
  <2>3. \A id \in RowIds : rows'[id] # None => upload'[rows'[id].file].stage \notin Rowless
    BY DEF FileBeforeRow
  <2> QED
    BY <2>1, <2>2, <2>3 DEF FileBeforeRow
<1>2. FilesArePrivate'
  BY DEF FilesArePrivate
<1>3. DeletedFilesAreGone'
  <2> SUFFICES ASSUME NEW d \in Deletes, delete'[d].stage \in Gutted
               PROVE  delete'[d].file \notin files'
    BY DEF DeletedFilesAreGone
  <2>1. delete[d].stage \in Gutted /\ delete[d].stage \in Claiming
    BY DEF Gutted, Claiming
  <2>2. delete'[d].stage \in Claiming
    BY DEF Gutted, Claiming
  <2>3. delete'[d].file = delete[d].file /\ delete[d].file \in Uploads
    BY <2>1, <2>2
  <2>4. delete[d].file \notin files /\ upload[delete[d].file].stage \notin Rowless
    BY <2>1 DEF DeletedFilesAreGone, FilesArePrivate
  <2> QED
    BY <2>3, <2>4
<1>4. RowsHaveFiles'
  <2> SUFFICES ASSUME NEW id \in RowIds, rows[id] # None, rows[id].file \notin files
               PROVE  \E d \in Deletes : delete'[d].id = id /\ delete'[d].stage \in Gutted
    BY DEF RowsHaveFiles, Gutted
  <2>1. PICK d \in Deletes : delete[d].id = id /\ delete[d].stage \in Gutted
    BY DEF RowsHaveFiles, Gutted
  <2>2. delete'[d].stage \in Gutted /\ delete'[d].id = id
    BY <2>1 DEF Gutted, Claiming
  <2> QED
    BY <2>2
<1>5. FilesHaveRows'
  BY DEF FilesHaveRows, Shape, TypeOK
<1> QED
  BY <1>1, <1>2, <1>3, <1>4, <1>5

LEMMA UploadFiles ==
  ASSUME Shape, FileInv, NEW u \in Uploads,
         \/ \E version \in Versions : ReceiveUpload(u, version)
         \/ UploadStep(u) \/ UploadFails(u)
  PROVE  FileInv'
<1> USE DEF Shape, TypeOK, UploadCall
<1>1. ASSUME NEW version \in Versions, ReceiveUpload(u, version) PROVE FileInv'
  <2>1. UNCHANGED <<rows, nextId, delete>> /\ files' = files \cup {}
    BY <1>1 DEF ReceiveUpload
  <2>2. /\ \A v \in Uploads \ {u} : upload'[v] = upload[v]
        /\ upload[u].stage = "new" /\ upload'[u].stage = "upload"
    BY <1>1 DEF ReceiveUpload
  <2>3. OnlyAdds({})
    BY <2>1, <2>2 DEF OnlyAdds, Rowless, Fileless
  <2> QED
    BY <2>3, FilesGrow
<1>2. CASE StoreFile(u)
  <2>1. UNCHANGED <<rows, nextId, delete>> /\ files' = files \cup {u}
    BY <1>2 DEF StoreFile
  <2>2. /\ \A v \in Uploads \ {u} : upload'[v] = upload[v]
        /\ upload[u].stage = "upload" /\ upload'[u].stage = "save"
    BY <1>2 DEF StoreFile
  <2>3. OnlyAdds({u})
    BY <2>1, <2>2 DEF OnlyAdds, Rowless, Fileless
  <2> QED
    BY <2>3, FilesGrow
<1>3. CASE InsertRow(u)
  <2>1. /\ UNCHANGED <<files, delete>>
        /\ nextId \in RowIds /\ nextId' = nextId + 1
        /\ \A id \in RowIds \ {nextId} : rows'[id] = rows[id]
        /\ rows'[nextId].file = u
        /\ rows[nextId] = None
    BY <1>3 DEF InsertRow, RowsBelowNext, RowIds
  <2>n. rows'[nextId] # None
    <3>1. [version |-> upload[u].version, file |-> u] \in Row
      BY <1>3 DEF InsertRow, CallsHaveSubjects, Row
    <3> QED
      BY <1>3, <2>1, <3>1, NoneAssumption DEF InsertRow
  <2>2. /\ \A v \in Uploads \ {u} : upload'[v] = upload[v]
        /\ upload[u].stage = "save" /\ upload'[u].stage = "done"
    BY <1>3 DEF InsertRow
  <2>3. u \in files /\ \A id \in RowIds : rows[id] # None => rows[id].file # u
    BY <2>2, FileSubjects DEF FileInv, FileBeforeRow, Rowless
  <2>4. \A d \in Deletes : delete[d].stage \in Claiming =>
           delete[d].file # u /\ delete[d].id # nextId
    BY <2>2, FileSubjects DEF FileInv, FilesArePrivate, Rowless
  <2>5. FileBeforeRow'
    BY <2>1, <2>2, <2>3, FileSubjects DEF FileInv, FileBeforeRow, Rowless, Fileless
  <2>6. FilesArePrivate'
    <3>1. \A i, j \in RowIds :
             rows'[i] # None /\ rows'[j] # None /\ rows'[i].file = rows'[j].file => i = j
      BY <2>1, <2>3 DEF FileInv, FilesArePrivate
    <3>2. ASSUME NEW d \in Deletes, delete[d].stage \in Claiming
          PROVE  /\ delete[d].id < nextId'
                 /\ upload'[delete[d].file].stage \notin Rowless
                 /\ rows'[delete[d].id] # None => rows'[delete[d].id].file = delete[d].file
                 /\ \A id \in RowIds : rows'[id] # None /\ rows'[id].file = delete[d].file =>
                       id = delete[d].id
      BY <2>1, <2>2, <2>4, <3>2, FileSubjects DEF FileInv, FilesArePrivate
    <3> QED
      BY <2>1, <3>1, <3>2 DEF FilesArePrivate
  <2>7. DeletedFilesAreGone'
    BY <2>1 DEF FileInv, DeletedFilesAreGone
  <2>8. RowsHaveFiles'
    BY <2>1, <2>3 DEF FileInv, RowsHaveFiles
  <2>9. FilesHaveRows'
    BY <2>1, <2>2, <2>n DEF FileInv, FilesHaveRows
  <2> QED
    BY <2>5, <2>6, <2>7, <2>8, <2>9 DEF FileInv
<1>4. CASE RefuseRow(u)
  <2>1. UNCHANGED <<rows, nextId, delete>> /\ files' = files \cup {}
    BY <1>4 DEF RefuseRow
  <2>2. /\ \A v \in Uploads \ {u} : upload'[v] = upload[v]
        /\ upload[u].stage = "save" /\ upload'[u].stage = "refused"
    BY <1>4 DEF RefuseRow
  <2>3. OnlyAdds({})
    BY <2>1, <2>2 DEF OnlyAdds, Rowless, Fileless
  <2> QED
    BY <2>3, FilesGrow
<1>5. CASE UploadFails(u)
  <2>1. PICK kept \in BOOLEAN :
          /\ upload[u].stage = "save" => kept
          /\ upload' = [upload EXCEPT ![u].stage = IF kept THEN "leaked" ELSE "failed"]
          /\ files' = IF kept THEN files \cup {u} ELSE files
    BY <1>5 DEF UploadFails
  <2>2. UNCHANGED <<rows, nextId, delete>> /\ upload[u].stage \in {"upload", "save"}
    BY <1>5 DEF UploadFails
  <2>3. \A v \in Uploads \ {u} : upload'[v] = upload[v]
    BY <2>1
  <2>4. CASE kept
    <3>1. files' = files \cup {u} /\ upload'[u].stage = "leaked"
      BY <2>1, <2>4
    <3>2. OnlyAdds({u})
      BY <2>2, <2>3, <3>1 DEF OnlyAdds, Rowless, Fileless
    <3> QED
      BY <3>2, FilesGrow
  <2>5. CASE ~kept
    <3>1. files' = files \cup {} /\ upload'[u].stage = "failed" /\ upload[u].stage = "upload"
      BY <2>1, <2>2, <2>5
    <3>2. OnlyAdds({})
      BY <2>2, <2>3, <3>1 DEF OnlyAdds, Rowless, Fileless
    <3> QED
      BY <3>2, FilesGrow
  <2> QED
    BY <2>4, <2>5
<1> QED
  BY <1>1, <1>2, <1>3, <1>4, <1>5 DEF UploadStep

LEMMA DeleteFiles ==
  ASSUME Shape, LocksAreHeld, FileInv, NEW d \in Deletes,
         \/ \E id \in RowIds : ReceiveDelete(d, id)
         \/ DeleteStep(d) \/ DeleteFails(d)
  PROVE  FileInv'
<1> USE DEF Shape, TypeOK, DeleteCall
<1>1. ASSUME NEW id \in RowIds, ReceiveDelete(d, id) PROVE FileInv'
  <2>1. UNCHANGED <<rows, nextId, upload>> /\ files' = files \cup {}
    BY <1>1 DEF ReceiveDelete
  <2>2. /\ \A e \in Deletes \ {d} : delete'[e] = delete[e]
        /\ delete[d].stage = "new" /\ delete'[d].stage = "find"
    BY <1>1 DEF ReceiveDelete
  <2>3. OnlyAdds({})
    BY <2>1, <2>2 DEF OnlyAdds, Claiming, Gutted
  <2> QED
    BY <2>3, FilesGrow
<1>2. CASE FindRow(d)
  <2>1. PICK i \in RowIds : i = delete[d].id
    BY <1>2 DEF FindRow, CallsHaveSubjects
  <2>2. CASE rows[i] = None
    <3>1. UNCHANGED <<rows, nextId, upload>> /\ files' = files \cup {}
      BY <1>2 DEF FindRow
    <3>2. /\ \A e \in Deletes \ {d} : delete'[e] = delete[e]
          /\ delete[d].stage = "find" /\ delete'[d].stage = "notfound"
      BY <1>2, <2>1, <2>2 DEF FindRow
    <3>3. OnlyAdds({})
      BY <3>1, <3>2 DEF OnlyAdds, Claiming, Gutted
    <3> QED
      BY <3>3, FilesGrow
  <2>3. CASE rows[i] # None
    <3>1. /\ UNCHANGED <<rows, nextId, upload, files>>
          /\ \A e \in Deletes \ {d} : delete'[e] = delete[e]
          /\ delete[d].stage = "find" /\ delete'[d].stage = "erase"
          /\ delete'[d].id = i /\ delete'[d].file = rows[i].file
      BY <1>2, <2>1, <2>3 DEF FindRow
    <3>2. i < nextId /\ upload[rows[i].file].stage \notin Rowless
      BY <2>3, FileSubjects DEF RowsBelowNext, FileInv, FileBeforeRow
    <3>3. FilesArePrivate'
      BY <2>3, <3>1, <3>2 DEF FileInv, FilesArePrivate
    <3>4. FileBeforeRow' /\ FilesHaveRows'
      BY <3>1 DEF FileInv, FileBeforeRow, FilesHaveRows
    <3>5. DeletedFilesAreGone'
      BY <3>1 DEF FileInv, DeletedFilesAreGone, Gutted
    <3>6. RowsHaveFiles'
      BY <3>1 DEF FileInv, RowsHaveFiles
    <3> QED
      BY <3>3, <3>4, <3>5, <3>6 DEF FileInv
  <2> QED
    BY <2>2, <2>3
<1>3. CASE EraseRow(d)
  <2>1. UNCHANGED <<rows, nextId, upload>> /\ files' = files \cup {}
    BY <1>3 DEF EraseRow
  <2>2. /\ \A e \in Deletes \ {d} : delete'[e] = delete[e]
        /\ delete[d].stage = "erase" /\ delete'[d].stage = "unlink"
        /\ delete'[d].id = delete[d].id /\ delete'[d].file = delete[d].file
    BY <1>3 DEF EraseRow
  <2>3. OnlyAdds({})
    BY <2>1, <2>2 DEF OnlyAdds, Claiming, Gutted
  <2> QED
    BY <2>3, FilesGrow
<1>4. CASE UnlinkFile(d)
  <2>1. PICK i \in RowIds, f \in Uploads : i = delete[d].id /\ f = delete[d].file
    BY <1>4 DEF UnlinkFile, CallsHaveSubjects, Claiming
  <2>2. /\ UNCHANGED <<rows, nextId, upload>> /\ files' = files \ {f}
        /\ \A e \in Deletes \ {d} : delete'[e] = delete[e]
        /\ delete[d].stage = "unlink" /\ delete'[d].stage = "commit"
        /\ delete'[d].id = i /\ delete'[d].file = f
    BY <1>4, <2>1 DEF UnlinkFile
  <2>3. /\ upload[f].stage \notin Rowless
        /\ \A id \in RowIds : rows[id] # None /\ rows[id].file = f => id = i
    BY <2>1, <2>2 DEF FileInv, FilesArePrivate, Claiming
  <2>4. FileBeforeRow'
    BY <2>2, <2>3 DEF FileInv, FileBeforeRow, Rowless
  <2>5. FilesArePrivate'
    BY <2>1, <2>2 DEF FileInv, FilesArePrivate, Claiming
  <2>6. DeletedFilesAreGone'
    BY <2>2 DEF FileInv, DeletedFilesAreGone, Gutted
  <2>7. RowsHaveFiles'
    BY <2>2, <2>3 DEF FileInv, RowsHaveFiles
  <2>8. FilesHaveRows'
    BY <2>2 DEF FileInv, FilesHaveRows
  <2> QED
    BY <2>4, <2>5, <2>6, <2>7, <2>8 DEF FileInv
<1>5. CASE Commit(d)
  <2>1. PICK i \in RowIds : i = delete[d].id
    BY <1>5 DEF Commit, CallsHaveSubjects
  <2>2. /\ UNCHANGED <<nextId, files, upload>>
        /\ \A e \in Deletes \ {d} : delete'[e] = delete[e]
        /\ delete[d].stage = "commit" /\ delete'[d].stage = "done"
        /\ \A id \in RowIds : rows'[id] = IF lock[id] = d THEN None ELSE rows[id]
    BY <1>5 DEF Commit, Locked
  <2>3. /\ \A id \in RowIds : lock[id] = d => id = i
        /\ lock[i] = d \/ rows[i] = None
    BY <2>1, <2>2 DEF LocksAreHeld
  <2>4. /\ rows'[i] = None
        /\ \A id \in RowIds \ {i} : rows'[id] = rows[id]
    BY <2>2, <2>3
  <2>5. delete[d].file \notin files /\ (rows[i] # None => rows[i].file = delete[d].file)
    BY <2>1, <2>2 DEF FileInv, DeletedFilesAreGone, Gutted, FilesArePrivate, Claiming
  <2>6. FileBeforeRow'
    BY <2>2, <2>4 DEF FileInv, FileBeforeRow
  <2>7. FilesArePrivate'
    <3>1. \A e \in Deletes : delete'[e].stage \in Claiming =>
             delete[e].stage \in Claiming /\ delete'[e] = delete[e]
      BY <2>2 DEF Claiming
    <3>2. \A id \in RowIds : rows'[id] # None => rows'[id] = rows[id]
      BY <2>4
    <3> QED
      BY <2>2, <3>1, <3>2, FileSubjects DEF FileInv, FilesArePrivate
  <2>8. DeletedFilesAreGone'
    BY <2>2 DEF FileInv, DeletedFilesAreGone, Gutted
  <2>9. RowsHaveFiles'
    BY <2>1, <2>2, <2>4 DEF FileInv, RowsHaveFiles
  <2>10. FilesHaveRows'
    BY <2>2, <2>4, <2>5 DEF FileInv, FilesHaveRows
  <2> QED
    BY <2>6, <2>7, <2>8, <2>9, <2>10 DEF FileInv
<1>6. CASE DeleteFails(d)
  <2>1. UNCHANGED <<rows, nextId, upload>> /\ files' = files \cup {}
    BY <1>6 DEF DeleteFails
  <2>2. /\ \A e \in Deletes \ {d} : delete'[e] = delete[e]
        /\ delete[d].stage = "commit" => delete'[d].stage = "broken"
        /\ delete[d].stage # "commit" => /\ delete[d].stage # "broken"
                                         /\ delete'[d].stage = "failed"
        /\ delete'[d].id = delete[d].id /\ delete'[d].file = delete[d].file
    BY <1>6 DEF DeleteFails
  <2>3. OnlyAdds({})
    BY <2>1, <2>2 DEF OnlyAdds, Claiming, Gutted
  <2> QED
    BY <2>3, FilesGrow
<1> QED
  BY <1>1, <1>2, <1>3, <1>4, <1>5, <1>6 DEF DeleteStep

LEMMA CrashFiles ==
  ASSUME Shape, FileInv, NEW S \in SUBSET Uploads, Crash(S)
  PROVE  FileInv'
<1> USE DEF Shape, TypeOK, DeleteCall, UploadCall
<1>1. /\ UNCHANGED <<rows, nextId>> /\ files' = files \cup S
      /\ \A u \in S : upload[u].stage = "upload" /\ upload'[u].stage = "leaked"
  BY DEF Crash
<1>2. \A u \in Uploads :
         \/ upload'[u].stage = "leaked" /\ upload[u].stage \in {"upload", "save"}
         \/ upload'[u].stage = "failed" /\ upload[u].stage = "upload"
         \/ upload'[u] = upload[u] /\ upload[u].stage # "save"
  BY DEF Crash
<1>3. \A d \in Deletes :
         \/ delete'[d].stage = "broken" /\ delete[d].stage = "commit"
               /\ delete'[d].id = delete[d].id /\ delete'[d].file = delete[d].file
         \/ delete'[d].stage = "failed" /\ delete[d].stage \notin Gutted
         \/ delete'[d] = delete[d]
  BY DEF Crash, Gutted
<1>4. OnlyAdds(S)
  BY <1>1, <1>2, <1>3 DEF OnlyAdds, Rowless, Fileless, Claiming, Gutted
<1> QED
  BY <1>4, FilesGrow

LEMMA FileStep == IInv /\ [Next]_vars => FileInv'
<1> SUFFICES ASSUME IInv, [Next]_vars PROVE FileInv'
  OBVIOUS
<1>1. Shape /\ LocksAreHeld /\ FileInv
  BY DEF IInv, FileInv
<1>2. CASE UNCHANGED vars
  BY <1>1, <1>2 DEF vars, FileInv, FileBeforeRow, FilesArePrivate, DeletedFilesAreGone,
                    RowsHaveFiles, FilesHaveRows
<1> QED
  BY <1>1, <1>2, UploadFiles, DeleteFiles, CrashFiles DEF Next, Quiet

-----------------------------------------------------------------------------
(***************************************************************************)
(* The theorems.                                                           *)
(***************************************************************************)
LEMMA IInvInit == Init => IInv
<1> SUFFICES ASSUME Init PROVE IInv
  OBVIOUS
<1>1. /\ \A id \in RowIds : rows[id] = None /\ lock[id] = None
      /\ files = {}
      /\ \A u \in Uploads : upload[u].stage = "new"
      /\ \A d \in Deletes : delete[d].stage = "new"
  BY DEF Init
<1>2. LocksAreHeld
  BY <1>1, NoneAssumption DEF LocksAreHeld
<1>3. FileBeforeRow /\ RowsHaveFiles /\ FilesHaveRows
  BY <1>1 DEF FileBeforeRow, RowsHaveFiles, FilesHaveRows
<1>4. FilesArePrivate /\ DeletedFilesAreGone
  BY <1>1 DEF FilesArePrivate, DeletedFilesAreGone, Claiming, Gutted
<1> QED
  BY <1>2, <1>3, <1>4, ShapeInit DEF IInv

LEMMA IInvStep == IInv /\ [Next]_vars => IInv'
<1> SUFFICES ASSUME IInv, [Next]_vars PROVE IInv'
  OBVIOUS
<1>1. Shape'
  BY ShapeStep DEF IInv
<1> QED
  BY <1>1, LockStep, FileStep DEF IInv, FileInv

\* IInv is an invariant of the firmware store.
LEMMA IInvAlways == Spec => []IInv
  BY IInvInit, IInvStep, PTL DEF Spec

(***************************************************************************)
(* A firmware that can be read can be downloaded, but for a DELETE that is *)
(* about to commit or was rolled back after it had removed the file.       *)
(***************************************************************************)
THEOREM RowsKeepTheirFiles == Spec => []RowsHaveFiles
<1>1. IInv => RowsHaveFiles
  BY DEF IInv
<1> QED
  BY <1>1, IInvAlways, PTL

(***************************************************************************)
(* No file is left behind, but by an upload that was refused or broke off. *)
(***************************************************************************)
THEOREM NoFileIsOrphaned == Spec => []FilesHaveRows
<1>1. IInv => FilesHaveRows
  BY DEF IInv
<1> QED
  BY <1>1, IInvAlways, PTL

\* No DELETE was broken off after it had removed its file.
NoneBroken == \A d \in Deletes : delete[d].stage # "broken"

LEMMA NoneBrokenStep ==
  ASSUME MaxFaults = 0
  PROVE  IInv /\ NoneBroken /\ [Next]_vars => NoneBroken'
<1> SUFFICES ASSUME IInv, NoneBroken, [Next]_vars PROVE NoneBroken'
  OBVIOUS
<1> USE DEF IInv, Shape, TypeOK, DeleteCall, NoneBroken
<1>1. ~(faults < MaxFaults)
  OBVIOUS
<1>2. ASSUME NEW d \in Deletes, NEW id \in RowIds, ReceiveDelete(d, id) PROVE NoneBroken'
  BY <1>2 DEF ReceiveDelete
<1>3. ASSUME NEW d \in Deletes, DeleteStep(d) PROVE NoneBroken'
  BY <1>3 DEF DeleteStep, FindRow, EraseRow, UnlinkFile, Commit
<1>4. CASE delete' = delete
  BY <1>4
<1> QED
  BY <1>1, <1>2, <1>3, <1>4
     DEF Next, UploadStep, ReceiveUpload, StoreFile, InsertRow, RefuseRow, UploadFails,
         DeleteFails, Crash, Quiet, vars

(***************************************************************************)
(* What the comments of delete say holds as long as no command fails and   *)
(* the process does not crash: several DELETEs of a row and uploads next   *)
(* to them do not by themselves leave a row without its file.              *)
(***************************************************************************)
THEOREM AtomicWithoutFaults == MaxFaults = 0 => (Spec => []DeleteIsAtomic)
<1> SUFFICES ASSUME MaxFaults = 0 PROVE Spec => []DeleteIsAtomic
  OBVIOUS
<1>1. Init => NoneBroken
  BY DEF Init, NoneBroken
<1>2. IInv /\ NoneBroken /\ [Next]_vars => NoneBroken'
  BY NoneBrokenStep
<1>3. IInv /\ NoneBroken => DeleteIsAtomic
  BY DEF IInv, NoneBroken, RowsHaveFiles, DeleteIsAtomic, DeleteBusy
<1> QED
  BY <1>1, <1>2, <1>3, IInvInit, IInvStep, PTL DEF Spec

-----------------------------------------------------------------------------
(***************************************************************************)
(* The refinement.                                                         *)
(***************************************************************************)

\* What the catalogue sees.
entryMap == [id \in RowIds |-> EntryOf(id)]
callMap  == [d \in Deletes |-> [id |-> delete[d].id, answer |-> AnswerOf(d)]]

\* A step of which the catalogue sees nothing.
Unseen == UNCHANGED <<entryMap, callMap>>

LEMMA EntryValues ==
  ASSUME Shape, Shape', NEW id \in RowIds
  PROVE  /\ EntryOf(id) = IF id >= nextId THEN "unborn"
                          ELSE IF rows[id] # None /\ rows[id].file \in files THEN "here" ELSE "gone"
         /\ EntryOf(id)' = IF id >= nextId' THEN "unborn"
                           ELSE IF rows'[id] # None /\ rows'[id].file \in files' THEN "here" ELSE "gone"
  BY DEF EntryOf, Shape, RowsBelowNext

LEMMA CatalogInit == Init => Catalog!Init
<1> SUFFICES ASSUME Init PROVE Catalog!Init
  OBVIOUS
<1>1. \A id \in RowIds : EntryOf(id) = "unborn"
  BY DEF Init, EntryOf, RowIds
<1>2. \A d \in Deletes : delete[d].id = 0 /\ AnswerOf(d) = "unasked"
  BY DEF Init, AnswerOf
<1> QED
  BY <1>1, <1>2 DEF Catalog!Init, Catalog!Unasked

\* Steps of uploads are seen when they insert a row.
LEMMA UploadRefines ==
  ASSUME IInv, NEW u \in Uploads,
         \/ \E version \in Versions : ReceiveUpload(u, version)
         \/ UploadStep(u) \/ UploadFails(u)
  PROVE  Unseen \/ Catalog!Next
<1> USE DEF IInv, Shape, TypeOK
<1>1. callMap' = callMap
  <2>1. delete' = delete
    BY DEF ReceiveUpload, UploadStep, StoreFile, InsertRow, RefuseRow, UploadFails
  <2> QED
    BY <2>1 DEF callMap, AnswerOf
<1>2. CASE InsertRow(u)
  <2>1. PICK n \in RowIds : n = nextId
    BY <1>2 DEF InsertRow
  <2>2. /\ files' = files /\ u \in files
        /\ nextId' = n + 1
        /\ \A id \in RowIds \ {n} : rows'[id] = rows[id]
        /\ rows'[n].file = u
    BY <1>2, <2>1 DEF InsertRow, FileBeforeRow
  <2>3. rows'[n] # None
    <3>1. [version |-> upload[u].version, file |-> u] \in Row
      BY <1>2 DEF InsertRow, CallsHaveSubjects, Row
    <3> QED
      BY <1>2, <2>1, <3>1, NoneAssumption DEF InsertRow
  <2>4. n \in Nat /\ RowIds \subseteq Nat /\ Shape'
    BY <2>1, FileSubjects, UploadTypes
  <2>5. EntryOf(n) = "unborn" /\ EntryOf(n)' = "here"
    BY <2>1, <2>2, <2>3, <2>4, EntryValues
  <2>6. ASSUME NEW id \in RowIds, id # n PROVE EntryOf(id)' = EntryOf(id)
    BY <2>1, <2>2, <2>4, <2>6, EntryValues
  <2>7. entryMap' = [entryMap EXCEPT ![n] = "here"]
    BY <2>5, <2>6 DEF entryMap
  <2>8. Catalog!Appear(n)
    BY <1>1, <2>5, <2>7 DEF Catalog!Appear, entryMap, callMap
  <2> QED
    BY <2>8 DEF Catalog!Next
<1>3. CASE ~InsertRow(u)
  <2>1. UNCHANGED <<rows, nextId>>
    BY <1>3 DEF ReceiveUpload, UploadStep, StoreFile, RefuseRow, UploadFails
  <2>2. \/ files' = files
        \/ files' = files \cup {u} /\ upload[u].stage \in Rowless
    BY <1>3 DEF ReceiveUpload, UploadStep, StoreFile, RefuseRow, UploadFails, Rowless
  <2>3. \A id \in RowIds : rows[id] # None =>
           (rows[id].file \in files' <=> rows[id].file \in files)
    BY <2>2 DEF FileBeforeRow
  <2>4. \A id \in RowIds : EntryOf(id)' = EntryOf(id)
    BY <2>1, <2>3 DEF EntryOf
  <2> QED
    BY <1>1, <2>4 DEF Unseen, entryMap
<1> QED
  BY <1>2, <1>3

\* The call of a DELETE as the catalogue sees it.
LEMMA CallMapStep ==
  ASSUME NEW d \in Deletes, \A e \in Deletes \ {d} : delete'[e] = delete[e]
  PROVE  callMap' = [callMap EXCEPT ![d] = [id |-> delete'[d].id, answer |-> AnswerOf(d)']]
  BY DEF callMap, AnswerOf

LEMMA CallMapStays ==
  ASSUME NEW d \in Deletes, \A e \in Deletes \ {d} : delete'[e] = delete[e],
         delete'[d].id = delete[d].id, AnswerOf(d)' = AnswerOf(d)
  PROVE  callMap' = callMap
  BY DEF callMap, AnswerOf

LEMMA CallMapAnswer ==
  ASSUME NEW d \in Deletes, NEW answer, \A e \in Deletes \ {d} : delete'[e] = delete[e],
         delete'[d].id = delete[d].id, AnswerOf(d)' = answer
  PROVE  callMap' = [callMap EXCEPT ![d].answer = answer]
  BY DEF callMap, AnswerOf

LEMMA CallMapAt ==
  ASSUME NEW d \in Deletes
  PROVE  callMap[d] = [id |-> delete[d].id, answer |-> AnswerOf(d)]
  BY DEF callMap

\* A DELETE that removes a file removes the one entry that has it, if any.
LEMMA UnlinkRefines ==
  ASSUME IInv, NEW d \in Deletes, UnlinkFile(d)
  PROVE  Unseen \/ Catalog!Next
<1> USE DEF IInv, Shape, TypeOK, DeleteCall
<1>1. PICK i \in RowIds, f \in Uploads : i = delete[d].id /\ f = delete[d].file
  BY DEF UnlinkFile, CallsHaveSubjects, Claiming
<1>2. /\ UNCHANGED <<rows, nextId>> /\ files' = files \ {f}
      /\ \A e \in Deletes \ {d} : delete'[e] = delete[e]
      /\ delete[d].stage = "unlink" /\ delete'[d].stage = "commit"
      /\ delete'[d].id = i
  BY <1>1 DEF UnlinkFile
<1>3. /\ \A id \in RowIds : rows[id] # None /\ rows[id].file = f => id = i
      /\ rows[i] # None => rows[i].file = f
      /\ i < nextId
  BY <1>1, <1>2 DEF FilesArePrivate, Claiming
<1>4. callMap[d] = [id |-> i, answer |-> "pending"] /\ callMap' = callMap
  <2>1. AnswerOf(d) = "pending" /\ AnswerOf(d)' = "pending"
    BY <1>2 DEF AnswerOf
  <2> QED
    BY <1>1, <1>2, <2>1, CallMapAt, CallMapStays
<1>5. Shape' /\ i \in Nat /\ nextId \in Nat
  BY FileSubjects, DeleteTypes DEF DeleteStep
<1>6. CASE rows[i] # None /\ f \in files
  <2>1. EntryOf(i) = "here" /\ EntryOf(i)' = "gone"
    BY <1>2, <1>3, <1>5, <1>6, EntryValues
  <2>2. \A id \in RowIds \ {i} : EntryOf(id)' = EntryOf(id)
    BY <1>2, <1>3, <1>5, EntryValues
  <2>3. entryMap' = [entryMap EXCEPT ![i] = "gone"]
    BY <2>1, <2>2 DEF entryMap
  <2>4. Catalog!Disappear(i)
    BY <1>4, <2>1, <2>3 DEF Catalog!Disappear, entryMap, callMap
  <2> QED
    BY <2>4 DEF Catalog!Next
<1>7. CASE ~(rows[i] # None /\ f \in files)
  <2>1. \A id \in RowIds : EntryOf(id)' = EntryOf(id)
    BY <1>2, <1>3, <1>5, <1>7, EntryValues
  <2> QED
    BY <1>4, <2>1 DEF Unseen, entryMap
<1> QED
  BY <1>6, <1>7

\* The commit is seen by the caller only: the entry is gone already.
LEMMA CommitRefines ==
  ASSUME IInv, NEW d \in Deletes, Commit(d)
  PROVE  Catalog!Next
<1> USE DEF IInv, Shape, TypeOK, DeleteCall
<1>1. PICK i \in RowIds : i = delete[d].id
  BY DEF Commit, CallsHaveSubjects
<1>2. /\ UNCHANGED <<nextId, files>>
      /\ \A e \in Deletes \ {d} : delete'[e] = delete[e]
      /\ delete[d].stage = "commit" /\ delete'[d].stage = "done"
      /\ delete'[d].id = i
      /\ \A id \in RowIds : rows'[id] = IF lock[id] = d THEN None ELSE rows[id]
  BY <1>1 DEF Commit, Locked
<1>3. /\ \A id \in RowIds \ {i} : rows'[id] = rows[id]
      /\ rows'[i] = None
      /\ rows[i] # None => rows[i].file \notin files
      /\ i < nextId
  BY <1>1, <1>2 DEF LocksAreHeld, FilesArePrivate, DeletedFilesAreGone, Claiming, Gutted
<1>4. Shape' /\ i \in Nat /\ nextId \in Nat
  BY FileSubjects, DeleteTypes DEF DeleteStep
<1>5. EntryOf(i) = "gone" /\ \A id \in RowIds : EntryOf(id)' = EntryOf(id)
  BY <1>2, <1>3, <1>4, EntryValues
<1>6. AnswerOf(d) = "pending" /\ AnswerOf(d)' = "deleted"
  BY <1>2 DEF AnswerOf
<1>7. /\ callMap[d] = [id |-> i, answer |-> "pending"]
      /\ callMap' = [callMap EXCEPT ![d].answer = "deleted"]
  BY <1>1, <1>2, <1>6, CallMapAt, CallMapAnswer
<1>8. entryMap' = entryMap /\ entryMap[callMap[d].id] = "gone" /\ callMap[d].answer = "pending"
  BY <1>5, <1>7 DEF entryMap
<1>9. Catalog!AnswerDeleted(d)
  BY <1>7, <1>8 DEF Catalog!AnswerDeleted, entryMap, callMap
<1> QED
  BY <1>9 DEF Catalog!Next

\* The other steps of a DELETE leave every entry as it is.
LEMMA DeleteRefines ==
  ASSUME IInv, NEW d \in Deletes,
         \/ \E id \in RowIds : ReceiveDelete(d, id)
         \/ DeleteStep(d) \/ DeleteFails(d)
  PROVE  Unseen \/ Catalog!Next
<1> USE DEF IInv, Shape, TypeOK, DeleteCall
<1>1. ASSUME UNCHANGED <<rows, nextId, files>> PROVE entryMap' = entryMap
  BY <1>1 DEF entryMap, EntryOf
<1>2. ASSUME NEW id \in RowIds, ReceiveDelete(d, id) PROVE Catalog!Next
  <2>1. /\ UNCHANGED <<rows, nextId, files>>
        /\ \A e \in Deletes \ {d} : delete'[e] = delete[e]
        /\ delete[d].stage = "new" /\ delete'[d].stage = "find"
        /\ delete[d].id = 0 /\ delete'[d].id = id
    BY <1>2 DEF ReceiveDelete, CallsHaveSubjects
  <2>2. AnswerOf(d) = "unasked" /\ AnswerOf(d)' = "pending"
    BY <2>1 DEF AnswerOf
  <2>3. /\ callMap[d] = [id |-> 0, answer |-> "unasked"]
        /\ callMap' = [callMap EXCEPT ![d] = [id |-> id, answer |-> "pending"]]
    BY <2>1, <2>2, CallMapStep DEF callMap
  <2>4. Catalog!Ask(d, id)
    BY <1>1, <2>1, <2>3 DEF Catalog!Ask, Catalog!Unasked, entryMap, callMap
  <2> QED
    BY <2>4 DEF Catalog!Next
<1>3. CASE FindRow(d)
  <2>1. PICK i \in RowIds : i = delete[d].id
    BY <1>3 DEF FindRow, CallsHaveSubjects
  <2>2. /\ UNCHANGED <<rows, nextId, files>>
        /\ \A e \in Deletes \ {d} : delete'[e] = delete[e]
        /\ delete[d].stage = "find" /\ delete'[d].id = i
        /\ delete'[d].stage = IF rows[i] = None THEN "notfound" ELSE "erase"
    BY <1>3, <2>1 DEF FindRow
  <2>3. AnswerOf(d) = "pending"
    BY <2>2 DEF AnswerOf
  <2>4. AnswerOf(d)' = IF rows[i] = None THEN "missing" ELSE "pending"
    BY <2>2 DEF AnswerOf
  <2>5. CASE rows[i] = None
    <3>1. EntryOf(i) # "here"
      BY <2>5 DEF EntryOf, RowsBelowNext
    <3>2. callMap[d] = [id |-> i, answer |-> "pending"]
      BY <2>1, <2>3, CallMapAt
    <3>3. callMap' = [callMap EXCEPT ![d].answer = "missing"]
      BY <2>1, <2>2, <2>4, <2>5, CallMapAnswer
    <3>4. entryMap[callMap[d].id] # "here" /\ callMap[d].answer = "pending"
      BY <3>1, <3>2 DEF entryMap
    <3>5. Catalog!AnswerMissing(d)
      BY <1>1, <2>2, <3>3, <3>4 DEF Catalog!AnswerMissing, entryMap, callMap
    <3> QED
      BY <3>5 DEF Catalog!Next
  <2>6. CASE rows[i] # None
    <3>1. callMap' = callMap
      BY <2>1, <2>2, <2>3, <2>4, <2>6, CallMapStays
    <3> QED
      BY <1>1, <2>2, <3>1 DEF Unseen
  <2> QED
    BY <2>5, <2>6
<1>4. CASE EraseRow(d)
  <2>1. /\ UNCHANGED <<rows, nextId, files>>
        /\ \A e \in Deletes \ {d} : delete'[e] = delete[e]
        /\ delete[d].stage = "erase" /\ delete'[d].stage = "unlink"
        /\ delete'[d].id = delete[d].id
    BY <1>4 DEF EraseRow
  <2>2. AnswerOf(d) = "pending" /\ AnswerOf(d)' = "pending"
    BY <2>1 DEF AnswerOf
  <2>3. callMap' = callMap
    BY <2>1, <2>2, CallMapStep DEF callMap
  <2> QED
    BY <1>1, <2>1, <2>3 DEF Unseen
<1>5. CASE DeleteFails(d)
  <2>1. /\ UNCHANGED <<rows, nextId, files>>
        /\ \A e \in Deletes \ {d} : delete'[e] = delete[e]
        /\ delete[d].stage \in {"find", "erase", "unlink", "commit"}
        /\ delete'[d].stage \in {"failed", "broken"}
        /\ delete'[d].id = delete[d].id
    BY <1>5 DEF DeleteFails
  <2>2. AnswerOf(d) = "pending" /\ AnswerOf(d)' = "failed"
    BY <2>1 DEF AnswerOf
  <2>3. /\ callMap[d] = [id |-> delete[d].id, answer |-> "pending"]
        /\ callMap' = [callMap EXCEPT ![d] = [id |-> delete[d].id, answer |-> "failed"]]
    BY <2>1, <2>2, CallMapStep DEF callMap
  <2>4. callMap' = [e \in Deletes |-> IF e \in {d} THEN [callMap[e] EXCEPT !.answer = "failed"]
                                                  ELSE callMap[e]]
    BY <2>3 DEF callMap
  <2>5. Catalog!Fail({d})
    BY <1>1, <2>1, <2>3, <2>4 DEF Catalog!Fail, entryMap, callMap
  <2> QED
    BY <2>5 DEF Catalog!Next
<1> QED
  BY <1>2, <1>3, <1>4, <1>5, UnlinkRefines, CommitRefines DEF DeleteStep

\* A crash fails every DELETE under way.
LEMMA CrashRefines ==
  ASSUME IInv, NEW S \in SUBSET Uploads, Crash(S)
  PROVE  Catalog!Next
<1> USE DEF IInv, Shape, TypeOK, DeleteCall
<1> DEFINE D == {d \in Deletes : DeleteBusy(d)}
<1>1. /\ UNCHANGED <<rows, nextId>> /\ files' = files \cup S
      /\ \A u \in S : upload[u].stage \in Rowless
  BY DEF Crash, Rowless
<1>2. \A id \in RowIds : rows[id] # None =>
         (rows[id].file \in files' <=> rows[id].file \in files)
  BY <1>1 DEF FileBeforeRow
<1>3. entryMap' = entryMap
  BY <1>1, <1>2 DEF entryMap, EntryOf
<1>4. ASSUME NEW d \in D
      PROVE  /\ AnswerOf(d) = "pending" /\ AnswerOf(d)' = "failed"
             /\ delete'[d].id = delete[d].id
  <2>1. /\ delete[d].stage \in {"find", "erase", "unlink", "commit"}
        /\ delete'[d].stage \in {"failed", "broken"}
        /\ delete'[d].id = delete[d].id
    BY <1>4 DEF Crash, DeleteBusy
  <2> QED
    BY <2>1 DEF AnswerOf
<1>5. ASSUME NEW d \in Deletes \ D PROVE delete'[d] = delete[d]
  BY <1>5 DEF Crash, DeleteBusy
<1>6. callMap' = [d \in Deletes |-> IF d \in D THEN [callMap[d] EXCEPT !.answer = "failed"]
                                              ELSE callMap[d]]
  <2>1. \A d \in D : [id |-> delete'[d].id, answer |-> AnswerOf(d)']
                      = [callMap[d] EXCEPT !.answer = "failed"]
    BY <1>4 DEF callMap
  <2>2. \A d \in Deletes \ D : [id |-> delete'[d].id, answer |-> AnswerOf(d)'] = callMap[d]
    BY <1>5 DEF callMap, AnswerOf
  <2> QED
    BY <2>1, <2>2 DEF callMap
<1>7. \A d \in D : callMap[d].answer = "pending"
  BY <1>4 DEF callMap
<1> HIDE DEF D
<1>8. PICK C \in SUBSET Deletes : C = D
  BY DEF D
<1>9. /\ \A d \in C : callMap[d].answer = "pending"
      /\ callMap' = [d \in Deletes |-> IF d \in C THEN [callMap[d] EXCEPT !.answer = "failed"]
                                              ELSE callMap[d]]
  BY <1>6, <1>7, <1>8
<1>10. Catalog!Fail(C)
  BY <1>3, <1>9 DEF Catalog!Fail, entryMap, callMap
<1> QED
  BY <1>10 DEF Catalog!Next

LEMMA CatalogStep == IInv /\ [Next]_vars => Unseen \/ Catalog!Next
<1> SUFFICES ASSUME IInv, [Next]_vars PROVE Unseen \/ Catalog!Next
  OBVIOUS
<1>1. CASE UNCHANGED vars
  BY <1>1 DEF vars, Unseen, entryMap, callMap, EntryOf, AnswerOf
<1> QED
  BY <1>1, UploadRefines, DeleteRefines, CrashRefines DEF Next, Quiet

(***************************************************************************)
(* To its callers the firmware store is the catalogue of RecordCatalog,    *)
(* with any number of uploads and DELETEs: a record appears whole, goes    *)
(* for good when its file does, and the answers agree with that.           *)
(***************************************************************************)
THEOREM StoreIsCatalog == Spec => ImplementsCatalog
<1>1. Init => Catalog!Init
  BY CatalogInit
<1>2. IInv /\ [Next]_vars =>
         [Catalog!Next]_<<[id \in RowIds |-> EntryOf(id)],
                          [d \in Deletes |-> [id |-> delete[d].id, answer |-> AnswerOf(d)]]>>
  BY CatalogStep DEF Unseen, entryMap, callMap
<1> QED
  BY <1>1, <1>2, IInvAlways, PTL DEF Spec, ImplementsCatalog, Catalog!Spec

=============================================================================

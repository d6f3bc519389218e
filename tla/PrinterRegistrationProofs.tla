--------------------- MODULE PrinterRegistrationProofs ---------------------
(***************************************************************************)
(* Proofs about PrinterRegistration for any number of printers, messages   *)
(* and calls: its type invariant, that a printer has one row unless two    *)
(* register runs missed it together, that rows and QR code files belong to *)
(* each other up to the runs that stopped between the two, and that no     *)
(* printer is unlocked without cause.                                      *)
(***************************************************************************)
EXTENDS PrinterRegistration, TLAPS

-----------------------------------------------------------------------------
(* The inductive invariant.                                                *)

\* A run knows what it is about once it has started.
RunsHaveSubjects ==
    /\ \A r \in Registers : register[r].stage # "new" => register[r].mac \in Macs
    /\ \A p \in Patches : patch[p].stage # "new" =>
          patch[p].id \in RowIds /\ patch[p].identifier \in Identifiers
    /\ \A p \in Patches : patch[p].stage \in {"new", "update"} => ~patch[p].affected
    /\ \A d \in Deletes : delete[d].stage # "new" => delete[d].id \in RowIds
    /\ \A d \in Deletes : delete[d].stage \in {"unlink", "remove", "halfway"} =>
          delete[d].file \in Registers

\* Ids at or above AUTO_INCREMENT are unused.
RowsBelowNext == \A id \in RowIds : id >= nextId => rows[id] = None

Shape == TypeOK /\ RunsHaveSubjects /\ RowsBelowNext

\* Without a race a run that missed the row is alone, and there is still no row.
GapIsAlone ==
    \A r \in Registers : InGap(r) /\ register[r].mac \notin raced =>
        /\ RowsOf(register[r].mac) = {}
        /\ \A s \in Registers : InGap(s) /\ register[s].mac = register[r].mac => s = r

\* A run uploads its file right before it saves its row, and never again.
FileBeforeRow ==
    /\ \A r \in Registers : register[r].stage = "save" => r \in files
    /\ \A r \in Registers : register[r].stage \in {"new", "update", "upload", "save", "leaked"} =>
          \A id \in RowIds : rows[id] # None => rows[id].file # r
    /\ \A r \in files : register[r].stage \notin {"new", "update", "upload"}

\* The file of a row belongs to this row alone, and its DELETEs know it.
FilesArePrivate ==
    /\ \A i, j \in RowIds :
          rows[i] # None /\ rows[j] # None /\ rows[i].file = rows[j].file => i = j
    /\ \A d \in Deletes : delete[d].stage \in {"unlink", "remove", "halfway"} =>
          /\ delete[d].id < nextId
          /\ rows[delete[d].id] # None => rows[delete[d].id].file = delete[d].file
          /\ \A r \in Registers : delete[d].file = r =>
                register[r].stage \notin {"new", "update", "upload", "save", "leaked"}
          /\ \A id \in RowIds : rows[id] # None /\ rows[id].file = delete[d].file =>
                id = delete[d].id

\* The file is gone once a DELETE has passed its storage step.
DeletedFilesAreGone ==
    \A d \in Deletes :
        delete[d].stage \in {"remove", "halfway"} => delete[d].file \notin files

\* A printer a PATCH is about to tell has been named, or the PATCH was blind.
TellIsEarned ==
    \A p \in Patches :
        /\ patch[p].stage = "find" /\ patch[p].affected /\ rows[patch[p].id] # None
              => rows[patch[p].id].mac \in named
        /\ patch[p].stage = "find" /\ patch[p].affected => patch[p].id < nextId
        /\ patch[p].stage = "tell" /\ patch[p].affected /\ patch[p].mac # None
              => patch[p].mac \in named

\* What rows and files have to do with each other.
FileInv ==
    /\ FileBeforeRow
    /\ FilesArePrivate
    /\ DeletedFilesAreGone
    /\ RowsHaveFiles
    /\ FilesHaveRows

IInv ==
    /\ Shape
    /\ OneRowPerPrinter
    /\ GapIsAlone
    /\ FileInv
    /\ TellIsEarned
    /\ UnlockIsEarned

-----------------------------------------------------------------------------
(***************************************************************************)
(* Type correctness.                                                       *)
(***************************************************************************)
LEMMA ShapeInit == Init => Shape
<1> SUFFICES ASSUME Init PROVE Shape
  OBVIOUS
<1>1. 1 \in 1..(MaxRows + 1) /\ 0 \in 0..MaxFaults
  BY BoundAssumption
<1> QED
  BY <1>1
     DEF Init, Shape, TypeOK, RunsHaveSubjects, RowsBelowNext, RegisterRun, PatchRun,
         DeleteRun, RegisterStages, PatchStages, DeleteStages

\* An UPDATE with a new address changes nothing else in a row.
LEMMA HitKeepsRows ==
  ASSUME Shape, NEW r \in Registers, UpdateHit(r)
  PROVE  /\ rows' \in [RowIds -> Row \cup {None}]
         /\ \A id \in RowIds : rows'[id] = None <=> rows[id] = None
         /\ \A id \in RowIds : rows[id] # None =>
               /\ rows'[id].mac = rows[id].mac
               /\ rows'[id].identifier = rows[id].identifier
               /\ rows'[id].file = rows[id].file
<1>1. \A id \in RowIds : rows[id] \in Row \cup {None}
  BY DEF Shape, TypeOK
<1>2. \A id \in RowIds :
         \/ rows'[id] = rows[id]
         \/ rows[id] # None /\ rows'[id] = [rows[id] EXCEPT !.lanIp = r]
  BY DEF UpdateHit, RowsOf
<1>3. \A row \in Row : /\ [row EXCEPT !.lanIp = r] \in Row
                       /\ [row EXCEPT !.lanIp = r].mac = row.mac
                       /\ [row EXCEPT !.lanIp = r].identifier = row.identifier
                       /\ [row EXCEPT !.lanIp = r].file = row.file
  BY DEF Row
<1>4. None \notin Row
  BY NoneAssumption
<1>5. \A id \in RowIds : rows'[id] \in Row \cup {None}
  BY <1>1, <1>2, <1>3
<1>6. rows' = [id \in RowIds |-> rows'[id]]
  BY DEF UpdateHit
<1>7. rows' \in [RowIds -> Row \cup {None}]
  BY <1>5, <1>6
<1>8. ASSUME NEW id \in RowIds
      PROVE  /\ rows'[id] = None <=> rows[id] = None
             /\ rows[id] # None => /\ rows'[id].mac = rows[id].mac
                                   /\ rows'[id].identifier = rows[id].identifier
                                   /\ rows'[id].file = rows[id].file
  <2>1. CASE rows'[id] = rows[id]
    BY <2>1
  <2>2. CASE rows[id] # None /\ rows'[id] = [rows[id] EXCEPT !.lanIp = r]
    <3>1. rows[id] \in Row
      BY <1>1, <2>2
    <3> QED
      BY ONLY <1>3, <1>4, <2>2, <3>1
  <2> QED
    BY <1>2, <2>1, <2>2
<1> QED
  BY <1>7, <1>8

\* The steps of register runs keep the types.
LEMMA RegisterTypes ==
  ASSUME Shape, NEW r \in Registers,
         \/ \E mac \in Macs : ReceiveRegister(r, mac)
         \/ RegisterStep(r)
         \/ RegisterFails(r) \/ UploadFails(r)
  PROVE  Shape'
<1> USE DEF Shape, TypeOK, RunsHaveSubjects, RowsBelowNext, runVars, obsVars
<1>1. ASSUME NEW mac \in Macs, ReceiveRegister(r, mac) PROVE Shape'
  BY <1>1 DEF ReceiveRegister, RegisterRun, RegisterStages
<1>2. CASE UpdateHit(r)
  <2>1. /\ rows' \in [RowIds -> Row \cup {None}]
        /\ \A id \in RowIds : rows'[id] = None <=> rows[id] = None
    BY <1>2, HitKeepsRows
  <2>2. UNCHANGED <<nextId, files, patch, delete, told, unlocked, faults, obsVars>>
    BY <1>2 DEF UpdateHit
  <2>3. register[r].stage = "update" /\ register' = [register EXCEPT ![r].stage = "find"]
    BY <1>2 DEF UpdateHit
  <2>4. register' \in [Registers -> RegisterRun]
    BY <2>3 DEF RegisterRun, RegisterStages
  <2> QED
    BY <2>1, <2>2, <2>3, <2>4 DEF RegisterRun
<1>3. CASE UpdateMiss(r)
  <2>1. register[r].mac \in Macs
    BY <1>3 DEF UpdateMiss
  <2> QED
    BY <1>3, <2>1 DEF UpdateMiss, Racing, RegisterRun, RegisterStages
<1>4. CASE UploadQr(r)
  BY <1>4 DEF UploadQr, RegisterRun, RegisterStages
<1>5. CASE SaveRow(r)
  <2> DEFINE row == [mac |-> register[r].mac, identifier |-> None, file |-> r,
                     lanIp |-> r]
  <2>1. register[r].mac \in Macs
    BY <1>5 DEF SaveRow
  <2>2. row \in Row
    BY <2>1 DEF Row
  <2>3. rows' = [rows EXCEPT ![nextId] = row] /\ nextId \in RowIds /\ nextId' = nextId + 1
    BY <1>5 DEF SaveRow
  <2> HIDE DEF row
  <2>4. rows' \in [RowIds -> Row \cup {None}] /\ nextId' \in 1..(MaxRows + 1)
    BY <2>2, <2>3, BoundAssumption DEF RowIds
  <2>5. RowsBelowNext'
    BY <2>3 DEF RowIds
  <2>6. register' \in [Registers -> RegisterRun]
    BY <1>5 DEF SaveRow, RegisterRun, RegisterStages
  <2> QED
    BY <1>5, <2>1, <2>4, <2>5, <2>6 DEF SaveRow, Outdated
<1>6. CASE FindRow(r)
  <2>1. PICK registered \in BOOLEAN :
          register' = [register EXCEPT ![r] =
                         [@ EXCEPT !.stage = "answer", !.registered = registered]]
    BY <1>6 DEF FindRow
  <2>2. register[r].stage # "new"
    BY <1>6 DEF FindRow
  <2>3. register' \in [Registers -> RegisterRun]
    <3>1. register[r] \in RegisterRun
      OBVIOUS
    <3>2. [register[r] EXCEPT !.stage = "answer", !.registered = registered] \in RegisterRun
      BY ONLY <3>1, registered \in BOOLEAN DEF RegisterRun, RegisterStages
    <3> QED
      BY <2>1, <3>2
  <2>4. \A s \in Registers : register'[s].mac = register[s].mac
    BY <2>1 DEF RegisterRun
  <2>5. UNCHANGED <<rows, nextId, files, patch, delete, told, unlocked, faults, obsVars>>
    BY <1>6 DEF FindRow
  <2> QED
    BY <2>1, <2>2, <2>3, <2>4, <2>5
<1>7. CASE PublishStatus(r)
  <2>1. register[r].registered \in BOOLEAN
    BY DEF RegisterRun
  <2> QED
    BY <1>7, <2>1 DEF PublishStatus, RegisterRun, RegisterStages
<1>8. CASE RegisterFails(r)
  BY <1>8, BoundAssumption DEF RegisterFails, Unanswered, RegisterRun, RegisterStages
<1>9. CASE UploadFails(r)
  <2>1. register' \in [Registers -> RegisterRun] /\ files' \subseteq Registers
    BY <1>9 DEF UploadFails, RegisterRun, RegisterStages
  <2>2. /\ register[r].stage = "upload"
        /\ \A s \in Registers : register'[s].mac = register[s].mac
        /\ \A s \in Registers : register'[s].stage # "new" => register[s].stage # "new"
    BY <1>9 DEF UploadFails, RegisterRun
  <2> QED
    BY <1>9, <2>1, <2>2, BoundAssumption DEF UploadFails
<1> QED
  BY <1>1, <1>2, <1>3, <1>4, <1>5, <1>6, <1>7, <1>8, <1>9 DEF RegisterStep

\* So do those of PATCH calls.
LEMMA PatchTypes ==
  ASSUME Shape, NEW p \in Patches,
         \/ \E id \in RowIds, name \in Identifiers : ReceivePatch(p, id, name)
         \/ PatchStep(p)
         \/ PatchFails(p)
  PROVE  Shape'
<1> USE DEF Shape, TypeOK, RunsHaveSubjects, RowsBelowNext, runVars, obsVars
<1>1. ASSUME NEW id \in RowIds, NEW name \in Identifiers, ReceivePatch(p, id, name)
      PROVE Shape'
  <2>1. patch[p] \in PatchRun
    OBVIOUS
  <2>2. /\ patch' = [patch EXCEPT ![p] =
                       [@ EXCEPT !.stage = "update", !.id = id, !.identifier = name]]
        /\ patch[p].stage = "new"
        /\ UNCHANGED <<rows, nextId, files, register, delete, told, unlocked, faults, obsVars>>
    BY <1>1 DEF ReceivePatch
  <2> DEFINE run == [patch[p] EXCEPT !.stage = "update", !.id = id, !.identifier = name]
  <2>3. /\ run \in PatchRun
        /\ run.id = id /\ run.identifier = name /\ run.affected = patch[p].affected
    BY ONLY <2>1, id \in RowIds, name \in Identifiers DEF PatchRun, PatchStages
  <2>4. patch' = [patch EXCEPT ![p] = run]
    BY <2>2
  <2> HIDE DEF run
  <2> QED
    BY <2>2, <2>3, <2>4
<1>2. CASE PatchRow(p)
  <2>1. patch[p].id \in RowIds /\ patch[p].identifier \in Identifiers
    BY <1>2 DEF PatchRow
  <2>2. rows[patch[p].id] \in Row /\ rows[patch[p].id].mac \in Macs
    BY <1>2, <2>1 DEF PatchRow, Row
  <2> DEFINE row == [rows[patch[p].id] EXCEPT !.identifier = patch[p].identifier]
  <2>3. row \in Row
    BY <2>1, <2>2 DEF Row
  <2>4. rows' = [rows EXCEPT ![patch[p].id] = row]
    BY <1>2 DEF PatchRow
  <2>5. rows[patch[p].id] # None
    BY <1>2 DEF PatchRow
  <2> HIDE DEF row
  <2>6. rows' \in [RowIds -> Row \cup {None}] /\ RowsBelowNext'
    BY <1>2, <2>1, <2>3, <2>4, <2>5 DEF PatchRow
  <2>7. patch' \in [Patches -> PatchRun]
    <3>1. patch[p] \in PatchRun
      OBVIOUS
    <3>2. [patch[p] EXCEPT !.stage = "find", !.affected = TRUE] \in PatchRun
      BY ONLY <3>1 DEF PatchRun, PatchStages
    <3> QED
      BY <1>2, <3>2 DEF PatchRow
  <2> QED
    BY <1>2, <2>1, <2>2, <2>6, <2>7 DEF PatchRow, Outdated
<1>3. CASE PatchConflict(p)
  BY <1>3 DEF PatchConflict, PatchRun, PatchStages
<1>4. CASE PatchNothing(p)
  BY <1>4 DEF PatchNothing, PatchRun, PatchStages
<1>5. CASE PatchFind(p)
  <2> DEFINE mac == IF rows[patch[p].id] = None THEN None ELSE rows[patch[p].id].mac
  <2>1. rows[patch[p].id] # None => rows[patch[p].id].mac \in Macs
    BY <1>5 DEF PatchFind, Row
  <2>2. mac \in Macs \cup {None}
    BY <2>1
  <2>3. patch' = [patch EXCEPT ![p] = [@ EXCEPT !.stage = "tell", !.mac = mac]]
    BY <1>5 DEF PatchFind
  <2>4. stale' \subseteq Macs
    BY <1>5, <2>1 DEF PatchFind
  <2>5. patch[p].stage # "new"
    BY <1>5 DEF PatchFind
  <2> HIDE DEF mac
  <2>6. patch' \in [Patches -> PatchRun]
    <3>0. patch[p] \in PatchRun
      OBVIOUS
    <3>1. [patch[p] EXCEPT !.stage = "tell", !.mac = mac] \in PatchRun
      BY ONLY <2>2, <3>0 DEF PatchRun, PatchStages
    <3> QED
      BY <2>3, <3>1
  <2>7. UNCHANGED <<rows, nextId, files, register, delete, told, unlocked, faults,
                    raced, named, newest, overlapped>>
    BY <1>5 DEF PatchFind
  <2> QED
    BY <2>3, <2>4, <2>5, <2>6, <2>7 DEF PatchRun
<1>6. CASE PatchTell(p)
  <2>1. patch[p].mac # None => patch[p].mac \in Macs
    BY DEF PatchRun
  <2> QED
    BY <1>6, <2>1 DEF PatchTell, PatchRun, PatchStages
<1>7. CASE PatchFails(p)
  <2>1. Untold(p) \subseteq Macs
    BY <1>7 DEF PatchFails, Untold, PatchRun, Row
  <2>2. patch' = [patch EXCEPT ![p].stage = "failed"] /\ patch[p].stage # "new"
    BY <1>7 DEF PatchFails
  <2>3. patch' \in [Patches -> PatchRun]
    <3>1. patch[p] \in PatchRun
      OBVIOUS
    <3>2. [patch[p] EXCEPT !.stage = "failed"] \in PatchRun
      BY ONLY <3>1 DEF PatchRun, PatchStages
    <3> QED
      BY <2>2, <3>2
  <2>4. /\ stale' \subseteq Macs /\ faults' \in 0..MaxFaults
        /\ UNCHANGED <<rows, nextId, files, register, delete, told, unlocked,
                       raced, named, newest, overlapped>>
    BY <1>7, <2>1, BoundAssumption DEF PatchFails
  <2> QED
    BY <2>2, <2>3, <2>4 DEF PatchRun
<1> QED
  BY <1>1, <1>2, <1>3, <1>4, <1>5, <1>6, <1>7 DEF PatchStep

\* And of DELETE calls.
LEMMA DeleteTypes ==
  ASSUME Shape, NEW d \in Deletes,
         (\E id \in RowIds : ReceiveDelete(d, id)) \/ DeleteStep(d) \/ DeleteFails(d)
  PROVE  Shape'
<1> USE DEF Shape, TypeOK, RunsHaveSubjects, RowsBelowNext, runVars, obsVars
<1>1. ASSUME NEW id \in RowIds, ReceiveDelete(d, id) PROVE Shape'
  BY <1>1 DEF ReceiveDelete, DeleteRun, DeleteStages
<1>2. CASE DeleteFind(d)
  <2>1. rows[delete[d].id] # None => rows[delete[d].id].file \in Registers
    BY <1>2 DEF DeleteFind, Row
  <2> QED
    BY <1>2, <2>1 DEF DeleteFind, DeleteRun, DeleteStages
<1>3. CASE DeleteFile(d)
  BY <1>3 DEF DeleteFile, DeleteRun, DeleteStages
<1>4. CASE DeleteRow(d)
  <2>1. rows[delete[d].id] # None => rows[delete[d].id].mac \in Macs
    BY <1>4 DEF DeleteRow, Row
  <2> QED
    BY <1>4, <2>1 DEF DeleteRow, Outdated, DeleteRun, DeleteStages
<1>5. CASE DeleteFails(d)
  BY <1>5, BoundAssumption DEF DeleteFails, DeleteRun, DeleteStages
<1> QED
  BY <1>1, <1>2, <1>3, <1>4, <1>5 DEF DeleteStep

LEMMA CrashTypes ==
  ASSUME Shape, NEW S \in SUBSET Registers, Crash(S)
  PROVE  Shape'
<1> USE DEF Shape, TypeOK, RunsHaveSubjects, RowsBelowNext, Crash, runVars, obsVars
<1>1. register' \in [Registers -> RegisterRun]
  <2>1. \A r \in Registers : register[r] \in RegisterRun
    OBVIOUS
  <2>2. \A r \in Registers : \/ register'[r] = register[r]
                           \/ register'[r] = [register[r] EXCEPT !.stage = "leaked"]
                           \/ register'[r] = [register[r] EXCEPT !.stage = "failed"]
    OBVIOUS
  <2>3. \A run \in RegisterRun : /\ [run EXCEPT !.stage = "leaked"] \in RegisterRun
                                /\ [run EXCEPT !.stage = "failed"] \in RegisterRun
    BY ONLY DEF RegisterRun, RegisterStages
  <2>4. register' = [r \in Registers |-> register'[r]]
    OBVIOUS
  <2>5. ASSUME NEW r \in Registers PROVE register'[r] \in RegisterRun
    <3>1. register[r] \in RegisterRun
      BY <2>1
    <3>2. /\ [register[r] EXCEPT !.stage = "leaked"] \in RegisterRun
          /\ [register[r] EXCEPT !.stage = "failed"] \in RegisterRun
      BY ONLY <2>3, <3>1
    <3> QED
      BY ONLY <2>2, <3>1, <3>2, r \in Registers
  <2> QED
    BY ONLY <2>4, <2>5
<1>2. patch' \in [Patches -> PatchRun]
  <2>1. \A p \in Patches : patch[p] \in PatchRun
    OBVIOUS
  <2>2. \A p \in Patches : \/ patch'[p] = patch[p]
                          \/ patch'[p] = [patch[p] EXCEPT !.stage = "failed"]
    OBVIOUS
  <2>3. \A run \in PatchRun : [run EXCEPT !.stage = "failed"] \in PatchRun
    BY ONLY DEF PatchRun, PatchStages
  <2>4. patch' = [p \in Patches |-> patch'[p]]
    OBVIOUS
  <2>5. \A p \in Patches : patch'[p] \in PatchRun
    BY ONLY <2>1, <2>2, <2>3
  <2> QED
    BY ONLY <2>4, <2>5
<1>3. delete' \in [Deletes -> DeleteRun]
  BY DEF DeleteRun, DeleteStages
<1>4. \A r \in Registers : Unanswered(r) \subseteq Macs
  BY DEF Unanswered
<1>5. \A p \in Patches : Untold(p) \subseteq Macs
  BY DEF Untold, PatchRun, Row
<1>6. stale' \subseteq Macs
  <2>1. stale' = stale \cup (UNION {Unanswered(r) : r \in Registers})
                      \cup (UNION {Untold(p) : p \in Patches})
    OBVIOUS
  <2>2. (UNION {Unanswered(r) : r \in Registers}) \subseteq Macs
    BY <1>4
  <2>3. (UNION {Untold(p) : p \in Patches}) \subseteq Macs
    BY <1>5
  <2>4. stale \subseteq Macs
    OBVIOUS
  <2> QED
    BY ONLY <2>1, <2>2, <2>3, <2>4
<1>7. RunsHaveSubjects'
  <2>1. \A r \in Registers : register'[r].mac = register[r].mac
                           /\ (register'[r].stage = "new" <=> register[r].stage = "new")
    BY DEF RegisterRun, RegisterStages
  <2>2. \A p \in Patches : /\ patch'[p].id = patch[p].id
                          /\ patch'[p].identifier = patch[p].identifier
                          /\ patch'[p].affected = patch[p].affected
                          /\ patch'[p].stage = "update" => patch[p].stage = "update"
                          /\ (patch'[p].stage = "new" <=> patch[p].stage = "new")
    BY DEF PatchRun, PatchStages
  <2>3. \A d \in Deletes : /\ delete'[d].id = delete[d].id
                          /\ delete'[d].file = delete[d].file
                          /\ (delete'[d].stage = "new" <=> delete[d].stage = "new")
                          /\ delete'[d].stage \in {"unlink", "remove", "halfway"} =>
                                delete[d].stage \in {"unlink", "remove", "halfway"}
    BY DEF DeleteRun, DeleteStages
  <2> QED
    BY <2>1, <2>2, <2>3
<1> QED
  BY <1>1, <1>2, <1>3, <1>6, <1>7, BoundAssumption

LEMMA ShapeStep == Shape /\ [Next]_vars => Shape'
<1> SUFFICES ASSUME Shape, [Next]_vars PROVE Shape'
  OBVIOUS
<1>1. CASE UNCHANGED vars
  BY <1>1 DEF vars, runVars, obsVars, Shape, TypeOK, RunsHaveSubjects, RowsBelowNext
<1> QED
  BY <1>1, RegisterTypes, PatchTypes, DeleteTypes, CrashTypes DEF Next, Quiet

(***************************************************************************)
(* Every reachable state of the registration service is type correct.      *)
(***************************************************************************)
THEOREM TypeCorrect == Spec => []TypeOK
<1>1. Shape => TypeOK
  BY DEF Shape
<1> QED
  BY <1>1, ShapeInit, ShapeStep, PTL DEF Spec

-----------------------------------------------------------------------------
(***************************************************************************)
(* One row per printer.                                                    *)
(***************************************************************************)

\* A step that adds no row and opens no gap endangers nothing.
LEMMA NoNewRow ==
  ASSUME OneRowPerPrinter, GapIsAlone,
         raced' = raced,
         \A mac \in Macs : RowsOf(mac)' \subseteq RowsOf(mac),
         \A r \in Registers : InGap(r)' => InGap(r) /\ register'[r].mac = register[r].mac,
         \A r \in Registers : InGap(r) => register[r].mac \in Macs
  PROVE  OneRowPerPrinter' /\ GapIsAlone'
<1>1. OneRowPerPrinter'
  BY DEF OneRowPerPrinter
<1>2. GapIsAlone'
  <2> SUFFICES ASSUME NEW r \in Registers, InGap(r)', register'[r].mac \notin raced
               PROVE  /\ RowsOf(register[r].mac)' = {}
                      /\ \A s \in Registers :
                            InGap(s)' /\ register'[s].mac = register'[r].mac => s = r
    BY DEF GapIsAlone
  <2>1. InGap(r) /\ register'[r].mac = register[r].mac /\ register[r].mac \in Macs
    OBVIOUS
  <2>2. RowsOf(register[r].mac) = {}
    BY <2>1 DEF GapIsAlone
  <2>3. RowsOf(register[r].mac)' = {}
    BY <2>1, <2>2 DEF RowsOf
  <2> QED
    BY <2>1, <2>3 DEF GapIsAlone
<1> QED
  BY <1>1, <1>2

LEMMA OneRowStep == IInv /\ [Next]_vars => OneRowPerPrinter' /\ GapIsAlone'
<1> SUFFICES ASSUME IInv, [Next]_vars PROVE OneRowPerPrinter' /\ GapIsAlone'
  OBVIOUS
<1> USE DEF IInv, Shape, TypeOK, RegisterRun, RegisterStages, runVars, obsVars
<1>1. \A r \in Registers : InGap(r) => register[r].mac \in Macs
  BY DEF InGap, RunsHaveSubjects
<1>2. ASSUME NEW r \in Registers,
             \/ \E mac \in Macs : ReceiveRegister(r, mac)
             \/ UploadQr(r) \/ FindRow(r) \/ PublishStatus(r)
             \/ RegisterFails(r) \/ UploadFails(r)
      PROVE  OneRowPerPrinter' /\ GapIsAlone'
  <2>1. \A s \in Registers : InGap(s)' => InGap(s) /\ register'[s].mac = register[s].mac
    <3>1. CASE \E mac \in Macs : ReceiveRegister(r, mac)
      BY <3>1 DEF InGap, ReceiveRegister
    <3>2. CASE UploadQr(r) \/ PublishStatus(r) \/ RegisterFails(r)
      BY <3>2 DEF InGap, UploadQr, PublishStatus, RegisterFails
    <3>3. CASE FindRow(r)
      BY <3>3 DEF InGap, FindRow
    <3>4. CASE UploadFails(r)
      BY <3>4 DEF InGap, UploadFails
    <3> QED
      BY <1>2, <3>1, <3>2, <3>3, <3>4
  <2>2. UNCHANGED <<rows, raced>>
    BY <1>2
       DEF ReceiveRegister, UploadQr, FindRow, PublishStatus, RegisterFails, UploadFails
  <2> QED
    BY <1>1, <2>1, <2>2, NoNewRow DEF RowsOf
<1>h. ASSUME NEW r \in Registers, UpdateHit(r) PROVE OneRowPerPrinter' /\ GapIsAlone'
  <2>1. \A id \in RowIds : rows'[id] # None => rows[id] # None /\ rows'[id].mac = rows[id].mac
    BY <1>h, HitKeepsRows
  <2>2. \A mac \in Macs : RowsOf(mac)' \subseteq RowsOf(mac)
    BY <2>1 DEF RowsOf
  <2>3. \A s \in Registers : InGap(s)' => InGap(s) /\ register'[s].mac = register[s].mac
    BY <1>h DEF InGap, UpdateHit
  <2>4. raced' = raced
    BY <1>h DEF UpdateHit
  <2> QED
    BY <1>1, <2>2, <2>3, <2>4, NoNewRow
<1>3. ASSUME NEW r \in Registers, UpdateMiss(r) PROVE OneRowPerPrinter' /\ GapIsAlone'
  <2>0. PICK m \in Macs : m = register[r].mac
    BY <1>1, <1>3 DEF UpdateMiss, RunsHaveSubjects
  <2>1. /\ RowsOf(m) = {} /\ rows' = rows
        /\ \A s \in Registers : register'[s].mac = register[s].mac
        /\ \A s \in Registers : InGap(s)' <=> InGap(s) \/ s = r
    BY <1>3, <2>0 DEF UpdateMiss, InGap
  <2>2. /\ raced \subseteq raced'
        /\ \A s \in Registers : InGap(s) /\ register[s].mac = m => m \in raced'
    BY <1>3, <2>0 DEF UpdateMiss, Racing
  <2>3. \A mac : RowsOf(mac)' = RowsOf(mac)
    BY <2>1 DEF RowsOf
  <2>4. OneRowPerPrinter'
    BY <2>2, <2>3 DEF OneRowPerPrinter
  <2>5. ASSUME NEW s \in Registers, InGap(s)', register'[s].mac \notin raced'
        PROVE  /\ RowsOf(register[s].mac)' = {}
               /\ \A t \in Registers : InGap(t)' /\ register'[t].mac = register'[s].mac => t = s
    BY <2>0, <2>1, <2>2, <2>3, <2>5 DEF GapIsAlone
  <2> QED
    BY <2>4, <2>5 DEF GapIsAlone
<1>4. ASSUME NEW r \in Registers, SaveRow(r) PROVE OneRowPerPrinter' /\ GapIsAlone'
  <2>0. PICK m \in Macs : m = register[r].mac
    BY <1>1, <1>4 DEF SaveRow, InGap
  <2>1. /\ raced' = raced /\ nextId \in RowIds
        /\ \A s \in Registers : register'[s].mac = register[s].mac
        /\ \A s \in Registers : InGap(s)' => InGap(s) /\ s # r
        /\ InGap(r)
    BY <1>4 DEF SaveRow, InGap
  <2>2. \A id \in RowIds \ {nextId} : rows'[id] = rows[id]
    BY <1>4 DEF SaveRow
  <2>3. rows'[nextId].mac = m
    BY <1>4, <2>0, <2>1 DEF SaveRow
  <2>4. \A mac \in Macs : mac # m => RowsOf(mac)' = RowsOf(mac)
    BY <2>1, <2>2, <2>3 DEF RowsOf, RowsBelowNext, RowIds
  <2>5. m \notin raced => RowsOf(m) = {}
    BY <2>0, <2>1 DEF GapIsAlone
  <2>6. RowsOf(m)' \subseteq RowsOf(m) \cup {nextId}
    BY <2>2 DEF RowsOf
  <2>7. \A s \in Registers : InGap(s)' /\ register[s].mac = m => m \in raced
    BY <2>0, <2>1 DEF GapIsAlone
  <2>8. OneRowPerPrinter'
    <3> SUFFICES ASSUME NEW mac \in Macs \ raced', NEW i \in RowsOf(mac)', NEW j \in RowsOf(mac)'
                 PROVE  i = j
      BY DEF OneRowPerPrinter
    <3>1. CASE mac = m
      <4>1. RowsOf(m)' \subseteq {nextId}
        BY <2>1, <2>5, <2>6, <3>1
      <4> QED
        BY <3>1, <4>1
    <3>2. CASE mac # m
      <4>1. i \in RowsOf(mac) /\ j \in RowsOf(mac)
        BY <2>4, <3>2
      <4> QED
        BY <2>1, <4>1 DEF OneRowPerPrinter
    <3> QED
      BY <3>1, <3>2
  <2>9. GapIsAlone'
    <3> SUFFICES ASSUME NEW s \in Registers, InGap(s)', register'[s].mac \notin raced'
                 PROVE  /\ RowsOf(register[s].mac)' = {}
                        /\ \A t \in Registers :
                              InGap(t)' /\ register'[t].mac = register'[s].mac => t = s
      BY DEF GapIsAlone
    <3>1. InGap(s) /\ register[s].mac # m /\ register[s].mac \in Macs
      BY <1>1, <2>1, <2>7
    <3>2. RowsOf(register[s].mac)' = RowsOf(register[s].mac)
      BY <2>1, <2>4, <3>1 DEF RowsOf
    <3> QED
      BY <2>1, <3>1, <3>2 DEF GapIsAlone
  <2> QED
    BY <2>8, <2>9
<1>5. ASSUME NEW p \in Patches, PatchRow(p) PROVE OneRowPerPrinter' /\ GapIsAlone'
  <2>1. UNCHANGED <<register, raced>> /\ patch[p].id \in RowIds
    BY <1>5 DEF PatchRow, RunsHaveSubjects
  <2>2. \A id \in RowIds : rows'[id] # None => rows[id] # None /\ rows'[id].mac = rows[id].mac
    BY <1>5, <2>1 DEF PatchRow, Row
  <2>3. \A mac \in Macs : RowsOf(mac)' \subseteq RowsOf(mac)
    BY <2>2 DEF RowsOf
  <2> QED
    BY <1>1, <2>1, <2>3, NoNewRow DEF InGap
<1>6. ASSUME NEW d \in Deletes, DeleteRow(d) PROVE OneRowPerPrinter' /\ GapIsAlone'
  <2>1. UNCHANGED <<register, raced>>
    BY <1>6 DEF DeleteRow
  <2>2. \A mac \in Macs : RowsOf(mac)' \subseteq RowsOf(mac)
    BY <1>6 DEF DeleteRow, RowsOf
  <2> QED
    BY <1>1, <2>1, <2>2, NoNewRow DEF InGap
<1>7. ASSUME NEW S \in SUBSET Registers, Crash(S) PROVE OneRowPerPrinter' /\ GapIsAlone'
  <2>1. \A r \in Registers : ~InGap(r)'
    BY <1>7 DEF Crash, InGap
  <2>2. UNCHANGED <<rows, raced>>
    BY <1>7 DEF Crash
  <2> QED
    BY <1>1, <2>1, <2>2, NoNewRow DEF RowsOf
<1>8. ASSUME UNCHANGED <<rows, register, raced>> PROVE OneRowPerPrinter' /\ GapIsAlone'
  BY <1>1, <1>8, NoNewRow DEF RowsOf, InGap
<1>9. ASSUME NEW p \in Patches,
             \/ \E id \in RowIds, name \in Identifiers : ReceivePatch(p, id, name)
             \/ PatchConflict(p) \/ PatchNothing(p) \/ PatchFind(p) \/ PatchTell(p)
             \/ PatchFails(p)
      PROVE  UNCHANGED <<rows, register, raced>>
  BY <1>9 DEF ReceivePatch, PatchConflict, PatchNothing, PatchFind, PatchTell, PatchFails
<1>10. ASSUME NEW d \in Deletes,
              \/ \E id \in RowIds : ReceiveDelete(d, id)
              \/ DeleteFind(d) \/ DeleteFile(d) \/ DeleteFails(d)
       PROVE  UNCHANGED <<rows, register, raced>>
  BY <1>10 DEF ReceiveDelete, DeleteFind, DeleteFile, DeleteFails
<1>11. CASE UNCHANGED vars
  BY <1>8, <1>11 DEF vars
<1> QED
  BY <1>2, <1>h, <1>3, <1>4, <1>5, <1>6, <1>7, <1>8, <1>9, <1>10, <1>11
     DEF Next, Quiet, RegisterStep, PatchStep, DeleteStep

-----------------------------------------------------------------------------
(***************************************************************************)
(* Rows and files.                                                         *)
(***************************************************************************)
Claiming == {"unlink", "remove", "halfway"}
Gutted   == {"remove", "halfway"}
Rowless  == {"new", "update", "upload", "save", "leaked"}
Fileless == {"new", "update", "upload"}

(***************************************************************************)
(* Most steps leave which row has which file as it is and move runs only   *)
(* within, or out of, the stages that say something of the files.  Those   *)
(* that add files add what is left of an upload that failed.               *)
(***************************************************************************)
LEMMA FilesGrow ==
  ASSUME FileInv, UNCHANGED nextId,
         NEW S \in SUBSET Registers, files' = files \cup S,
         \A r \in S : register[r].stage = "upload" /\ register'[r].stage = "leaked",
         \A id \in RowIds : /\ rows'[id] = None <=> rows[id] = None
                            /\ rows[id] # None => rows'[id].file = rows[id].file,
         \A r \in Registers :
            /\ register'[r].stage \in Rowless => register[r].stage \in Rowless
            /\ register'[r].stage \in Fileless => register[r].stage \in Fileless
            /\ register'[r].stage = "save" => register[r].stage = "save"
            /\ register[r].stage \in {"save", "leaked"}
                  => register'[r].stage \in {"save", "leaked"},
         \A d \in Deletes : delete'[d].stage \in Claiming =>
            /\ delete[d].stage \in Claiming
            /\ delete'[d].id = delete[d].id /\ delete'[d].file = delete[d].file
            /\ delete'[d].stage \in Gutted => delete[d].stage \in Gutted,
         \A d \in Deletes : delete[d].stage \in Gutted =>
            delete'[d].stage \in Gutted /\ delete'[d].id = delete[d].id,
         Shape
  PROVE  FileInv'
<1> USE DEF FileInv, Claiming, Gutted, Rowless, Fileless
<1>0. \A d \in Deletes : delete[d].stage \in Claiming => delete[d].id \in RowIds
  BY DEF Shape, RunsHaveSubjects
<1>1. FileBeforeRow'
  <2>1. \A r \in Registers : register'[r].stage = "save" => r \in files'
    BY DEF FileBeforeRow
  <2>2. \A r \in Registers : register'[r].stage \in Rowless =>
           \A id \in RowIds : rows'[id] # None => rows'[id].file # r
    BY DEF FileBeforeRow
  <2>3. \A r \in files' : register'[r].stage \notin Fileless
    BY DEF FileBeforeRow, Shape, TypeOK
  <2> QED
    BY <2>1, <2>2, <2>3 DEF FileBeforeRow
<1>2. FilesArePrivate'
  <2>1. \A i, j \in RowIds :
          rows'[i] # None /\ rows'[j] # None /\ rows'[i].file = rows'[j].file => i = j
    BY DEF FilesArePrivate
  <2>2. ASSUME NEW d \in Deletes, delete'[d].stage \in Claiming
        PROVE  /\ delete'[d].id < nextId'
               /\ rows'[delete'[d].id] # None => rows'[delete'[d].id].file = delete'[d].file
               /\ \A r \in Registers : delete'[d].file = r => register'[r].stage \notin Rowless
               /\ \A id \in RowIds : rows'[id] # None /\ rows'[id].file = delete'[d].file =>
                     id = delete'[d].id
    BY <1>0, <2>2 DEF FilesArePrivate
  <2> QED
    BY <2>1, <2>2 DEF FilesArePrivate
<1>3. DeletedFilesAreGone'
  <2>1. \A d \in Deletes : delete[d].stage \in Gutted => delete[d].file \notin S
    BY DEF FilesArePrivate
  <2> QED
    BY <2>1 DEF DeletedFilesAreGone
<1>4. RowsHaveFiles'
  BY DEF RowsHaveFiles
<1>5. FilesHaveRows'
  BY DEF FilesHaveRows, Shape, TypeOK
<1> QED
  BY <1>1, <1>2, <1>3, <1>4, <1>5

\* In particular steps that add none.
LEMMA FilesKept ==
  ASSUME FileInv, UNCHANGED <<files, nextId>>,
         \A id \in RowIds : /\ rows'[id] = None <=> rows[id] = None
                            /\ rows[id] # None => rows'[id].file = rows[id].file,
         \A r \in Registers :
            /\ register'[r].stage \in Rowless => register[r].stage \in Rowless
            /\ register'[r].stage \in Fileless => register[r].stage \in Fileless
            /\ register'[r].stage = "save" => register[r].stage = "save"
            /\ register[r].stage \in {"save", "leaked"}
                  => register'[r].stage \in {"save", "leaked"},
         \A d \in Deletes : delete'[d].stage \in Claiming =>
            /\ delete[d].stage \in Claiming
            /\ delete'[d].id = delete[d].id /\ delete'[d].file = delete[d].file
            /\ delete'[d].stage \in Gutted => delete[d].stage \in Gutted,
         \A d \in Deletes : delete[d].stage \in Gutted =>
            delete'[d].stage \in Gutted /\ delete'[d].id = delete[d].id,
         Shape
  PROVE  FileInv'
<1>1. {} \in SUBSET Registers /\ files' = files \cup {}
  OBVIOUS
<1> QED
  BY <1>1, FilesGrow DEF Claiming, Gutted, Rowless, Fileless

\* An upload adds the file of a run that has no row yet.
LEMMA UploadKeepsFiles ==
  ASSUME Shape, FileInv, NEW r \in Registers, UploadQr(r)
  PROVE  FileInv'
<1> USE DEF FileInv, Shape, TypeOK, RunsHaveSubjects
<1>1. /\ UNCHANGED <<rows, nextId, delete>> /\ files' = files \cup {r}
      /\ register[r].stage = "upload" /\ register'[r].stage = "save"
      /\ \A s \in Registers \ {r} : register'[s] = register[s]
  BY DEF UploadQr, RegisterRun
<1>2. FileBeforeRow'
  BY <1>1 DEF FileBeforeRow
<1>3. FilesArePrivate'
  <2>1. \A d \in Deletes : delete[d].stage \in Claiming => delete[d].file # r
    BY <1>1 DEF FilesArePrivate, Claiming
  <2> QED
    BY <1>1, <2>1 DEF FilesArePrivate, Claiming
<1>4. DeletedFilesAreGone'
  BY <1>1 DEF DeletedFilesAreGone, FilesArePrivate
<1>5. RowsHaveFiles'
  BY <1>1 DEF RowsHaveFiles
<1>6. FilesHaveRows'
  BY <1>1 DEF FilesHaveRows
<1> QED
  BY <1>2, <1>3, <1>4, <1>5, <1>6

\* An INSERT gives the file of its run a row.
LEMMA SaveKeepsFiles ==
  ASSUME Shape, FileInv, NEW r \in Registers, SaveRow(r)
  PROVE  FileInv'
<1> USE DEF FileInv, Shape, TypeOK, RunsHaveSubjects
<1>1. /\ UNCHANGED <<files, delete>>
      /\ register[r].stage = "save" /\ register'[r].stage = "find"
      /\ \A s \in Registers \ {r} : register'[s] = register[s]
      /\ nextId \in RowIds /\ nextId' = nextId + 1
      /\ \A id \in RowIds \ {nextId} : rows'[id] = rows[id]
  BY DEF SaveRow, RegisterRun
<1>2. rows[nextId] = None /\ rows'[nextId].file = r /\ rows'[nextId] # None
  <2> DEFINE row == [mac |-> register[r].mac, identifier |-> None, file |-> r,
                     lanIp |-> r]
  <2>1. row \in Row /\ row.file = r
    BY <1>1 DEF Row
  <2>2. rows'[nextId] = row
    BY <1>1 DEF SaveRow
  <2>3. row # None
    BY <2>1, NoneAssumption
  <2>4. rows[nextId] = None
    BY <1>1 DEF RowsBelowNext, RowIds
  <2> QED
    BY <2>1, <2>2, <2>3, <2>4
<1>3. r \in files /\ \A id \in RowIds : rows[id] # None => rows[id].file # r
  BY <1>1 DEF FileBeforeRow
<1>4. \A d \in Deletes : delete[d].stage \in Claiming =>
         delete[d].id \in RowIds \ {nextId} /\ delete[d].file # r /\ delete[d].id < nextId'
  BY <1>1 DEF FilesArePrivate, Claiming, RowIds
<1>5. FileBeforeRow'
  BY <1>1, <1>2, <1>3 DEF FileBeforeRow
<1>6. FilesArePrivate'
  <2>1. \A i, j \in RowIds :
          rows'[i] # None /\ rows'[j] # None /\ rows'[i].file = rows'[j].file => i = j
    BY <1>1, <1>2, <1>3 DEF FilesArePrivate
  <2>2. ASSUME NEW d \in Deletes, delete[d].stage \in Claiming
        PROVE  /\ rows'[delete[d].id] # None => rows'[delete[d].id].file = delete[d].file
               /\ \A s \in Registers : delete[d].file = s => register'[s].stage \notin Rowless
               /\ \A id \in RowIds : rows'[id] # None /\ rows'[id].file = delete[d].file =>
                     id = delete[d].id
    <3>1. delete[d].id \in RowIds \ {nextId} /\ delete[d].file # r
      BY <1>4, <2>2
    <3>2. rows'[delete[d].id] = rows[delete[d].id]
      BY <1>1, <3>1
    <3>3. rows'[delete[d].id] # None => rows'[delete[d].id].file = delete[d].file
      BY <2>2, <3>2 DEF FilesArePrivate, Claiming
    <3>4. \A s \in Registers : delete[d].file = s => register'[s].stage \notin Rowless
      BY <1>1, <2>2, <3>1 DEF FilesArePrivate, Claiming, Rowless
    <3>5. \A id \in RowIds : rows'[id] # None /\ rows'[id].file = delete[d].file =>
             id = delete[d].id
      BY <1>1, <1>2, <2>2, <3>1 DEF FilesArePrivate, Claiming
    <3> QED
      BY <3>3, <3>4, <3>5
  <2> QED
    BY <1>1, <1>4, <2>1, <2>2 DEF FilesArePrivate, Claiming, Rowless
<1>7. DeletedFilesAreGone'
  BY <1>1 DEF DeletedFilesAreGone
<1>8. RowsHaveFiles'
  BY <1>1, <1>2, <1>3 DEF RowsHaveFiles
<1>9. FilesHaveRows'
  <2> SUFFICES ASSUME NEW s \in files, s # r
               PROVE  \/ \E id \in RowIds : rows'[id] # None /\ rows'[id].file = s
                      \/ register'[s].stage \in {"save", "leaked"}
    BY <1>1, <1>2 DEF FilesHaveRows
  <2>1. CASE register[s].stage \in {"save", "leaked"}
    BY <1>1, <2>1
  <2>2. CASE \E id \in RowIds : rows[id] # None /\ rows[id].file = s
    BY <1>1, <1>2, <2>2
  <2> QED
    BY <2>1, <2>2 DEF FilesHaveRows
<1> QED
  BY <1>5, <1>6, <1>7, <1>8, <1>9

\* A DELETE that finds its row learns the file of this row.
LEMMA FindKeepsFiles ==
  ASSUME Shape, FileInv, NEW d \in Deletes, DeleteFind(d)
  PROVE  FileInv'
<1> USE DEF FileInv, Shape, TypeOK, RunsHaveSubjects
<1>1. /\ UNCHANGED <<rows, nextId, files, register>>
      /\ delete[d].stage = "find" /\ delete[d].id \in RowIds
      /\ \A e \in Deletes \ {d} : delete'[e] = delete[e]
      /\ delete'[d].id = delete[d].id
      /\ delete'[d].stage \in {"unlink", "notfound"}
  BY DEF DeleteFind, DeleteRun
<1>2. delete'[d].stage = "unlink" =>
         rows[delete[d].id] # None /\ delete'[d].file = rows[delete[d].id].file
  BY DEF DeleteFind, DeleteRun
<1>3. delete'[d].stage = "unlink" =>
         /\ delete[d].id < nextId
         /\ \A r \in Registers : delete'[d].file = r => register[r].stage \notin Rowless
         /\ \A id \in RowIds : rows[id] # None /\ rows[id].file = delete'[d].file =>
               id = delete[d].id
  BY <1>1, <1>2 DEF FileBeforeRow, FilesArePrivate, Rowless, RowsBelowNext, RowIds
<1>4. FilesArePrivate'
  BY <1>1, <1>2, <1>3 DEF FilesArePrivate, Rowless
<1>5. FileBeforeRow' /\ FilesHaveRows'
  BY <1>1 DEF FileBeforeRow, FilesHaveRows
<1>6. DeletedFilesAreGone'
  BY <1>1 DEF DeletedFilesAreGone
<1>7. RowsHaveFiles'
  BY <1>1 DEF RowsHaveFiles
<1> QED
  BY <1>4, <1>5, <1>6, <1>7

\* The storage step removes the file of the row the DELETE is about.
LEMMA UnlinkKeepsFiles ==
  ASSUME Shape, FileInv, NEW d \in Deletes, DeleteFile(d)
  PROVE  FileInv'
<1> USE DEF FileInv, Shape, TypeOK, RunsHaveSubjects
<1>1. /\ UNCHANGED <<rows, nextId, register>> /\ files' = files \ {delete[d].file}
      /\ delete[d].stage = "unlink" /\ delete'[d].stage = "remove"
      /\ delete'[d].id = delete[d].id /\ delete'[d].file = delete[d].file
      /\ \A e \in Deletes \ {d} : delete'[e] = delete[e]
  BY DEF DeleteFile, DeleteRun
<1>2. FilesArePrivate'
  BY <1>1 DEF FilesArePrivate
<1>3. FileBeforeRow'
  <2>1. \A r \in Registers : register[r].stage = "save" => r # delete[d].file
    BY <1>1 DEF FilesArePrivate
  <2> QED
    BY <1>1, <2>1 DEF FileBeforeRow
<1>4. DeletedFilesAreGone'
  BY <1>1 DEF DeletedFilesAreGone
<1>5. RowsHaveFiles'
  <2>1. ASSUME NEW id \in RowIds, rows[id] # None
        PROVE  \/ rows[id].file \in files'
               \/ \E e \in Deletes : delete'[e].id = id /\ delete'[e].stage \in Gutted
    <3>1. CASE rows[id].file = delete[d].file
      BY <1>1, <2>1, <3>1 DEF FilesArePrivate, Gutted
    <3>2. CASE rows[id].file # delete[d].file /\ rows[id].file \in files
      BY <1>1, <3>2
    <3>3. CASE \E e \in Deletes : delete[e].id = id /\ delete[e].stage \in Gutted
      BY <1>1, <3>3 DEF Gutted
    <3> QED
      BY <2>1, <3>1, <3>2, <3>3 DEF RowsHaveFiles, Gutted
  <2> QED
    BY <1>1, <2>1 DEF RowsHaveFiles, Gutted
<1>6. FilesHaveRows'
  BY <1>1 DEF FilesHaveRows
<1> QED
  BY <1>2, <1>3, <1>4, <1>5, <1>6

\* The last step of a DELETE removes a row whose file is gone.
LEMMA RemoveKeepsFiles ==
  ASSUME Shape, FileInv, NEW d \in Deletes, DeleteRow(d)
  PROVE  FileInv'
<1> USE DEF FileInv, Shape, TypeOK, RunsHaveSubjects
<1>1. /\ UNCHANGED <<files, nextId, register>>
      /\ delete[d].stage = "remove" /\ delete'[d].stage = "done"
      /\ delete[d].id \in RowIds /\ delete'[d].id = delete[d].id
      /\ \A e \in Deletes \ {d} : delete'[e] = delete[e]
      /\ \A id \in RowIds : rows'[id] = IF id = delete[d].id THEN None ELSE rows[id]
  BY DEF DeleteRow, DeleteRun
<1>2. \A id \in RowIds : rows'[id] # None => rows'[id] = rows[id] /\ id # delete[d].id
  BY <1>1
<1>3. FilesArePrivate'
  BY <1>1, <1>2 DEF FilesArePrivate
<1>4. FileBeforeRow'
  BY <1>1, <1>2 DEF FileBeforeRow
<1>5. DeletedFilesAreGone'
  BY <1>1 DEF DeletedFilesAreGone
<1>6. RowsHaveFiles'
  BY <1>1, <1>2 DEF RowsHaveFiles
<1>7. FilesHaveRows'
  <2>1. \A id \in RowIds : rows[id] # None /\ rows[id].file \in files => id # delete[d].id
    BY <1>1 DEF FilesArePrivate, DeletedFilesAreGone
  <2>2. \A id \in RowIds : id # delete[d].id => rows'[id] = rows[id]
    BY <1>1
  <2> QED
    BY <1>1, <2>1, <2>2 DEF FilesHaveRows
<1> QED
  BY <1>3, <1>4, <1>5, <1>6, <1>7

LEMMA FileStep == IInv /\ [Next]_vars => FileInv'
<1> SUFFICES ASSUME IInv, [Next]_vars PROVE FileInv'
  OBVIOUS
<1>0. Shape /\ FileInv
  BY DEF IInv
<1> USE <1>0
<1> USE DEF Shape, TypeOK, runVars, obsVars
<1>1. ASSUME NEW r \in Registers,
             \/ \E mac \in Macs : ReceiveRegister(r, mac)
             \/ UpdateMiss(r) \/ FindRow(r) \/ PublishStatus(r) \/ RegisterFails(r)
      PROVE  FileInv'
  <2>1. UNCHANGED <<rows, nextId, files, delete>>
    BY <1>1
       DEF ReceiveRegister, UpdateMiss, FindRow, PublishStatus, RegisterFails
  <2>2. /\ \A s \in Registers \ {r} : register'[s] = register[s]
        /\ \/ register[r].stage = "new" /\ register'[r].stage = "update"
           \/ register[r].stage = "update" /\ register'[r].stage = "upload"
           \/ register[r].stage = "find" /\ register'[r].stage = "answer"
           \/ register[r].stage = "answer" /\ register'[r].stage = "done"
           \/ register[r].stage = "save" /\ register'[r].stage = "leaked"
           \/ register[r].stage \in {"update", "find"} /\ register'[r].stage = "failed"
    <3>1. CASE \E mac \in Macs : ReceiveRegister(r, mac)
      BY <3>1 DEF ReceiveRegister, RegisterRun
    <3>2. CASE UpdateMiss(r) \/ PublishStatus(r)
      BY <3>2 DEF UpdateMiss, PublishStatus, RegisterRun
    <3>3. CASE FindRow(r)
      BY <3>3 DEF FindRow, RegisterRun
    <3>4. CASE RegisterFails(r)
      BY <3>4 DEF RegisterFails, RegisterRun
    <3> QED
      BY <1>1, <3>1, <3>2, <3>3, <3>4
  <2>3. \A s \in Registers :
          /\ register'[s].stage \in Rowless => register[s].stage \in Rowless
          /\ register'[s].stage \in Fileless => register[s].stage \in Fileless
          /\ register'[s].stage = "save" => register[s].stage = "save"
          /\ register[s].stage \in {"save", "leaked"}
                => register'[s].stage \in {"save", "leaked"}
    BY <2>2 DEF Rowless, Fileless
  <2> QED
    BY <2>1, <2>3, FilesKept
<1>h. ASSUME NEW r \in Registers, UpdateHit(r) PROVE FileInv'
  <2>1. \A id \in RowIds : /\ rows'[id] = None <=> rows[id] = None
                           /\ rows[id] # None => rows'[id].file = rows[id].file
    BY <1>h, HitKeepsRows
  <2>2. /\ UNCHANGED <<nextId, files, delete>>
        /\ register[r].stage = "update" /\ register'[r].stage = "find"
        /\ \A s \in Registers \ {r} : register'[s] = register[s]
    BY <1>h DEF UpdateHit, RegisterRun
  <2> QED
    BY <2>1, <2>2, FilesKept DEF Rowless, Fileless
<1>u. ASSUME NEW r \in Registers, UploadFails(r) PROVE FileInv'
  <2>1. /\ UNCHANGED <<rows, nextId, delete>>
        /\ register[r].stage = "upload"
        /\ \A s \in Registers \ {r} : register'[s] = register[s]
        /\ \/ register'[r].stage = "failed" /\ files' = files
           \/ register'[r].stage = "leaked" /\ files' = files \cup {r}
    BY <1>u DEF UploadFails, RegisterRun
  <2>2. CASE register'[r].stage = "failed" /\ files' = files
    BY <2>1, <2>2, FilesKept DEF Rowless, Fileless
  <2>3. CASE register'[r].stage = "leaked" /\ files' = files \cup {r}
    <3>1. {r} \in SUBSET Registers
      OBVIOUS
    <3> QED
      BY <2>1, <2>3, <3>1, FilesGrow DEF Rowless, Fileless
  <2> QED
    BY <2>1, <2>2, <2>3
<1>2. ASSUME NEW p \in Patches,
             \/ \E id \in RowIds, name \in Identifiers : ReceivePatch(p, id, name)
             \/ PatchConflict(p) \/ PatchNothing(p) \/ PatchFind(p) \/ PatchTell(p)
             \/ PatchFails(p)
      PROVE  FileInv'
  <2>1. UNCHANGED <<rows, nextId, files, register, delete>>
    BY <1>2 DEF ReceivePatch, PatchConflict, PatchNothing, PatchFind, PatchTell, PatchFails
  <2> QED
    BY <2>1, FilesKept
<1>3. ASSUME NEW p \in Patches, PatchRow(p) PROVE FileInv'
  <2>1. UNCHANGED <<nextId, files, register, delete>>
    BY <1>3 DEF PatchRow
  <2>2. PICK i \in RowIds :
          /\ rows[i] # None
          /\ rows' = [rows EXCEPT ![i] = [@ EXCEPT !.identifier = patch[p].identifier]]
    BY <1>3 DEF PatchRow, RunsHaveSubjects
  <2>3. patch[p].identifier \in Identifiers
    BY <1>3 DEF PatchRow, RunsHaveSubjects
  <2>4. rows'[i] \in Row /\ rows'[i].file = rows[i].file
    BY <2>2, <2>3 DEF Row
  <2>5. \A id \in RowIds : /\ rows'[id] = None <=> rows[id] = None
                           /\ rows[id] # None => rows'[id].file = rows[id].file
    BY <2>2, <2>4, NoneAssumption
  <2> QED
    BY <2>1, <2>5, FilesKept
<1>4. ASSUME NEW d \in Deletes, (\E id \in RowIds : ReceiveDelete(d, id)) \/ DeleteFails(d)
      PROVE  FileInv'
  <2>1. UNCHANGED <<rows, nextId, files, register>>
    BY <1>4 DEF ReceiveDelete, DeleteFails
  <2>2. /\ \A e \in Deletes \ {d} : delete'[e] = delete[e]
        /\ \/ delete[d].stage = "new" /\ delete'[d].stage = "find"
           \/ /\ delete'[d].id = delete[d].id /\ delete'[d].file = delete[d].file
              /\ \/ delete[d].stage = "remove" /\ delete'[d].stage = "halfway"
                 \/ delete[d].stage \in {"find", "unlink"} /\ delete'[d].stage = "failed"
    <3>1. delete[d] \in DeleteRun /\ delete \in [Deletes -> DeleteRun]
      BY DEF Shape, TypeOK
    <3>2. ASSUME NEW id \in RowIds, ReceiveDelete(d, id)
          PROVE  /\ \A e \in Deletes \ {d} : delete'[e] = delete[e]
                 /\ delete[d].stage = "new" /\ delete'[d].stage = "find"
      BY ONLY <3>1, <3>2 DEF ReceiveDelete, DeleteRun
    <3>3. ASSUME DeleteFails(d)
          PROVE  /\ \A e \in Deletes \ {d} : delete'[e] = delete[e]
                 /\ delete'[d].id = delete[d].id /\ delete'[d].file = delete[d].file
                 /\ \/ delete[d].stage = "remove" /\ delete'[d].stage = "halfway"
                    \/ delete[d].stage \in {"find", "unlink"} /\ delete'[d].stage = "failed"
      BY ONLY <3>1, <3>3 DEF DeleteFails, DeleteRun
    <3> QED
      BY <1>4, <3>2, <3>3
  <2> QED
    BY <2>1, <2>2, FilesKept DEF Claiming, Gutted
<1>5. ASSUME NEW S \in SUBSET Registers, Crash(S) PROVE FileInv'
  <2>1. /\ UNCHANGED <<rows, nextId>> /\ files' = files \cup S
        /\ \A r \in S : register[r].stage = "upload" /\ register'[r].stage = "leaked"
    BY <1>5 DEF Crash, RegisterRun
  <2>2. \A s \in Registers :
          /\ register'[s].stage \in Rowless => register[s].stage \in Rowless
          /\ register'[s].stage \in Fileless => register[s].stage \in Fileless
          /\ register'[s].stage = "save" => register[s].stage = "save"
          /\ register[s].stage \in {"save", "leaked"}
                => register'[s].stage \in {"save", "leaked"}
    BY <1>5 DEF Crash, Rowless, Fileless, RegisterRun
  <2>3. \A d \in Deletes :
          /\ delete'[d].id = delete[d].id /\ delete'[d].file = delete[d].file
          /\ \/ delete'[d].stage = delete[d].stage
             \/ delete[d].stage = "remove" /\ delete'[d].stage = "halfway"
             \/ delete'[d].stage = "failed" /\ delete[d].stage \in {"find", "unlink"}
    BY <1>5 DEF Crash, DeleteRun
  <2>4. \A d \in Deletes : delete'[d].stage \in Claiming =>
          /\ delete[d].stage \in Claiming
          /\ delete'[d].id = delete[d].id /\ delete'[d].file = delete[d].file
          /\ delete'[d].stage \in Gutted => delete[d].stage \in Gutted
    BY <2>3 DEF Claiming, Gutted
  <2>5. \A d \in Deletes : delete[d].stage \in Gutted =>
          delete'[d].stage \in Gutted /\ delete'[d].id = delete[d].id
    BY <2>3 DEF Gutted
  <2>6. Shape /\ FileInv
    BY <1>0
  <2> HIDE DEF Shape
  <2> QED
    BY ONLY <2>1, <2>2, <2>4, <2>5, <2>6, FilesGrow, S \in SUBSET Registers
<1>6. CASE UNCHANGED vars
  BY <1>6, FilesKept DEF vars
<1> QED
  BY <1>1, <1>h, <1>u, <1>2, <1>3, <1>4, <1>5, <1>6,
     UploadKeepsFiles, SaveKeepsFiles, FindKeepsFiles, UnlinkKeepsFiles, RemoveKeepsFiles
     DEF Next, Quiet, RegisterStep, PatchStep, DeleteStep

-----------------------------------------------------------------------------
(***************************************************************************)
(* Unlocking.                                                              *)
(***************************************************************************)
EarnedInv == TellIsEarned /\ UnlockIsEarned

\* Steps that keep what PATCH calls know, forget no name and add no row.
LEMMA EarnedKept ==
  ASSUME Shape, EarnedInv, named \subseteq named', UNCHANGED <<unlocked, patch>>,
         nextId <= nextId', nextId' \in Nat,
         \A id \in RowIds : id < nextId /\ rows'[id] # None
            => rows[id] # None /\ rows'[id].mac = rows[id].mac
  PROVE  EarnedInv'
<1> USE DEF EarnedInv
<1>1. \A p \in Patches : patch[p].stage # "new" => patch[p].id \in RowIds
  BY DEF Shape, RunsHaveSubjects
<1>2. TellIsEarned'
  <2> SUFFICES ASSUME NEW p \in Patches
               PROVE  /\ patch[p].stage = "find" /\ patch[p].affected
                            /\ rows'[patch[p].id] # None
                            => rows'[patch[p].id].mac \in named'
                      /\ patch[p].stage = "find" /\ patch[p].affected => patch[p].id < nextId'
                      /\ patch[p].stage = "tell" /\ patch[p].affected /\ patch[p].mac # None
                            => patch[p].mac \in named'
    BY DEF TellIsEarned
  <2>1. patch[p].stage = "find" /\ patch[p].affected
           => patch[p].id < nextId /\ patch[p].id \in RowIds
    BY <1>1 DEF TellIsEarned
  <2>2. patch[p].id \in RowIds /\ patch[p].id < nextId => patch[p].id < nextId'
    BY BoundAssumption DEF RowIds, Shape, TypeOK
  <2> QED
    BY <2>1, <2>2 DEF TellIsEarned
<1>3. UnlockIsEarned'
  BY DEF UnlockIsEarned
<1> QED
  BY <1>2, <1>3

LEMMA EarnedStep == IInv /\ [Next]_vars => EarnedInv'
<1> SUFFICES ASSUME IInv, [Next]_vars PROVE EarnedInv'
  OBVIOUS
<1>0. Shape /\ EarnedInv
  BY DEF IInv, EarnedInv
<1> USE <1>0
<1>a. nextId \in Nat
  BY BoundAssumption DEF Shape, TypeOK
<1> USE DEF Shape, TypeOK, runVars, obsVars
<1>1. ASSUME UNCHANGED <<rows, nextId, patch, unlocked, named>> PROVE EarnedInv'
  BY <1>1, <1>a, EarnedKept
<1>2. ASSUME NEW r \in Registers,
             \/ \E mac \in Macs : ReceiveRegister(r, mac)
             \/ UpdateMiss(r) \/ UploadQr(r) \/ FindRow(r)
             \/ PublishStatus(r) \/ RegisterFails(r) \/ UploadFails(r)
      PROVE  UNCHANGED <<rows, nextId, patch, unlocked, named>>
  BY <1>2 DEF ReceiveRegister, UpdateMiss, UploadQr, FindRow, PublishStatus,
              RegisterFails, UploadFails
<1>h. ASSUME NEW r \in Registers, UpdateHit(r) PROVE EarnedInv'
  <2>1. \A id \in RowIds : rows'[id] # None => rows[id] # None /\ rows'[id].mac = rows[id].mac
    BY <1>h, HitKeepsRows
  <2>2. UNCHANGED <<nextId, patch, unlocked, named>>
    BY <1>h DEF UpdateHit
  <2> QED
    BY <1>a, <2>1, <2>2, EarnedKept
<1>3. ASSUME NEW r \in Registers, SaveRow(r) PROVE EarnedInv'
  <2>1. /\ UNCHANGED <<patch, unlocked, named>> /\ nextId' = nextId + 1
        /\ \A id \in RowIds \ {nextId} : rows'[id] = rows[id]
    BY <1>3 DEF SaveRow
  <2>2. \A id \in RowIds : id < nextId => id # nextId
    BY <1>a DEF RowIds
  <2> QED
    BY <1>a, <2>1, <2>2, EarnedKept
<1>4. ASSUME NEW d \in Deletes,
             \/ \E id \in RowIds : ReceiveDelete(d, id)
             \/ DeleteFind(d) \/ DeleteFile(d) \/ DeleteFails(d)
      PROVE  UNCHANGED <<rows, nextId, patch, unlocked, named>>
  BY <1>4 DEF ReceiveDelete, DeleteFind, DeleteFile, DeleteFails
<1>5. ASSUME NEW d \in Deletes, DeleteRow(d) PROVE EarnedInv'
  <2>1. /\ UNCHANGED <<nextId, patch, unlocked, named>>
        /\ \A id \in RowIds : rows'[id] # None => rows'[id] = rows[id]
    BY <1>5 DEF DeleteRow
  <2> QED
    BY <1>a, <2>1, EarnedKept
<1>6. ASSUME NEW p \in Patches, PatchRow(p) PROVE EarnedInv'
  <2>1. PICK i \in RowIds : i = patch[p].id
    BY <1>6 DEF PatchRow, RunsHaveSubjects
  <2>2. /\ UNCHANGED <<nextId, unlocked>>
        /\ rows[i] # None /\ i < nextId
        /\ named' = named \cup {rows[i].mac}
        /\ patch'[p].stage = "find" /\ patch'[p].id = i
        /\ \A q \in Patches \ {p} : patch'[q] = patch[q]
    BY <1>6, <1>a, <2>1 DEF PatchRow, PatchRun, RowsBelowNext, RowIds
  <2>3. patch[p].identifier \in Identifiers
    BY <1>6 DEF PatchRow, RunsHaveSubjects
  <2>4. /\ rows'[i].mac = rows[i].mac
        /\ \A id \in RowIds \ {i} : rows'[id] = rows[id]
    BY <1>6, <2>1, <2>2, <2>3 DEF PatchRow, Row
  <2>5. TellIsEarned'
    <3>1. \A q \in Patches : patch[q].stage = "find" => patch[q].id \in RowIds
      BY DEF RunsHaveSubjects
    <3> QED
      BY <2>2, <2>4, <3>1 DEF TellIsEarned, EarnedInv
  <2>6. UnlockIsEarned'
    <3>1. \A q \in Patches : patch[q].stage = "done" => patch'[q] = patch[q]
      BY <1>6, <2>2 DEF PatchRow
    <3> QED
      BY <2>2, <3>1 DEF UnlockIsEarned, EarnedInv
  <2> QED
    BY <2>5, <2>6 DEF EarnedInv
<1>7. ASSUME NEW p \in Patches,
             \/ \E id \in RowIds, name \in Identifiers : ReceivePatch(p, id, name)
             \/ PatchConflict(p) \/ PatchNothing(p) \/ PatchFails(p)
      PROVE  EarnedInv'
  <2>1. /\ UNCHANGED <<rows, nextId, unlocked, named>>
        /\ \A q \in Patches \ {p} : patch'[q] = patch[q]
        /\ patch[p].stage # "done"
        /\ patch'[p].affected = patch[p].affected
        /\ patch'[p].stage \in {"update", "find", "failed"}
        /\ patch'[p].stage = "find" => patch[p].stage = "update"
    <3>1. CASE \E id \in RowIds, name \in Identifiers : ReceivePatch(p, id, name)
      BY <3>1 DEF ReceivePatch, PatchRun
    <3>2. CASE PatchConflict(p)
      BY <3>2 DEF PatchConflict, PatchRun
    <3>3. CASE PatchNothing(p)
      BY <3>3 DEF PatchNothing, PatchRun
    <3>4. CASE PatchFails(p)
      BY <3>4 DEF PatchFails, PatchRun
    <3> QED
      BY <1>7, <3>1, <3>2, <3>3, <3>4
  <2>2. patch[p].stage = "update" => ~patch[p].affected
    BY DEF RunsHaveSubjects
  <2>3. TellIsEarned'
    BY <2>1, <2>2 DEF TellIsEarned, EarnedInv
  <2>4. UnlockIsEarned'
    BY <2>1 DEF UnlockIsEarned, EarnedInv
  <2> QED
    BY <2>3, <2>4 DEF EarnedInv
<1>8. ASSUME NEW p \in Patches, PatchFind(p) PROVE EarnedInv'
  <2>1. PICK i \in RowIds : i = patch[p].id
    BY <1>8 DEF PatchFind, RunsHaveSubjects
  <2>2. /\ UNCHANGED <<rows, nextId, unlocked, named>>
        /\ \A q \in Patches \ {p} : patch'[q] = patch[q]
        /\ patch[p].stage = "find" /\ patch'[p].stage = "tell"
        /\ patch'[p].affected = patch[p].affected
        /\ patch'[p].mac = IF rows[i] = None THEN None ELSE rows[i].mac
    BY <1>8, <2>1 DEF PatchFind, PatchRun
  <2>3. TellIsEarned'
    BY <2>1, <2>2 DEF TellIsEarned, EarnedInv
  <2>4. UnlockIsEarned'
    BY <2>2 DEF UnlockIsEarned, EarnedInv
  <2> QED
    BY <2>3, <2>4 DEF EarnedInv
<1>9. ASSUME NEW p \in Patches, PatchTell(p) PROVE EarnedInv'
  <2>1. /\ UNCHANGED <<rows, nextId, named>>
        /\ \A q \in Patches \ {p} : patch'[q] = patch[q]
        /\ patch[p].stage = "tell" /\ patch'[p].stage = "done"
        /\ patch'[p].affected = patch[p].affected /\ patch'[p].mac = patch[p].mac
        /\ unlocked' \subseteq unlocked \cup {patch[p].mac}
        /\ patch[p].mac = None => unlocked' = unlocked
    BY <1>9 DEF PatchTell, PatchRun
  <2>2. TellIsEarned'
    BY <2>1 DEF TellIsEarned, EarnedInv
  <2>3. UnlockIsEarned'
    <3> SUFFICES ASSUME NEW mac \in unlocked'
                 PROVE  \/ mac \in named'
                        \/ \E q \in Patches : /\ patch'[q].stage = "done"
                                             /\ patch'[q].mac = mac /\ ~patch'[q].affected
      BY DEF UnlockIsEarned
    <3>1. CASE mac \in unlocked
      BY <2>1, <3>1 DEF UnlockIsEarned, EarnedInv
    <3>2. CASE mac = patch[p].mac /\ patch[p].mac # None
      BY <2>1, <3>2 DEF TellIsEarned, EarnedInv
    <3> QED
      BY <2>1, <3>1, <3>2
  <2> QED
    BY <2>2, <2>3 DEF EarnedInv
<1>10. ASSUME NEW S \in SUBSET Registers, Crash(S) PROVE EarnedInv'
  <2>1. /\ UNCHANGED <<rows, nextId, unlocked, named>>
        /\ \A q \in Patches :
              \/ patch'[q] = patch[q]
              \/ patch'[q].stage = "failed" /\ patch[q].stage # "done"
    BY <1>10 DEF Crash, PatchRun
  <2>2. TellIsEarned'
    BY <2>1 DEF TellIsEarned, EarnedInv
  <2>3. UnlockIsEarned'
    BY <2>1 DEF UnlockIsEarned, EarnedInv
  <2> QED
    BY <2>2, <2>3 DEF EarnedInv
<1>11. CASE UNCHANGED vars
  BY <1>1, <1>11 DEF vars
<1> QED
  BY <1>1, <1>2, <1>h, <1>3, <1>4, <1>5, <1>6, <1>7, <1>8, <1>9, <1>10, <1>11
     DEF Next, Quiet, RegisterStep, PatchStep, DeleteStep

-----------------------------------------------------------------------------
(***************************************************************************)
(* The theorems.                                                           *)
(***************************************************************************)
LEMMA IInvInit == Init => IInv
<1> SUFFICES ASSUME Init PROVE IInv
  OBVIOUS
<1>1. Shape
  BY ShapeInit
<1>2. /\ \A id \in RowIds : rows[id] = None
      /\ files = {} /\ unlocked = {}
      /\ \A r \in Registers : register[r].stage = "new"
      /\ \A p \in Patches : patch[p].stage = "new"
      /\ \A d \in Deletes : delete[d].stage = "new"
  BY DEF Init
<1>3. OneRowPerPrinter /\ GapIsAlone
  BY <1>2 DEF OneRowPerPrinter, GapIsAlone, RowsOf, InGap
<1>4. FileInv
  BY <1>2 DEF FileInv, FileBeforeRow, FilesArePrivate, DeletedFilesAreGone,
              RowsHaveFiles, FilesHaveRows
<1>5. TellIsEarned /\ UnlockIsEarned
  BY <1>2 DEF TellIsEarned, UnlockIsEarned
<1> QED
  BY <1>1, <1>3, <1>4, <1>5 DEF IInv

LEMMA IInvStep == IInv /\ [Next]_vars => IInv'
<1> SUFFICES ASSUME IInv, [Next]_vars PROVE IInv'
  OBVIOUS
<1>1. Shape'
  BY ShapeStep DEF IInv
<1> QED
  BY <1>1, OneRowStep, FileStep, EarnedStep DEF IInv, EarnedInv

\* IInv is an invariant of the registration service.
LEMMA IInvAlways == Spec => []IInv
  BY IInvInit, IInvStep, PTL DEF Spec

(***************************************************************************)
(* However registrations, PATCH and DELETE calls overlap, fail or crash, a *)
(* printer has one row unless two runs missed its row together.            *)
(***************************************************************************)
THEOREM RegisteredOnce == Spec => []OneRowPerPrinter
<1>1. IInv => OneRowPerPrinter
  BY DEF IInv
<1> QED
  BY <1>1, IInvAlways, PTL

(***************************************************************************)
(* Every row has its QR code, but for a DELETE under way or broken off.    *)
(***************************************************************************)
THEOREM RowsKeepTheirFiles == Spec => []RowsHaveFiles
<1>1. IInv => RowsHaveFiles
  BY DEF IInv, FileInv
<1> QED
  BY <1>1, IInvAlways, PTL

(***************************************************************************)
(* No QR code is left behind, but by a register run that stopped between   *)
(* its upload and its INSERT.                                              *)
(***************************************************************************)
THEOREM NoFileIsOrphaned == Spec => []FilesHaveRows
<1>1. IInv => FilesHaveRows
  BY DEF IInv, FileInv
<1> QED
  BY <1>1, IInvAlways, PTL

(***************************************************************************)
(* No printer is unlocked for good without its row having been named, but  *)
(* by a PATCH whose UPDATE missed the row that its SELECT found.           *)
(***************************************************************************)
THEOREM UnlockedWithCause == Spec => []UnlockIsEarned
<1>1. IInv => UnlockIsEarned
  BY DEF IInv
<1> QED
  BY <1>1, IInvAlways, PTL

=============================================================================

------------------------ MODULE PrinterPromiseProofs ------------------------
(***************************************************************************)
(* What PrinterRegistration promises to printers and callers, on top of    *)
(* its inductive invariant: a PATCH that was answered has unlocked the     *)
(* printer, the QR code leads to the last address, the last status the     *)
(* printer was told is that of its row, and to the callers of DELETE the   *)
(* service is the catalogue of RecordCatalog.                              *)
(***************************************************************************)
EXTENDS PrinterRegistrationProofs

-----------------------------------------------------------------------------
(***************************************************************************)
(* Unlocking.                                                              *)
(***************************************************************************)

\* What a PATCH whose UPDATE affected a row knows of this row while it exists.
UnlockInv ==
    \A p \in Patches : patch[p].affected =>
        /\ patch[p].id \in RowIds
        /\ patch[p].id < nextId
        /\ rows[patch[p].id] # None =>
             /\ patch[p].stage = "find" => rows[patch[p].id].identifier # None
             /\ patch[p].stage = "tell" => rows[patch[p].id].mac = patch[p].mac
             /\ patch[p].stage = "done" => rows[patch[p].id].mac \in unlocked

\* A row may vanish or get a name; its printer stays the same, and so does a
\* name, up to another name.
OldRowsStay ==
    /\ nextId <= nextId' /\ nextId \in Nat /\ nextId' \in Nat
    /\ \A id \in RowIds : id < nextId /\ rows'[id] # None =>
         /\ rows[id] # None
         /\ rows'[id].mac = rows[id].mac
         /\ rows[id].identifier # None => rows'[id].identifier # None

LEMMA OldRows == Shape /\ [Next]_vars => OldRowsStay
<1> SUFFICES ASSUME Shape, [Next]_vars PROVE OldRowsStay
  OBVIOUS
<1>0. nextId \in Nat
  BY BoundAssumption DEF Shape, TypeOK
<1>1. ASSUME UNCHANGED <<rows, nextId>> PROVE OldRowsStay
  BY <1>0, <1>1 DEF OldRowsStay
<1> USE DEF Shape, TypeOK, runVars, obsVars
<1>2. ASSUME NEW r \in Registers, UpdateHit(r) PROVE OldRowsStay
  <2>1. UNCHANGED nextId
    BY <1>2 DEF UpdateHit
  <2>2. \A id \in RowIds : rows'[id] = None <=> rows[id] = None
    BY <1>2, HitKeepsRows
  <2>3. \A id \in RowIds : rows[id] # None =>
           rows'[id].mac = rows[id].mac /\ rows'[id].identifier = rows[id].identifier
    BY <1>2, HitKeepsRows
  <2> QED
    BY <1>0, <2>1, <2>2, <2>3 DEF OldRowsStay
<1>3. ASSUME NEW r \in Registers, SaveRow(r) PROVE OldRowsStay
  <2>1. nextId' = nextId + 1 /\ \A id \in RowIds \ {nextId} : rows'[id] = rows[id]
    BY <1>3 DEF SaveRow
  <2>2. \A id \in RowIds : id < nextId => id # nextId
    BY <1>0 DEF RowIds
  <2> QED
    BY <1>0, <2>1, <2>2 DEF OldRowsStay
<1>4. ASSUME NEW p \in Patches, PatchRow(p) PROVE OldRowsStay
  <2>1. PICK i \in RowIds : i = patch[p].id
    BY <1>4 DEF PatchRow, RunsHaveSubjects
  <2>2. PICK name \in Identifiers : name = patch[p].identifier
    BY <1>4 DEF PatchRow, RunsHaveSubjects
  <2>3. /\ UNCHANGED nextId /\ rows[i] # None
        /\ rows' = [rows EXCEPT ![i] = [@ EXCEPT !.identifier = name]]
    BY <1>4, <2>1, <2>2 DEF PatchRow
  <2>4. rows'[i].mac = rows[i].mac /\ rows'[i].identifier # None
    BY <2>3, NoneAssumption DEF Row
  <2> QED
    BY <1>0, <2>3, <2>4 DEF OldRowsStay
<1>5. ASSUME NEW d \in Deletes, DeleteRow(d) PROVE OldRowsStay
  <2>1. /\ UNCHANGED nextId
        /\ \A id \in RowIds : rows'[id] # None => rows'[id] = rows[id]
    BY <1>5 DEF DeleteRow
  <2> QED
    BY <1>0, <2>1 DEF OldRowsStay
<1>6. ASSUME NEW r \in Registers,
             \/ \E mac \in Macs : ReceiveRegister(r, mac)
             \/ UpdateMiss(r) \/ UploadQr(r) \/ FindRow(r)
             \/ PublishStatus(r) \/ RegisterFails(r) \/ UploadFails(r)
      PROVE  UNCHANGED <<rows, nextId>>
  BY <1>6 DEF ReceiveRegister, UpdateMiss, UploadQr, FindRow, PublishStatus,
              RegisterFails, UploadFails
<1>7. ASSUME NEW p \in Patches,
             \/ \E id \in RowIds, name \in Identifiers : ReceivePatch(p, id, name)
             \/ PatchConflict(p) \/ PatchNothing(p) \/ PatchFind(p) \/ PatchTell(p)
             \/ PatchFails(p)
      PROVE  UNCHANGED <<rows, nextId>>
  BY <1>7 DEF ReceivePatch, PatchConflict, PatchNothing, PatchFind, PatchTell, PatchFails
<1>8. ASSUME NEW d \in Deletes,
             \/ \E id \in RowIds : ReceiveDelete(d, id)
             \/ DeleteFind(d) \/ DeleteFile(d) \/ DeleteFails(d)
      PROVE  UNCHANGED <<rows, nextId>>
  BY <1>8 DEF ReceiveDelete, DeleteFind, DeleteFile, DeleteFails
<1>9. ASSUME NEW S \in SUBSET Registers, Crash(S) PROVE UNCHANGED <<rows, nextId>>
  BY <1>9 DEF Crash
<1>10. CASE UNCHANGED vars
  BY <1>1, <1>10 DEF vars
<1> QED
  BY <1>1, <1>2, <1>3, <1>4, <1>5, <1>6, <1>7, <1>8, <1>9, <1>10
     DEF Next, Quiet, RegisterStep, PatchStep, DeleteStep

LEMMA UnlockInit == Init => UnlockInv
  BY DEF Init, UnlockInv

\* What one PATCH knows stays true while others run.
LEMMA UnlockKept ==
  ASSUME UnlockInv, OldRowsStay, unlocked \subseteq unlocked',
         NEW p \in Patches, patch'[p] = patch[p]
  PROVE  patch'[p].affected =>
            /\ patch'[p].id \in RowIds
            /\ patch'[p].id < nextId'
            /\ rows'[patch'[p].id] # None =>
                 /\ patch'[p].stage = "find" => rows'[patch'[p].id].identifier # None
                 /\ patch'[p].stage = "tell" => rows'[patch'[p].id].mac = patch'[p].mac
                 /\ patch'[p].stage = "done" => rows'[patch'[p].id].mac \in unlocked'
<1> SUFFICES ASSUME patch[p].affected
             PROVE  /\ patch[p].id \in RowIds
                    /\ patch[p].id < nextId'
                    /\ rows'[patch[p].id] # None =>
                         /\ patch[p].stage = "find" => rows'[patch[p].id].identifier # None
                         /\ patch[p].stage = "tell" => rows'[patch[p].id].mac = patch[p].mac
                         /\ patch[p].stage = "done" => rows'[patch[p].id].mac \in unlocked'
  OBVIOUS
<1>1. PICK i \in RowIds : i = patch[p].id
  BY DEF UnlockInv
<1>2. i < nextId /\ i \in Nat
  BY <1>1 DEF UnlockInv, RowIds
<1>3. i < nextId'
  BY <1>2 DEF OldRowsStay
<1> QED
  BY <1>1, <1>2, <1>3 DEF UnlockInv, OldRowsStay

LEMMA UnlockStep == Shape /\ UnlockInv /\ [Next]_vars => UnlockInv'
<1> SUFFICES ASSUME Shape, UnlockInv, [Next]_vars PROVE UnlockInv'
  OBVIOUS
<1>0. OldRowsStay
  BY OldRows
<1>1. ASSUME UNCHANGED <<patch, unlocked>> PROVE UnlockInv'
  BY <1>0, <1>1, UnlockKept DEF UnlockInv
<1> USE DEF Shape, TypeOK, runVars, obsVars
<1>2. ASSUME NEW r \in Registers,
             \/ \E mac \in Macs : ReceiveRegister(r, mac)
             \/ RegisterStep(r) \/ RegisterFails(r) \/ UploadFails(r)
      PROVE  UNCHANGED <<patch, unlocked>>
  BY <1>2 DEF RegisterStep, ReceiveRegister, UpdateHit, UpdateMiss, UploadQr, SaveRow,
              FindRow, PublishStatus, RegisterFails, UploadFails
<1>3. ASSUME NEW d \in Deletes,
             \/ \E id \in RowIds : ReceiveDelete(d, id)
             \/ DeleteStep(d) \/ DeleteFails(d)
      PROVE  UNCHANGED <<patch, unlocked>>
  BY <1>3 DEF DeleteStep, ReceiveDelete, DeleteFind, DeleteFile, DeleteRow, DeleteFails
<1>4. ASSUME NEW p \in Patches,
             \/ \E id \in RowIds, name \in Identifiers : ReceivePatch(p, id, name)
             \/ PatchConflict(p) \/ PatchNothing(p) \/ PatchFails(p)
      PROVE  UnlockInv'
  <2>1. /\ UNCHANGED <<rows, nextId, unlocked>>
        /\ \A q \in Patches \ {p} : patch'[q] = patch[q]
        /\ patch'[p].affected = patch[p].affected
        /\ patch[p].stage \in {"new", "update"} \/ patch'[p].stage = "failed"
        /\ patch[p].stage # "new" => patch'[p].id = patch[p].id
    <3>1. CASE \E id \in RowIds, name \in Identifiers : ReceivePatch(p, id, name)
      BY <3>1 DEF ReceivePatch, PatchRun
    <3>2. CASE PatchConflict(p)
      BY <3>2 DEF PatchConflict, PatchRun
    <3>3. CASE PatchNothing(p)
      BY <3>3 DEF PatchNothing, PatchRun
    <3>4. CASE PatchFails(p)
      BY <3>4 DEF PatchFails, PatchRun
    <3> QED
      BY <1>4, <3>1, <3>2, <3>3, <3>4
  <2>2. patch'[p].affected => patch'[p].stage = "failed" /\ patch[p].stage # "new"
    BY <2>1 DEF RunsHaveSubjects
  <2> QED
    BY <2>1, <2>2 DEF UnlockInv
<1>5. ASSUME NEW p \in Patches, PatchRow(p) PROVE UnlockInv'
  <2>1. PICK i \in RowIds : i = patch[p].id
    BY <1>5 DEF PatchRow, RunsHaveSubjects
  <2>2. PICK name \in Identifiers : name = patch[p].identifier
    BY <1>5 DEF PatchRow, RunsHaveSubjects
  <2>3. /\ UNCHANGED <<nextId, unlocked>>
        /\ rows[i] # None
        /\ rows' = [rows EXCEPT ![i] = [@ EXCEPT !.identifier = name]]
        /\ patch'[p].stage = "find" /\ patch'[p].id = i
        /\ \A q \in Patches \ {p} : patch'[q] = patch[q]
    BY <1>5, <2>1, <2>2 DEF PatchRow, PatchRun
  <2>4. rows'[i].identifier # None
    BY <2>3, NoneAssumption DEF Row
  <2>5. i < nextId'
    <3>1. i \in Nat /\ nextId \in Nat
      BY <1>0 DEF RowIds, OldRowsStay
    <3> QED
      BY <2>3, <3>1 DEF RowsBelowNext
  <2>6. \A q \in Patches \ {p} : patch'[q].affected =>
            /\ patch'[q].id \in RowIds
            /\ patch'[q].id < nextId'
            /\ rows'[patch'[q].id] # None =>
                 /\ patch'[q].stage = "find" => rows'[patch'[q].id].identifier # None
                 /\ patch'[q].stage = "tell" => rows'[patch'[q].id].mac = patch'[q].mac
                 /\ patch'[q].stage = "done" => rows'[patch'[q].id].mac \in unlocked'
    BY <1>0, <2>3, UnlockKept
  <2> QED
    BY <2>3, <2>4, <2>5, <2>6 DEF UnlockInv
<1>6. ASSUME NEW p \in Patches, PatchFind(p) PROVE UnlockInv'
  <2>1. /\ UNCHANGED <<rows, nextId, unlocked>>
        /\ \A q \in Patches \ {p} : patch'[q] = patch[q]
        /\ patch'[p].affected = patch[p].affected /\ patch'[p].id = patch[p].id
        /\ patch'[p].stage = "tell"
        /\ rows[patch[p].id] # None => patch'[p].mac = rows[patch[p].id].mac
    BY <1>6 DEF PatchFind, PatchRun
  <2> QED
    BY <2>1 DEF UnlockInv
<1>7. ASSUME NEW p \in Patches, PatchTell(p) PROVE UnlockInv'
  <2>1. /\ UNCHANGED <<rows, nextId>>
        /\ \A q \in Patches \ {p} : patch'[q] = patch[q]
        /\ patch'[p].affected = patch[p].affected /\ patch'[p].id = patch[p].id
        /\ patch[p].stage = "tell" /\ patch'[p].stage = "done"
        /\ unlocked \subseteq unlocked'
        /\ patch[p].mac # None => patch[p].mac \in unlocked'
    BY <1>7 DEF PatchTell, PatchRun
  <2>2. \A id \in RowIds : rows[id] # None => rows[id].mac # None
    BY NoneAssumption DEF Row
  <2> QED
    BY <2>1, <2>2 DEF UnlockInv
<1>8. ASSUME NEW S \in SUBSET Registers, Crash(S) PROVE UnlockInv'
  <2>1. /\ UNCHANGED <<rows, nextId, unlocked>>
        /\ \A q \in Patches :
              \/ patch'[q] = patch[q]
              \/ /\ patch'[q].stage = "failed"
                 /\ patch'[q].affected = patch[q].affected /\ patch'[q].id = patch[q].id
    BY <1>8 DEF Crash, PatchRun
  <2> QED
    BY <2>1 DEF UnlockInv
<1>9. CASE UNCHANGED vars
  BY <1>1, <1>9 DEF vars
<1> QED
  BY <1>1, <1>2, <1>3, <1>4, <1>5, <1>6, <1>7, <1>8, <1>9 DEF Next, Quiet, PatchStep

(***************************************************************************)
(* A PATCH that was answered with affected rows has unlocked the printer,  *)
(* whatever DELETE, PATCH or register runs it overlapped.                  *)
(***************************************************************************)
THEOREM PatchUnlocks == Spec => []NamedIsUnlocked
<1>1. Init => Shape /\ UnlockInv
  BY ShapeInit, UnlockInit
<1>2. Shape /\ UnlockInv /\ [Next]_vars => Shape' /\ UnlockInv'
  BY ShapeStep, UnlockStep
<1>3. UnlockInv => NamedIsUnlocked
  BY DEF UnlockInv, NamedIsUnlocked
<1> QED
  BY <1>1, <1>2, <1>3, PTL DEF Spec

-----------------------------------------------------------------------------
(***************************************************************************)
(* Addresses.                                                              *)
(***************************************************************************)
Stored == {"find", "answer", "done"}

\* Unless messages of a printer overlap, the one that has not been stored is
\* the last one, and once it has been, all rows have its address.
AddressInv ==
    \A mac \in Macs \ overlapped :
        /\ mac \notin raced
        /\ newest[mac] # None => /\ register[newest[mac]].mac = mac
                                 /\ register[newest[mac]].stage # "new"
        /\ \A r \in Registers : register[r].mac = mac /\ Storing(r) => r = newest[mac]
        /\ newest[mac] # None /\ register[newest[mac]].stage \in Stored
            => \A id \in RowsOf(mac) : rows[id].lanIp = newest[mac]

LEMMA AddressInit == Init => AddressInv
<1> SUFFICES ASSUME Init, NEW mac \in Macs
             PROVE  /\ mac \notin raced
                    /\ newest[mac] = None
                    /\ \A r \in Registers : ~Storing(r)
  BY DEF AddressInv
<1> QED
  BY DEF Init, Storing

\* Steps that store no address leave the rows, the last message and those
\* that are being stored as they are, or forget them.
LEMMA AddressKept ==
  ASSUME Shape, AddressInv, overlapped \subseteq overlapped',
         \A mac \in Macs \ overlapped' : mac \notin raced',
         newest' = newest,
         \A r \in Registers :
            /\ register'[r].mac = register[r].mac
            /\ register'[r].stage = "new" => register[r].stage = "new"
            /\ Storing(r)' => Storing(r)
            /\ register'[r].stage \in Stored => register[r].stage \in Stored,
         \A id \in RowIds : rows'[id] # None =>
            /\ rows[id] # None
            /\ rows'[id].mac = rows[id].mac
            /\ rows'[id].lanIp = rows[id].lanIp
  PROVE  AddressInv'
<1> SUFFICES ASSUME NEW mac \in Macs, mac \notin overlapped'
             PROVE  /\ mac \notin raced'
                    /\ newest'[mac] # None => /\ register'[newest'[mac]].mac = mac
                                              /\ register'[newest'[mac]].stage # "new"
                    /\ \A r \in Registers :
                          register'[r].mac = mac /\ Storing(r)' => r = newest'[mac]
                    /\ newest'[mac] # None /\ register'[newest'[mac]].stage \in Stored
                          => \A id \in RowsOf(mac)' : rows'[id].lanIp = newest'[mac]
  BY DEF AddressInv
<1>1. mac \notin overlapped
  OBVIOUS
<1>2. newest[mac] # None => newest[mac] \in Registers
  BY DEF Shape, TypeOK
<1>3. \A id \in RowsOf(mac)' : id \in RowsOf(mac) /\ rows'[id].lanIp = rows[id].lanIp
  BY DEF RowsOf
<1> QED
  BY <1>1, <1>2, <1>3 DEF AddressInv

LEMMA ReceiveKeepsAddress ==
  ASSUME IInv, AddressInv, NEW r \in Registers, NEW m \in Macs, ReceiveRegister(r, m)
  PROVE  AddressInv'
<1> USE DEF IInv, Shape, TypeOK
<1>1. /\ register[r].stage = "new"
      /\ register'[r].stage = "update" /\ register'[r].mac = m
      /\ \A s \in Registers \ {r} : register'[s] = register[s]
      /\ newest'[m] = r
      /\ \A mac \in Macs \ {m} : newest'[mac] = newest[mac]
      /\ UNCHANGED <<rows, raced>>
      /\ overlapped \subseteq overlapped'
      /\ m \in overlapped' \/ \A s \in Registers : ~(register[s].mac = m /\ Storing(s))
  BY DEF ReceiveRegister, RegisterRun
<1>2. \A s \in Registers \ {r} : Storing(s)' <=> Storing(s)
  BY <1>1 DEF Storing
<1> SUFFICES ASSUME NEW mac \in Macs, mac \notin overlapped'
             PROVE  /\ mac \notin raced'
                    /\ newest'[mac] # None => /\ register'[newest'[mac]].mac = mac
                                              /\ register'[newest'[mac]].stage # "new"
                    /\ \A s \in Registers :
                          register'[s].mac = mac /\ Storing(s)' => s = newest'[mac]
                    /\ newest'[mac] # None /\ register'[newest'[mac]].stage \in Stored
                          => \A id \in RowsOf(mac)' : rows'[id].lanIp = newest'[mac]
  BY DEF AddressInv
<1>3. mac \notin overlapped /\ RowsOf(mac)' = RowsOf(mac)
  BY <1>1 DEF RowsOf
<1>4. CASE mac = m
  BY <1>1, <1>2, <1>3, <1>4 DEF AddressInv, Stored
<1>5. CASE mac # m
  <2>1. newest[mac] # None => newest[mac] \in Registers
    OBVIOUS
  <2>2. newest[mac] # r
    BY <1>1, <1>3, NoneAssumption DEF AddressInv
  <2> QED
    BY <1>1, <1>2, <1>3, <1>5, <2>1, <2>2 DEF AddressInv
<1> QED
  BY <1>4, <1>5

LEMMA HitKeepsAddress ==
  ASSUME IInv, AddressInv, NEW r \in Registers, UpdateHit(r)
  PROVE  AddressInv'
<1> USE DEF IInv, Shape, TypeOK
<1> DEFINE m == register[r].mac
<1>1. /\ register[r].stage = "update" /\ register'[r].stage = "find"
      /\ register'[r].mac = m
      /\ \A s \in Registers \ {r} : register'[s] = register[s]
      /\ UNCHANGED <<newest, raced, overlapped>>
  BY DEF UpdateHit, RegisterRun, obsVars
<1>2. m \in Macs /\ Storing(r) /\ ~Storing(r)'
  BY <1>1 DEF RunsHaveSubjects, Storing
<1>3. \A s \in Registers \ {r} : Storing(s)' <=> Storing(s)
  BY <1>1 DEF Storing
<1>4. \A id \in RowIds : rows'[id] # None => rows[id] # None /\ rows'[id].mac = rows[id].mac
  BY HitKeepsRows
<1>5. \A id \in RowIds : rows[id] # None /\ rows[id].mac # m => rows'[id] = rows[id]
  BY DEF UpdateHit, RowsOf
<1>6. \A id \in RowIds : rows[id] # None /\ rows[id].mac = m => rows'[id].lanIp = r
  <2> SUFFICES ASSUME NEW id \in RowIds, rows[id] # None, rows[id].mac = m
               PROVE  rows'[id].lanIp = r
    OBVIOUS
  <2>1. rows'[id] = [rows[id] EXCEPT !.lanIp = r] /\ rows[id] \in Row
    BY DEF UpdateHit, RowsOf
  <2> QED
    BY <2>1 DEF Row
<1> HIDE DEF m
<1> SUFFICES ASSUME NEW mac \in Macs, mac \notin overlapped'
             PROVE  /\ mac \notin raced'
                    /\ newest'[mac] # None => /\ register'[newest'[mac]].mac = mac
                                              /\ register'[newest'[mac]].stage # "new"
                    /\ \A s \in Registers :
                          register'[s].mac = mac /\ Storing(s)' => s = newest'[mac]
                    /\ newest'[mac] # None /\ register'[newest'[mac]].stage \in Stored
                          => \A id \in RowsOf(mac)' : rows'[id].lanIp = newest'[mac]
  BY DEF AddressInv
<1>7. mac \notin overlapped /\ (newest[mac] # None => newest[mac] \in Registers)
  BY <1>1
<1>8. CASE mac = m
  <2>1. newest[mac] = r
    BY <1>1, <1>2, <1>7, <1>8 DEF AddressInv, m
  <2>2. \A id \in RowsOf(mac)' : rows'[id].lanIp = r
    BY <1>4, <1>6, <1>8 DEF RowsOf
  <2> QED
    BY <1>1, <1>2, <1>3, <1>7, <1>8, <2>1, <2>2 DEF AddressInv
<1>9. CASE mac # m
  <2>1. newest[mac] # r
    BY <1>1, <1>7, <1>9, NoneAssumption DEF AddressInv, m
  <2>2. \A id \in RowsOf(mac)' : id \in RowsOf(mac) /\ rows'[id] = rows[id]
    BY <1>4, <1>5, <1>9 DEF RowsOf
  <2> QED
    BY <1>1, <1>2, <1>3, <1>7, <1>9, <2>1, <2>2 DEF AddressInv
<1> QED
  BY <1>8, <1>9

LEMMA SaveKeepsAddress ==
  ASSUME IInv, AddressInv, NEW r \in Registers, SaveRow(r)
  PROVE  AddressInv'
<1> USE DEF IInv, Shape, TypeOK
<1>1. PICK m \in Macs, n \in RowIds : m = register[r].mac /\ n = nextId
  BY DEF SaveRow, RunsHaveSubjects
<1>2. /\ register[r].stage = "save" /\ register'[r].stage = "find"
      /\ register'[r].mac = m
      /\ \A s \in Registers \ {r} : register'[s] = register[s]
      /\ UNCHANGED <<newest, raced, overlapped>>
  BY <1>1 DEF SaveRow, RegisterRun
<1>3. Storing(r) /\ ~Storing(r)' /\ \A s \in Registers \ {r} : Storing(s)' <=> Storing(s)
  BY <1>2 DEF Storing
<1>4. /\ rows' = [rows EXCEPT ![n] = [mac |-> m, identifier |-> None, file |-> r, lanIp |-> r]]
  BY <1>1 DEF SaveRow
<1>5. /\ \A id \in RowIds \ {n} : rows'[id] = rows[id]
      /\ rows'[n].mac = m /\ rows'[n].lanIp = r
  BY <1>4
<1> SUFFICES ASSUME NEW mac \in Macs, mac \notin overlapped'
             PROVE  /\ mac \notin raced'
                    /\ newest'[mac] # None => /\ register'[newest'[mac]].mac = mac
                                              /\ register'[newest'[mac]].stage # "new"
                    /\ \A s \in Registers :
                          register'[s].mac = mac /\ Storing(s)' => s = newest'[mac]
                    /\ newest'[mac] # None /\ register'[newest'[mac]].stage \in Stored
                          => \A id \in RowsOf(mac)' : rows'[id].lanIp = newest'[mac]
  BY DEF AddressInv
<1>6. mac \notin overlapped /\ (newest[mac] # None => newest[mac] \in Registers)
  BY <1>2
<1>7. CASE mac = m
  <2>1. newest[mac] = r /\ mac \notin raced
    BY <1>1, <1>3, <1>6, <1>7 DEF AddressInv
  <2>2. RowsOf(mac) = {}
    BY <1>1, <1>2, <1>7, <2>1 DEF GapIsAlone, InGap
  <2>3. \A id \in RowsOf(mac)' : rows'[id].lanIp = r
    BY <1>5, <2>2 DEF RowsOf
  <2> QED
    BY <1>2, <1>3, <1>6, <1>7, <2>1, <2>3 DEF AddressInv
<1>8. CASE mac # m
  <2>1. newest[mac] # r
    BY <1>1, <1>6, <1>8, NoneAssumption DEF AddressInv
  <2>2. \A id \in RowsOf(mac)' : id \in RowsOf(mac) /\ rows'[id] = rows[id]
    BY <1>5, <1>8 DEF RowsOf
  <2> QED
    BY <1>2, <1>3, <1>6, <1>8, <2>1, <2>2 DEF AddressInv
<1> QED
  BY <1>7, <1>8

\* A run that misses the row together with another one overlaps it.
LEMMA MissKeepsAddress ==
  ASSUME IInv, AddressInv, NEW r \in Registers, UpdateMiss(r)
  PROVE  AddressInv'
<1> USE DEF IInv, Shape, TypeOK
<1>1. /\ register[r].stage = "update" /\ register'[r].stage = "upload"
      /\ register'[r].mac = register[r].mac
      /\ \A s \in Registers \ {r} : register'[s] = register[s]
      /\ raced' = raced \cup Racing(register[r].mac)
      /\ UNCHANGED <<rows, newest, overlapped>>
  BY DEF UpdateMiss, RegisterRun
<1>2. \A s \in Registers : /\ register'[s].mac = register[s].mac
                           /\ register'[s].stage = "new" => register[s].stage = "new"
                           /\ Storing(s)' => Storing(s)
                           /\ register'[s].stage \in Stored => register[s].stage \in Stored
  BY <1>1 DEF Storing, Stored
<1>3. ASSUME NEW mac \in Macs \ overlapped' PROVE mac \notin raced'
  <2>1. SUFFICES ASSUME mac \in Racing(register[r].mac) PROVE FALSE
    BY <1>1, <1>3 DEF AddressInv
  <2>2. PICK s \in Registers : InGap(s) /\ register[s].mac = register[r].mac
    BY <2>1 DEF Racing
  <2>3. mac = register[r].mac
    BY <2>1 DEF Racing
  <2>4. s # r /\ Storing(s) /\ Storing(r)
    BY <1>1, <2>2 DEF InGap, Storing
  <2> QED
    BY <1>1, <1>3, <2>2, <2>3, <2>4 DEF AddressInv
<1> QED
  BY <1>1, <1>2, <1>3, AddressKept

LEMMA AddressStep == IInv /\ AddressInv /\ [Next]_vars => AddressInv'
<1> SUFFICES ASSUME IInv, AddressInv, [Next]_vars PROVE AddressInv'
  OBVIOUS
<1>0. Shape /\ \A mac \in Macs \ overlapped : mac \notin raced
  BY DEF IInv, AddressInv
<1> USE DEF IInv, Shape, TypeOK, runVars, obsVars
<1>1. ASSUME NEW r \in Registers,
             \/ UploadQr(r) \/ FindRow(r) \/ PublishStatus(r)
             \/ RegisterFails(r) \/ UploadFails(r)
      PROVE  AddressInv'
  <2>1. UNCHANGED <<rows, newest, raced, overlapped>>
    BY <1>1 DEF UploadQr, FindRow, PublishStatus, RegisterFails, UploadFails
  <2>2. /\ \A s \in Registers \ {r} : register'[s] = register[s]
        /\ register'[r].mac = register[r].mac
        /\ \/ register[r].stage = "upload" /\ register'[r].stage = "save"
           \/ register[r].stage \in Stored /\ register'[r].stage \in Stored
           \/ register'[r].stage \in {"failed", "leaked"}
    <3>1. CASE UploadQr(r)
      BY <3>1 DEF UploadQr, RegisterRun
    <3>2. CASE FindRow(r)
      BY <3>2 DEF FindRow, RegisterRun, Stored
    <3>3. CASE PublishStatus(r)
      BY <3>3 DEF PublishStatus, RegisterRun, Stored
    <3>4. CASE RegisterFails(r)
      BY <3>4 DEF RegisterFails, RegisterRun
    <3>5. CASE UploadFails(r)
      BY <3>5 DEF UploadFails, RegisterRun
    <3> QED
      BY <1>1, <3>1, <3>2, <3>3, <3>4, <3>5
  <2>3. \A s \in Registers : /\ register'[s].mac = register[s].mac
                             /\ register'[s].stage = "new" => register[s].stage = "new"
                             /\ Storing(s)' => Storing(s)
                             /\ register'[s].stage \in Stored => register[s].stage \in Stored
    BY <2>2 DEF Storing, Stored
  <2> QED
    BY <1>0, <2>1, <2>3, AddressKept
<1>2. ASSUME UNCHANGED <<register, newest, raced, overlapped>>,
             \A id \in RowIds : rows'[id] # None =>
                /\ rows[id] # None
                /\ rows'[id].mac = rows[id].mac
                /\ rows'[id].lanIp = rows[id].lanIp
      PROVE  AddressInv'
  <2>1. \A s \in Registers : /\ register'[s].mac = register[s].mac
                             /\ Storing(s)' => Storing(s)
                             /\ register'[s].stage \in Stored => register[s].stage \in Stored
    BY <1>2 DEF Storing
  <2> QED
    BY <1>0, <1>2, <2>1, AddressKept
<1>3. ASSUME NEW p \in Patches,
             \/ \E id \in RowIds, name \in Identifiers : ReceivePatch(p, id, name)
             \/ PatchConflict(p) \/ PatchNothing(p) \/ PatchFind(p) \/ PatchTell(p)
             \/ PatchFails(p)
      PROVE  UNCHANGED <<rows, register, newest, raced, overlapped>>
  BY <1>3 DEF ReceivePatch, PatchConflict, PatchNothing, PatchFind, PatchTell, PatchFails
<1>4. ASSUME NEW p \in Patches, PatchRow(p) PROVE AddressInv'
  <2>1. PICK i \in RowIds : i = patch[p].id
    BY <1>4 DEF PatchRow, RunsHaveSubjects
  <2>2. PICK name \in Identifiers : name = patch[p].identifier
    BY <1>4 DEF PatchRow, RunsHaveSubjects
  <2>3. /\ UNCHANGED <<register, newest, raced, overlapped>> /\ rows[i] # None
        /\ rows' = [rows EXCEPT ![i] = [@ EXCEPT !.identifier = name]]
    BY <1>4, <2>1, <2>2 DEF PatchRow
  <2>4. rows'[i].mac = rows[i].mac /\ rows'[i].lanIp = rows[i].lanIp
    BY <2>3 DEF Row
  <2> QED
    BY <1>2, <2>3, <2>4
<1>5. ASSUME NEW d \in Deletes,
             \/ \E id \in RowIds : ReceiveDelete(d, id)
             \/ DeleteFind(d) \/ DeleteFile(d) \/ DeleteFails(d)
      PROVE  UNCHANGED <<rows, register, newest, raced, overlapped>>
  BY <1>5 DEF ReceiveDelete, DeleteFind, DeleteFile, DeleteFails
<1>6. ASSUME NEW d \in Deletes, DeleteRow(d) PROVE AddressInv'
  <2>1. /\ UNCHANGED <<register, newest, raced, overlapped>>
        /\ \A id \in RowIds : rows'[id] # None => rows'[id] = rows[id]
    BY <1>6 DEF DeleteRow
  <2> QED
    BY <1>2, <2>1
<1>7. ASSUME NEW S \in SUBSET Registers, Crash(S) PROVE AddressInv'
  <2>1. UNCHANGED <<rows, newest, raced, overlapped>>
    BY <1>7 DEF Crash
  <2>2. \A s \in Registers : /\ register'[s].mac = register[s].mac
                             /\ \/ register'[s].stage = register[s].stage
                                \/ register'[s].stage \in {"failed", "leaked"}
    BY <1>7 DEF Crash, RegisterRun
  <2>3. \A s \in Registers : /\ register'[s].mac = register[s].mac
                             /\ register'[s].stage = "new" => register[s].stage = "new"
                             /\ Storing(s)' => Storing(s)
                             /\ register'[s].stage \in Stored => register[s].stage \in Stored
    BY <2>2 DEF Storing, Stored
  <2> QED
    BY <1>0, <2>1, <2>3, AddressKept
<1>8. CASE UNCHANGED vars
  BY <1>2, <1>8 DEF vars
<1> QED
  BY <1>1, <1>2, <1>3, <1>4, <1>5, <1>6, <1>7, <1>8,
     ReceiveKeepsAddress, HitKeepsAddress, SaveKeepsAddress, MissKeepsAddress
     DEF Next, Quiet, RegisterStep, PatchStep, DeleteStep

(***************************************************************************)
(* The QR codes of a printer lead to the address in its last message,      *)
(* unless it sent one before the last one was stored.                      *)
(***************************************************************************)
THEOREM QrCodesLeadHome == Spec => []LatestAddress
<1>1. Init => IInv /\ AddressInv
  BY IInvInit, AddressInit
<1>2. IInv /\ AddressInv /\ [Next]_vars => IInv' /\ AddressInv'
  BY IInvStep, AddressStep
<1>3. AddressInv => LatestAddress
  BY DEF AddressInv, LatestAddress, Stored
<1> QED
  BY <1>1, <1>2, <1>3, PTL DEF Spec

-----------------------------------------------------------------------------
(***************************************************************************)
(* Statuses.                                                               *)
(***************************************************************************)

\* r and p are about to tell mac its status: what Unanswered and Untold say.
WillAnswer(r, mac) == register[r].stage \in {"find", "answer"} /\ register[r].mac = mac
WillTell(p, mac) ==
    \/ /\ patch[p].stage = "find" /\ patch[p].id # None
       /\ rows[patch[p].id] # None /\ rows[patch[p].id].mac = mac
    \/ patch[p].stage = "tell" /\ patch[p].mac = mac

Pending(mac) ==
    \/ \E r \in Registers : WillAnswer(r, mac)
    \/ \E p \in Patches : WillTell(p, mac)

\* What the runs about mac hold agrees with its row, and what mac was told
\* does unless a run is about to tell it again.
StatusOf(mac) ==
    \A id \in RowsOf(mac) :
        /\ Pending(mac) \/ told[mac] = (rows[id].identifier # None)
        /\ \A r \in Registers : register[r].stage = "answer" /\ register[r].mac = mac
              => register[r].registered = (rows[id].identifier # None)
        /\ \A p \in Patches : patch[p].stage = "tell" /\ patch[p].mac = mac
              => rows[id].identifier # None

StatusInv == \A mac \in Macs \ (raced \cup stale) : StatusOf(mac)

LEMMA StatusInit == Init => StatusInv
  BY DEF Init, StatusInv, StatusOf, RowsOf

LEMMA WillAnswerIs ==
  ASSUME NEW r \in Registers, NEW mac, WillAnswer(r, mac)
  PROVE  mac \in Unanswered(r)
  BY DEF WillAnswer, Unanswered

LEMMA WillTellIs ==
  ASSUME NEW p \in Patches, NEW mac \in Macs, WillTell(p, mac)
  PROVE  mac \in Untold(p)
<1>1. mac # None
  BY NoneAssumption
<1>2. CASE patch[p].stage = "find"
  BY <1>2 DEF WillTell, Untold
<1>3. CASE patch[p].stage = "tell"
  BY <1>1, <1>3 DEF WillTell, Untold
<1> QED
  BY <1>2, <1>3 DEF WillTell

\* A step that tells mac nothing, reads and names no row of it, and ends no
\* run about it while it has a row.
LEMMA StatusKept ==
  ASSUME NEW mac \in Macs, StatusOf(mac),
         told'[mac] = told[mac],
         \A id \in RowIds : rows'[id] # None /\ rows'[id].mac = mac =>
            /\ rows[id] # None /\ rows[id].mac = mac
            /\ (rows'[id].identifier # None) <=> (rows[id].identifier # None)
            /\ Pending(mac) => Pending(mac)',
         \A r \in Registers : register'[r].stage = "answer" /\ register'[r].mac = mac =>
            /\ register[r].stage = "answer" /\ register[r].mac = mac
            /\ register'[r].registered = register[r].registered,
         \A p \in Patches : patch'[p].stage = "tell" /\ patch'[p].mac = mac =>
            patch[p].stage = "tell" /\ patch[p].mac = mac
  PROVE  StatusOf(mac)'
<1> SUFFICES ASSUME NEW id \in RowsOf(mac)'
             PROVE  /\ Pending(mac)' \/ told'[mac] = (rows'[id].identifier # None)
                    /\ \A r \in Registers :
                          register'[r].stage = "answer" /\ register'[r].mac = mac
                          => register'[r].registered = (rows'[id].identifier # None)
                    /\ \A p \in Patches : patch'[p].stage = "tell" /\ patch'[p].mac = mac
                          => rows'[id].identifier # None
  BY DEF StatusOf
<1>1. /\ id \in RowsOf(mac)
      /\ (rows'[id].identifier # None) <=> (rows[id].identifier # None)
      /\ Pending(mac) => Pending(mac)'
  BY DEF RowsOf
<1>2. /\ Pending(mac) \/ told[mac] = (rows[id].identifier # None)
      /\ \A r \in Registers : register[r].stage = "answer" /\ register[r].mac = mac
            => register[r].registered = (rows[id].identifier # None)
      /\ \A p \in Patches : patch[p].stage = "tell" /\ patch[p].mac = mac
            => rows[id].identifier # None
  BY <1>1 DEF StatusOf
<1> QED
  BY <1>1, <1>2

\* With the rows as they are, runs go on to tell mac its status.
LEMMA PendingKept ==
  ASSUME NEW mac, UNCHANGED rows,
         \A r \in Registers : WillAnswer(r, mac) => WillAnswer(r, mac)',
         \A p \in Patches : WillTell(p, mac) => WillTell(p, mac)'
  PROVE  Pending(mac) => Pending(mac)'
  BY DEF Pending

\* Register runs up to their INSERT, and those that end without an answer.
LEMMA RegisterStatus ==
  ASSUME IInv, StatusInv, NEW mac \in Macs, mac \notin raced', mac \notin stale',
         NEW r \in Registers,
         \/ \E m \in Macs : ReceiveRegister(r, m)
         \/ UpdateHit(r) \/ UpdateMiss(r) \/ UploadQr(r)
         \/ RegisterFails(r) \/ UploadFails(r)
  PROVE  StatusOf(mac)'
<1> USE DEF IInv, Shape, TypeOK, runVars, obsVars
<1>1. /\ UNCHANGED <<patch, told>> /\ raced \subseteq raced' /\ stale \subseteq stale'
      /\ \A s \in Registers \ {r} : register'[s] = register[s]
  <2>1. CASE \E m \in Macs : ReceiveRegister(r, m)
    BY <2>1 DEF ReceiveRegister
  <2>2. CASE UpdateHit(r) \/ UpdateMiss(r) \/ UploadQr(r)
    BY <2>2 DEF UpdateHit, UpdateMiss, UploadQr
  <2>3. CASE RegisterFails(r)
    BY <2>3 DEF RegisterFails
  <2>4. CASE UploadFails(r)
    BY <2>4 DEF UploadFails
  <2> QED
    BY <2>1, <2>2, <2>3, <2>4
<1>2. /\ register'[r].stage # "answer"
      /\ WillAnswer(r, mac) => WillAnswer(r, mac)'
  <2>1. CASE \E m \in Macs : ReceiveRegister(r, m)
    <3>1. register[r].stage = "new"
      BY <2>1 DEF ReceiveRegister
    <3>2. PICK m \in Macs : register' = [register EXCEPT ![r] =
                               [@ EXCEPT !.stage = "update", !.mac = m]]
      BY <2>1 DEF ReceiveRegister
    <3>3. register'[r].stage = "update"
      BY <3>2 DEF RegisterRun
    <3> QED
      BY <3>1, <3>3 DEF WillAnswer
  <2>2. CASE UpdateHit(r)
    BY <2>2 DEF UpdateHit, RegisterRun, WillAnswer
  <2>3. CASE UpdateMiss(r) \/ UploadQr(r) \/ UploadFails(r)
    BY <2>3 DEF UpdateMiss, UploadQr, UploadFails, RegisterRun, WillAnswer
  <2>4. CASE RegisterFails(r)
    <3>1. register'[r].stage # "answer" /\ stale' = stale \cup Unanswered(r)
      BY <2>4 DEF RegisterFails, RegisterRun
    <3>2. ~WillAnswer(r, mac)
      BY <3>1, WillAnswerIs
    <3> QED
      BY <3>1, <3>2
  <2> QED
    BY <2>1, <2>2, <2>3, <2>4
<1>3. \A id \in RowIds : /\ rows'[id] # None <=> rows[id] # None
                         /\ rows[id] # None => /\ rows'[id].mac = rows[id].mac
                                               /\ rows'[id].identifier = rows[id].identifier
  <2>1. CASE UpdateHit(r)
    BY <2>1, HitKeepsRows
  <2>2. CASE ~UpdateHit(r)
    <3>1. rows' = rows
      BY <2>2 DEF ReceiveRegister, UpdateMiss, UploadQr, RegisterFails, UploadFails
    <3> QED
      BY <3>1
  <2> QED
    BY <2>1, <2>2
<1>4. \A p \in Patches : WillTell(p, mac) => WillTell(p, mac)'
  <2>1. \A p \in Patches : patch[p].stage = "find" => patch[p].id \in RowIds
    BY DEF RunsHaveSubjects
  <2> QED
    BY <1>1, <1>3, <2>1 DEF WillTell
<1>5. Pending(mac) => Pending(mac)'
  <2>1. \A s \in Registers : WillAnswer(s, mac) => WillAnswer(s, mac)'
    BY <1>1, <1>2 DEF WillAnswer
  <2> QED
    BY <1>4, <2>1 DEF Pending
<1>6. StatusOf(mac)
  BY <1>1 DEF StatusInv
<1> QED
  BY <1>1, <1>2, <1>3, <1>5, <1>6, StatusKept

\* The INSERT: the run will answer, and who read before makes the status stale.
LEMMA SaveStatus ==
  ASSUME IInv, StatusInv, NEW mac \in Macs, mac \notin raced', mac \notin stale',
         NEW r \in Registers, SaveRow(r)
  PROVE  StatusOf(mac)'
<1> USE DEF IInv, Shape, TypeOK
<1>1. PICK m \in Macs, n \in RowIds : m = register[r].mac /\ n = nextId
  BY DEF SaveRow, RunsHaveSubjects
<1>2. /\ register[r].stage = "save" /\ register'[r].stage = "find" /\ register'[r].mac = m
      /\ \A s \in Registers \ {r} : register'[s] = register[s]
      /\ UNCHANGED <<patch, told, raced>>
      /\ stale' = stale \cup Outdated(m)
      /\ \A id \in RowIds \ {n} : rows'[id] = rows[id]
      /\ rows' = [rows EXCEPT ![n] = [mac |-> m, identifier |-> None, file |-> r, lanIp |-> r]]
  BY <1>1 DEF SaveRow, RegisterRun
<1>3. rows'[n].mac = m /\ rows[n] = None
  BY <1>1, <1>2 DEF RowsBelowNext, RowIds
<1>4. StatusOf(mac)
  BY <1>2 DEF StatusInv
<1>5. CASE mac = m
  <2>1. ~Unpublished(m)
    BY <1>2, <1>5 DEF Outdated
  <2>2. \A s \in Registers : ~(register'[s].stage = "answer" /\ register'[s].mac = mac)
    BY <1>2, <1>5, <2>1 DEF Unpublished
  <2>3. \A p \in Patches : ~(patch'[p].stage = "tell" /\ patch'[p].mac = mac)
    BY <1>2, <1>5, <2>1 DEF Unpublished
  <2>4. Pending(mac)'
    BY <1>2, <1>5 DEF Pending, WillAnswer
  <2> QED
    BY <2>2, <2>3, <2>4 DEF StatusOf
<1>6. CASE mac # m
  <2>1. \A id \in RowIds : rows'[id] # None /\ rows'[id].mac = mac => rows'[id] = rows[id]
    BY <1>2, <1>3, <1>6
  <2>2. \A p \in Patches : WillTell(p, mac) => WillTell(p, mac)'
    <3>1. \A p \in Patches : patch[p].stage = "find" => patch[p].id \in RowIds
      BY DEF RunsHaveSubjects
    <3> QED
      BY <1>2, <1>3, <3>1 DEF WillTell
  <2>3. \A s \in Registers : WillAnswer(s, mac) => WillAnswer(s, mac)'
    BY <1>1, <1>2, <1>6 DEF WillAnswer
  <2>4. Pending(mac) => Pending(mac)'
    BY <2>2, <2>3 DEF Pending
  <2> QED
    BY <1>2, <1>4, <2>1, <2>4, StatusKept
<1> QED
  BY <1>5, <1>6

\* What a run reads is what the row of its printer says.
LEMMA FindStatus ==
  ASSUME IInv, StatusInv, NEW mac \in Macs, mac \notin raced', mac \notin stale',
         NEW r \in Registers, FindRow(r)
  PROVE  StatusOf(mac)'
<1> USE DEF IInv, Shape, TypeOK, obsVars
<1>1. PICK m \in Macs : m = register[r].mac
  BY DEF FindRow, RunsHaveSubjects
<1>2. /\ register[r].stage = "find" /\ register'[r].stage = "answer" /\ register'[r].mac = m
      /\ \A s \in Registers \ {r} : register'[s] = register[s]
      /\ UNCHANGED <<rows, patch, told, raced, stale>>
      /\ RowsOf(m) # {} => \E id \in RowsOf(m) :
            register'[r].registered = (rows[id].identifier # None)
  <2>1. PICK registered \in IF RowsOf(m) = {} THEN {FALSE}
                            ELSE {rows[id].identifier # None : id \in RowsOf(m)} :
          register' = [register EXCEPT ![r] =
                         [@ EXCEPT !.stage = "answer", !.registered = registered]]
    BY <1>1 DEF FindRow
  <2>2. register'[r].registered = registered
    BY <2>1 DEF RegisterRun
  <2>3. RowsOf(m) # {} => \E id \in RowsOf(m) : registered = (rows[id].identifier # None)
    BY <2>1
  <2>4. /\ register[r].stage = "find" /\ register'[r].stage = "answer"
        /\ register'[r].mac = m
        /\ \A s \in Registers \ {r} : register'[s] = register[s]
    BY <1>1, <2>1 DEF FindRow, RegisterRun
  <2>5. UNCHANGED <<rows, patch, told, raced, stale>>
    BY DEF FindRow
  <2> QED
    BY <2>2, <2>3, <2>4, <2>5
<1>3. StatusOf(mac)
  BY <1>2 DEF StatusInv
<1>4. Pending(mac) => Pending(mac)'
  <2>1. \A s \in Registers : WillAnswer(s, mac) => WillAnswer(s, mac)'
    BY <1>1, <1>2 DEF WillAnswer
  <2>2. \A p \in Patches : WillTell(p, mac) => WillTell(p, mac)'
    BY <1>2 DEF WillTell
  <2> QED
    BY <1>2, <2>1, <2>2, PendingKept
<1>5. RowsOf(mac)' = RowsOf(mac)
  BY <1>2 DEF RowsOf
<1>6. ASSUME NEW id \in RowsOf(mac), mac = m
      PROVE  register'[r].registered = (rows[id].identifier # None)
  <2>1. PICK j \in RowsOf(m) : register'[r].registered = (rows[j].identifier # None)
    BY <1>2, <1>6
  <2>2. j = id
    BY <1>2, <1>6, <2>1 DEF OneRowPerPrinter
  <2> QED
    BY <2>1, <2>2
<1> SUFFICES ASSUME NEW id \in RowsOf(mac)
             PROVE  /\ Pending(mac)' \/ told[mac] = (rows[id].identifier # None)
                    /\ \A s \in Registers :
                          register'[s].stage = "answer" /\ register'[s].mac = mac
                          => register'[s].registered = (rows[id].identifier # None)
                    /\ \A p \in Patches : patch[p].stage = "tell" /\ patch[p].mac = mac
                          => rows[id].identifier # None
  BY <1>2, <1>5 DEF StatusOf
<1>7. /\ Pending(mac) \/ told[mac] = (rows[id].identifier # None)
      /\ \A s \in Registers : register[s].stage = "answer" /\ register[s].mac = mac
            => register[s].registered = (rows[id].identifier # None)
      /\ \A p \in Patches : patch[p].stage = "tell" /\ patch[p].mac = mac
            => rows[id].identifier # None
  BY <1>3 DEF StatusOf
<1>8. ASSUME NEW s \in Registers, register'[s].stage = "answer", register'[s].mac = mac
      PROVE  register'[s].registered = (rows[id].identifier # None)
  <2>1. CASE s = r
    BY <1>2, <1>6, <1>8, <2>1
  <2>2. CASE s # r
    BY <1>2, <1>7, <1>8, <2>2
  <2> QED
    BY <2>1, <2>2
<1> QED
  BY <1>4, <1>7, <1>8

LEMMA PublishedStatus ==
  ASSUME IInv, StatusInv, NEW mac \in Macs, mac \notin raced', mac \notin stale',
         NEW r \in Registers, PublishStatus(r)
  PROVE  StatusOf(mac)'
<1> USE DEF IInv, Shape, TypeOK, obsVars
<1>1. PICK m \in Macs : m = register[r].mac
  BY DEF PublishStatus, RunsHaveSubjects
<1>2. /\ register[r].stage = "answer" /\ register'[r].stage = "done"
      /\ \A s \in Registers \ {r} : register'[s] = register[s]
      /\ UNCHANGED <<rows, patch, raced, stale>>
      /\ told' = [told EXCEPT ![m] = register[r].registered]
  BY <1>1 DEF PublishStatus, RegisterRun
<1>3. StatusOf(mac)
  BY <1>2 DEF StatusInv
<1>4. RowsOf(mac)' = RowsOf(mac)
  BY <1>2 DEF RowsOf
<1>5. CASE mac = m
  <2>1. told'[mac] = register[r].registered
    BY <1>2, <1>5
  <2>2. \A id \in RowsOf(mac) : told'[mac] = (rows[id].identifier # None)
    BY <1>1, <1>2, <1>3, <1>5, <2>1 DEF StatusOf
  <2>3. \A s \in Registers : register'[s].stage = "answer" /\ register'[s].mac = mac
           => register'[s] = register[s]
    BY <1>2
  <2> QED
    BY <1>2, <1>3, <1>4, <2>2, <2>3 DEF StatusOf
<1>6. CASE mac # m
  <2>1. told'[mac] = told[mac]
    BY <1>2, <1>6
  <2>2. \A s \in Registers : WillAnswer(s, mac) => WillAnswer(s, mac)'
    BY <1>1, <1>2, <1>6 DEF WillAnswer
  <2>3. \A p \in Patches : WillTell(p, mac) => WillTell(p, mac)'
    BY <1>2 DEF WillTell
  <2>4. Pending(mac) => Pending(mac)'
    BY <1>2, <2>2, <2>3, PendingKept
  <2>5. \A s \in Registers : register'[s].stage = "answer" => register'[s] = register[s]
    BY <1>2
  <2> QED
    BY <1>2, <1>3, <2>1, <2>4, <2>5, StatusKept
<1> QED
  BY <1>5, <1>6

\* PATCH calls up to their SELECT, and those that end untold.
LEMMA PatchStatus ==
  ASSUME IInv, StatusInv, NEW mac \in Macs, mac \notin raced', mac \notin stale',
         NEW p \in Patches,
         \/ \E id \in RowIds, name \in Identifiers : ReceivePatch(p, id, name)
         \/ PatchConflict(p) \/ PatchNothing(p) \/ PatchFails(p)
  PROVE  StatusOf(mac)'
<1> USE DEF IInv, Shape, TypeOK, obsVars
<1>1. /\ UNCHANGED <<rows, register, told, raced>> /\ stale \subseteq stale'
      /\ \A q \in Patches \ {p} : patch'[q] = patch[q]
      /\ patch'[p].stage # "tell"
      /\ ~WillTell(p, mac)
  <2>1. CASE \E id \in RowIds, name \in Identifiers : ReceivePatch(p, id, name)
    <3>1. /\ UNCHANGED <<rows, register, told, raced, stale>>
          /\ \A q \in Patches \ {p} : patch'[q] = patch[q]
          /\ patch[p].stage = "new"
      BY <2>1 DEF ReceivePatch
    <3>2. PICK id \in RowIds, name \in Identifiers : patch' = [patch EXCEPT ![p] =
            [@ EXCEPT !.stage = "update", !.id = id, !.identifier = name]]
      BY <2>1 DEF ReceivePatch
    <3>3. patch'[p].stage = "update"
      BY <3>2 DEF PatchRun
    <3> QED
      BY <3>1, <3>3 DEF WillTell
  <2>2. CASE PatchConflict(p) \/ PatchNothing(p)
    BY <2>2 DEF PatchConflict, PatchNothing, PatchRun, WillTell
  <2>3. CASE PatchFails(p)
    <3>1. /\ UNCHANGED <<rows, register, told, raced>>
          /\ \A q \in Patches \ {p} : patch'[q] = patch[q]
          /\ patch'[p].stage = "failed"
          /\ stale' = stale \cup Untold(p)
      BY <2>3 DEF PatchFails, PatchRun
    <3> QED
      BY <3>1, WillTellIs
  <2> QED
    BY <2>1, <2>2, <2>3
<1>2. StatusOf(mac)
  BY <1>1 DEF StatusInv
<1>3. Pending(mac) => Pending(mac)'
  <2>1. \A s \in Registers : WillAnswer(s, mac) => WillAnswer(s, mac)'
    BY <1>1 DEF WillAnswer
  <2>2. \A q \in Patches : WillTell(q, mac) => WillTell(q, mac)'
    BY <1>1 DEF WillTell
  <2> QED
    BY <1>1, <2>1, <2>2, PendingKept
<1>4. \A q \in Patches : patch'[q].stage = "tell" => patch'[q] = patch[q]
  BY <1>1
<1> QED
  BY <1>1, <1>2, <1>3, <1>4, StatusKept

\* The UPDATE: the PATCH will tell, and who read before makes the status stale.
LEMMA PatchRowStatus ==
  ASSUME IInv, StatusInv, NEW mac \in Macs, mac \notin raced', mac \notin stale',
         NEW p \in Patches, PatchRow(p)
  PROVE  StatusOf(mac)'
<1> USE DEF IInv, Shape, TypeOK
<1>1. PICK i \in RowIds : i = patch[p].id
  BY DEF PatchRow, RunsHaveSubjects
<1>2. PICK name \in Identifiers : name = patch[p].identifier
  BY DEF PatchRow, RunsHaveSubjects
<1>3. PICK m \in Macs : rows[i] # None /\ rows[i].mac = m
  BY <1>1 DEF PatchRow, Row
<1>4. /\ UNCHANGED <<register, told, raced>>
      /\ \A q \in Patches \ {p} : patch'[q] = patch[q]
      /\ patch[p].stage = "update" /\ patch'[p].stage = "find" /\ patch'[p].id = i
      /\ stale' = stale \cup Outdated(m)
      /\ rows' = [rows EXCEPT ![i] = [@ EXCEPT !.identifier = name]]
  BY <1>1, <1>2, <1>3 DEF PatchRow, PatchRun
<1>5. /\ rows'[i].mac = m /\ rows'[i] # None
      /\ \A id \in RowIds \ {i} : rows'[id] = rows[id]
  <2>1. [rows[i] EXCEPT !.identifier = name] \in Row
    BY <1>3 DEF Row
  <2>2. rows'[i] = [rows[i] EXCEPT !.identifier = name]
    BY <1>4
  <2> QED
    BY <1>3, <1>4, <2>1, <2>2, NoneAssumption DEF Row
<1>6. StatusOf(mac)
  BY <1>4 DEF StatusInv
<1>7. CASE mac = m
  <2>1. ~Unpublished(m)
    BY <1>4, <1>7 DEF Outdated
  <2>2. \A s \in Registers : ~(register'[s].stage = "answer" /\ register'[s].mac = mac)
    BY <1>4, <1>7, <2>1 DEF Unpublished
  <2>3. \A q \in Patches : ~(patch'[q].stage = "tell" /\ patch'[q].mac = mac)
    BY <1>4, <1>7, <2>1 DEF Unpublished
  <2>4. Pending(mac)'
    <3>1. i # None
      BY NoneAssumption DEF RowIds
    <3>2. WillTell(p, mac)'
      BY <1>4, <1>5, <1>7, <3>1 DEF WillTell
    <3> QED
      BY <3>2 DEF Pending
  <2> QED
    BY <2>2, <2>3, <2>4 DEF StatusOf
<1>8. CASE mac # m
  <2>1. \A id \in RowIds : rows'[id] # None /\ rows'[id].mac = mac => rows'[id] = rows[id]
    BY <1>5, <1>8
  <2>2. \A q \in Patches : WillTell(q, mac) => WillTell(q, mac)'
    <3>1. \A q \in Patches : patch[q].stage = "find" => patch[q].id \in RowIds
      BY DEF RunsHaveSubjects
    <3>2. \A q \in Patches : WillTell(q, mac) => q # p /\ patch'[q] = patch[q]
      BY <1>4 DEF WillTell
    <3> QED
      BY <1>3, <1>5, <1>8, <3>1, <3>2 DEF WillTell
  <2>3. \A s \in Registers : WillAnswer(s, mac) => WillAnswer(s, mac)'
    BY <1>4 DEF WillAnswer
  <2>4. Pending(mac) => Pending(mac)'
    BY <2>2, <2>3 DEF Pending
  <2>5. \A q \in Patches : patch'[q].stage = "tell" => patch'[q] = patch[q]
    BY <1>4
  <2> QED
    BY <1>4, <1>6, <2>1, <2>4, <2>5, StatusKept
<1> QED
  BY <1>7, <1>8

\* The SELECT finds the row that the UPDATE named.
LEMMA PatchFindStatus ==
  ASSUME IInv, UnlockInv, StatusInv, NEW mac \in Macs, mac \notin raced', mac \notin stale',
         NEW p \in Patches, PatchFind(p)
  PROVE  StatusOf(mac)'
<1> USE DEF IInv, Shape, TypeOK
<1>1. PICK i \in RowIds : i = patch[p].id
  BY DEF PatchFind, RunsHaveSubjects
<1>2. /\ UNCHANGED <<rows, register, told, raced>> /\ stale \subseteq stale'
      /\ \A q \in Patches \ {p} : patch'[q] = patch[q]
      /\ patch[p].stage = "find" /\ patch'[p].stage = "tell"
      /\ patch'[p].mac = IF rows[i] = None THEN None ELSE rows[i].mac
      /\ rows[i] # None /\ ~patch[p].affected => rows[i].mac \in stale'
  BY <1>1 DEF PatchFind, PatchRun
<1>3. StatusOf(mac)
  BY <1>2 DEF StatusInv
<1>4. mac # None /\ i # None
  BY NoneAssumption DEF RowIds
<1>5. Pending(mac) => Pending(mac)'
  <2>1. WillTell(p, mac) => WillTell(p, mac)'
    BY <1>1, <1>2 DEF WillTell
  <2>2. \A q \in Patches : WillTell(q, mac) => WillTell(q, mac)'
    BY <1>2, <2>1 DEF WillTell
  <2>3. \A s \in Registers : WillAnswer(s, mac) => WillAnswer(s, mac)'
    BY <1>2 DEF WillAnswer
  <2> QED
    BY <1>2, <2>2, <2>3, PendingKept
<1>6. ASSUME NEW id \in RowsOf(mac), patch'[p].mac = mac
      PROVE  rows[id].identifier # None
  <2>1. rows[i] # None /\ rows[i].mac = mac
    BY <1>2, <1>4, <1>6
  <2>2. patch[p].affected
    BY <1>2, <2>1
  <2>3. rows[i].identifier # None
    BY <1>1, <1>2, <2>1, <2>2 DEF UnlockInv
  <2>4. i = id
    BY <1>2, <2>1 DEF OneRowPerPrinter, RowsOf
  <2> QED
    BY <2>3, <2>4
<1>7. RowsOf(mac)' = RowsOf(mac)
  BY <1>2 DEF RowsOf
<1> QED
  BY <1>2, <1>3, <1>5, <1>6, <1>7 DEF StatusOf

LEMMA ToldStatus ==
  ASSUME IInv, StatusInv, NEW mac \in Macs, mac \notin raced', mac \notin stale',
         NEW p \in Patches, PatchTell(p)
  PROVE  StatusOf(mac)'
<1> USE DEF IInv, Shape, TypeOK, obsVars
<1>1. /\ UNCHANGED <<rows, register, raced, stale>>
      /\ \A q \in Patches \ {p} : patch'[q] = patch[q]
      /\ patch[p].stage = "tell" /\ patch'[p].stage = "done"
      /\ told' = IF patch[p].mac # None THEN [told EXCEPT ![patch[p].mac] = TRUE] ELSE told
  BY DEF PatchTell, PatchRun
<1>2. StatusOf(mac) /\ RowsOf(mac)' = RowsOf(mac)
  BY <1>1 DEF StatusInv, RowsOf
<1>3. CASE patch[p].mac = mac
  <2>1. told'[mac] = TRUE
    BY <1>1, <1>3, NoneAssumption
  <2>2. \A id \in RowsOf(mac) : rows[id].identifier # None
    BY <1>1, <1>2, <1>3 DEF StatusOf
  <2>3. \A id \in RowsOf(mac) : told'[mac] = (rows[id].identifier # None)
    BY <2>1, <2>2
  <2> QED
    BY <1>1, <1>2, <2>2, <2>3 DEF StatusOf
<1>4. CASE patch[p].mac # mac
  <2>1. told'[mac] = told[mac]
    BY <1>1, <1>4
  <2>2. \A q \in Patches : WillTell(q, mac) => WillTell(q, mac)'
    BY <1>1, <1>4 DEF WillTell
  <2>3. \A s \in Registers : WillAnswer(s, mac) => WillAnswer(s, mac)'
    BY <1>1 DEF WillAnswer
  <2>4. Pending(mac) => Pending(mac)'
    BY <1>1, <2>2, <2>3, PendingKept
  <2>5. \A q \in Patches : patch'[q].stage = "tell" => patch'[q] = patch[q]
    BY <1>1
  <2> QED
    BY <1>1, <1>2, <2>1, <2>4, <2>5, StatusKept
<1> QED
  BY <1>3, <1>4

\* A printer whose row is removed has none.
LEMMA DeleteStatus ==
  ASSUME IInv, StatusInv, NEW mac \in Macs, mac \notin raced', mac \notin stale',
         NEW d \in Deletes, DeleteRow(d)
  PROVE  StatusOf(mac)'
<1> USE DEF IInv, Shape, TypeOK
<1>1. PICK i \in RowIds : i = delete[d].id
  BY DEF DeleteRow, RunsHaveSubjects
<1>2. /\ UNCHANGED <<register, patch, told, raced>> /\ stale \subseteq stale'
      /\ rows'[i] = None /\ \A id \in RowIds \ {i} : rows'[id] = rows[id]
  BY <1>1 DEF DeleteRow
<1>3. StatusOf(mac)
  BY <1>2 DEF StatusInv
<1>4. \A s \in Registers : WillAnswer(s, mac) => WillAnswer(s, mac)'
  BY <1>2 DEF WillAnswer
<1>5. ASSUME NEW id \in RowIds, rows'[id] # None, rows'[id].mac = mac,
             NEW q \in Patches, WillTell(q, mac)
      PROVE  WillTell(q, mac)'
  <2>1. id # i /\ rows[id] # None /\ rows[id].mac = mac
    BY <1>2, <1>5
  <2>2. rows[i] # None => rows[i].mac # mac
    BY <1>2, <2>1 DEF OneRowPerPrinter, RowsOf
  <2>3. patch[q].stage = "find" => patch[q].id \in RowIds
    BY DEF RunsHaveSubjects
  <2> QED
    BY <1>2, <1>5, <2>2, <2>3 DEF WillTell
<1>6. \A id \in RowIds : rows'[id] # None /\ rows'[id].mac = mac =>
         rows'[id] = rows[id] /\ (Pending(mac) => Pending(mac)')
  BY <1>2, <1>4, <1>5 DEF Pending
<1> QED
  BY <1>2, <1>3, <1>6, StatusKept

\* Whom a crash leaves untold has a stale status.
LEMMA CrashStatus ==
  ASSUME IInv, StatusInv, NEW mac \in Macs, mac \notin raced', mac \notin stale',
         NEW S \in SUBSET Registers, Crash(S)
  PROVE  StatusOf(mac)'
<1> USE DEF IInv, Shape, TypeOK
<1>1. /\ UNCHANGED <<rows, told, raced>> /\ stale \subseteq stale'
      /\ \A r \in Registers : Unanswered(r) \subseteq stale'
      /\ \A p \in Patches : Untold(p) \subseteq stale'
      /\ \A r \in Registers : register'[r].stage # "answer"
      /\ \A p \in Patches : patch'[p].stage # "tell"
  <2>1. /\ \A r \in Registers : register'[r].stage # "answer"
        /\ \A p \in Patches : patch'[p].stage # "tell"
    BY DEF Crash, RegisterRun, PatchRun
  <2> QED
    BY <2>1 DEF Crash
<1>2. ~Pending(mac)
  BY <1>1, WillAnswerIs, WillTellIs DEF Pending
<1>3. StatusOf(mac)
  BY <1>1 DEF StatusInv
<1> QED
  BY <1>1, <1>2, <1>3, StatusKept

LEMMA StatusStep == IInv /\ UnlockInv /\ StatusInv /\ [Next]_vars => StatusInv'
<1> SUFFICES ASSUME IInv, UnlockInv, StatusInv, [Next]_vars,
                    NEW mac \in Macs, mac \notin raced', mac \notin stale'
             PROVE  StatusOf(mac)'
  BY DEF StatusInv
<1>1. ASSUME UNCHANGED <<rows, register, patch, told, raced, stale>> PROVE StatusOf(mac)'
  BY <1>1 DEF StatusInv, StatusOf, RowsOf, Pending, WillAnswer, WillTell
<1>2. ASSUME NEW d \in Deletes,
             \/ \E id \in RowIds : ReceiveDelete(d, id)
             \/ DeleteFind(d) \/ DeleteFile(d) \/ DeleteFails(d)
      PROVE  UNCHANGED <<rows, register, patch, told, raced, stale>>
  BY <1>2 DEF ReceiveDelete, DeleteFind, DeleteFile, DeleteFails, obsVars
<1>3. CASE UNCHANGED vars
  BY <1>1, <1>3 DEF vars, runVars, obsVars
<1> QED
  BY <1>1, <1>2, <1>3, RegisterStatus, SaveStatus, FindStatus, PublishedStatus, PatchStatus,
     PatchRowStatus, PatchFindStatus, ToldStatus, DeleteStatus, CrashStatus
     DEF Next, Quiet, RegisterStep, PatchStep, DeleteStep

(***************************************************************************)
(* The last status a printer was told is that of its row, once its runs    *)
(* have ended, unless a status was published after the row had changed, or *)
(* a run stopped before it published.                                      *)
(***************************************************************************)
THEOREM PrintersAreInformed == Spec => []ToldIsCurrent
<1>1. Init => IInv /\ UnlockInv /\ StatusInv
  BY IInvInit, UnlockInit, StatusInit
<1>2. IInv /\ UnlockInv /\ StatusInv /\ [Next]_vars => IInv' /\ UnlockInv' /\ StatusInv'
  BY IInvStep, UnlockStep, StatusStep DEF IInv
<1>3. IInv /\ StatusInv => ToldIsCurrent
  <2> SUFFICES ASSUME IInv, StatusInv, NEW mac \in Macs, mac \notin raced, mac \notin stale,
                      Settled(mac), NEW id \in RowsOf(mac)
               PROVE  told[mac] = (rows[id].identifier # None)
    BY DEF ToldIsCurrent
  <2>1. ~Pending(mac)
    <3>1. \A r \in Registers : ~WillAnswer(r, mac)
      BY DEF Settled, WillAnswer, RegisterBusy
    <3> QED
      BY <3>1, WillTellIs DEF Settled, Pending
  <2> QED
    BY <2>1 DEF StatusInv, StatusOf
<1> QED
  BY <1>1, <1>2, <1>3, PTL DEF Spec

-----------------------------------------------------------------------------
(***************************************************************************)
(* The refinement.                                                         *)
(***************************************************************************)

\* What the catalogue sees.
IdOf(d)  == IF delete[d].id = None THEN 0 ELSE delete[d].id
entryMap == [id \in RowIds |-> EntryOf(id)]
callMap  == [d \in Deletes |-> [id |-> IdOf(d), answer |-> AnswerOf(d)]]

\* A step of which the catalogue sees nothing.
Unseen == UNCHANGED <<entryMap, callMap>>

LEMMA EntryValues ==
  ASSUME Shape, Shape', NEW id \in RowIds
  PROVE  /\ EntryOf(id) = IF id >= nextId THEN "unborn"
                          ELSE IF rows[id] # None /\ rows[id].file \in files THEN "here" ELSE "gone"
         /\ EntryOf(id)' = IF id >= nextId' THEN "unborn"
                           ELSE IF rows'[id] # None /\ rows'[id].file \in files' THEN "here" ELSE "gone"
  BY DEF EntryOf, Shape, RowsBelowNext

\* A DELETE that has not arrived is about nothing.
UnaskedInv == \A d \in Deletes : delete[d].stage = "new" => delete[d].id = None

LEMMA UnaskedStep == Shape /\ UnaskedInv /\ [Next]_vars => UnaskedInv'
<1> SUFFICES ASSUME Shape, UnaskedInv, [Next]_vars PROVE UnaskedInv'
  OBVIOUS
<1>1. ASSUME UNCHANGED delete PROVE UnaskedInv'
  BY <1>1 DEF UnaskedInv
<1>2. ASSUME NEW r \in Registers,
             \/ \E mac \in Macs : ReceiveRegister(r, mac)
             \/ RegisterStep(r) \/ RegisterFails(r) \/ UploadFails(r)
      PROVE  UNCHANGED delete
  BY <1>2 DEF RegisterStep, ReceiveRegister, UpdateHit, UpdateMiss, UploadQr, SaveRow,
              FindRow, PublishStatus, RegisterFails, UploadFails
<1>3. ASSUME NEW p \in Patches,
             \/ \E id \in RowIds, name \in Identifiers : ReceivePatch(p, id, name)
             \/ PatchStep(p) \/ PatchFails(p)
      PROVE  UNCHANGED delete
  BY <1>3 DEF PatchStep, ReceivePatch, PatchRow, PatchConflict, PatchNothing, PatchFind,
              PatchTell, PatchFails
<1>4. ASSUME \A d \in Deletes : delete'[d] = delete[d] \/ delete'[d].stage # "new"
      PROVE  UnaskedInv'
  BY <1>4 DEF UnaskedInv
<1>5. ASSUME NEW d \in Deletes,
             \/ \E id \in RowIds : ReceiveDelete(d, id)
             \/ DeleteStep(d) \/ DeleteFails(d)
      PROVE  /\ \A e \in Deletes \ {d} : delete'[e] = delete[e]
             /\ delete'[d].stage # "new"
  <2>1. CASE \E id \in RowIds : ReceiveDelete(d, id)
    BY <2>1 DEF ReceiveDelete, Shape, TypeOK, DeleteRun
  <2>3. CASE DeleteFind(d)
    BY <2>3 DEF DeleteFind, Shape, TypeOK, DeleteRun
  <2>2. CASE DeleteFile(d) \/ DeleteRow(d) \/ DeleteFails(d)
    BY <2>2 DEF DeleteFile, DeleteRow, DeleteFails, Shape, TypeOK, DeleteRun
  <2> QED
    BY <1>5, <2>1, <2>2, <2>3 DEF DeleteStep
<1>6. ASSUME NEW S \in SUBSET Registers, Crash(S)
      PROVE  \A d \in Deletes : delete'[d] = delete[d] \/ delete'[d].stage # "new"
  BY <1>6 DEF Crash, Shape, TypeOK, DeleteRun
<1>7. CASE UNCHANGED vars
  BY <1>1, <1>7 DEF vars, runVars
<1> QED
  BY <1>1, <1>2, <1>3, <1>4, <1>5, <1>6, <1>7 DEF Next, Quiet

LEMMA CatalogInit == Init => Catalog!Init
<1> SUFFICES ASSUME Init PROVE Catalog!Init
  OBVIOUS
<1>1. \A id \in RowIds : EntryOf(id) = "unborn"
  BY DEF Init, EntryOf, RowIds
<1>2. \A d \in Deletes : IdOf(d) = 0 /\ AnswerOf(d) = "unasked"
  BY DEF Init, AnswerOf, IdOf
<1>3. callMap = [d \in Deletes |-> Catalog!Unasked]
  BY <1>2 DEF callMap, Catalog!Unasked
<1> QED
  BY <1>1, <1>3 DEF Catalog!Init, callMap, IdOf

LEMMA CallMapStep ==
  ASSUME NEW d \in Deletes, \A e \in Deletes \ {d} : delete'[e] = delete[e]
  PROVE  callMap' = [callMap EXCEPT ![d] = [id |-> IdOf(d)', answer |-> AnswerOf(d)']]
  BY DEF callMap, AnswerOf, IdOf

LEMMA CallMapStays ==
  ASSUME NEW d \in Deletes, \A e \in Deletes \ {d} : delete'[e] = delete[e],
         delete'[d].id = delete[d].id, AnswerOf(d)' = AnswerOf(d)
  PROVE  callMap' = callMap
  BY DEF callMap, AnswerOf, IdOf

LEMMA CallMapAnswer ==
  ASSUME NEW d \in Deletes, NEW answer, \A e \in Deletes \ {d} : delete'[e] = delete[e],
         delete'[d].id = delete[d].id, AnswerOf(d)' = answer
  PROVE  callMap' = [callMap EXCEPT ![d].answer = answer]
<1>1. IdOf(d)' = IdOf(d)
  BY DEF IdOf
<1>2. \A e \in Deletes \ {d} : IdOf(e)' = IdOf(e) /\ AnswerOf(e)' = AnswerOf(e)
  BY DEF IdOf, AnswerOf
<1> QED
  BY <1>1, <1>2 DEF callMap

LEMMA CallMapAt ==
  ASSUME NEW d \in Deletes
  PROVE  callMap[d] = [id |-> IdOf(d), answer |-> AnswerOf(d)]
  BY DEF callMap

\* Steps that leave the DELETEs alone, add no row and touch no file of one.
LEMMA StepIsUnseen ==
  ASSUME UNCHANGED <<nextId, delete>>,
         \A id \in RowIds : /\ rows'[id] = None <=> rows[id] = None
                            /\ rows[id] # None =>
                                 /\ rows'[id].file = rows[id].file
                                 /\ rows[id].file \in files' <=> rows[id].file \in files
  PROVE  Unseen
<1>1. \A id \in RowIds : EntryOf(id)' = EntryOf(id)
  BY DEF EntryOf
<1>2. callMap' = callMap
  BY DEF callMap, AnswerOf, IdOf
<1> QED
  BY <1>1, <1>2 DEF Unseen, entryMap

\* A register run is seen when it inserts its row.
LEMMA RegisterRefines ==
  ASSUME IInv, NEW r \in Registers,
         \/ \E mac \in Macs : ReceiveRegister(r, mac)
         \/ RegisterStep(r) \/ RegisterFails(r) \/ UploadFails(r)
  PROVE  Unseen \/ Catalog!Next
<1> USE DEF IInv, Shape, TypeOK, runVars, obsVars
<1>1. CASE SaveRow(r)
  <2>1. PICK n \in RowIds : n = nextId
    BY <1>1 DEF SaveRow
  <2>2. /\ UNCHANGED <<files, delete>> /\ r \in files
        /\ nextId' = n + 1
        /\ \A id \in RowIds \ {n} : rows'[id] = rows[id]
        /\ rows'[n] = [mac |-> register[r].mac, identifier |-> None, file |-> r, lanIp |-> r]
    BY <1>1, <2>1 DEF SaveRow, FileInv, FileBeforeRow
  <2>3. rows'[n] # None /\ rows'[n].file = r
    <3>1. [mac |-> register[r].mac, identifier |-> None, file |-> r, lanIp |-> r] \in Row
      BY <1>1 DEF SaveRow, RunsHaveSubjects, Row
    <3> QED
      BY <2>2, <3>1, NoneAssumption
  <2>4. n \in Nat /\ RowIds \subseteq Nat /\ Shape'
    BY <2>1, RegisterTypes DEF RowIds
  <2>5. EntryOf(n) = "unborn" /\ EntryOf(n)' = "here"
    BY <2>1, <2>2, <2>3, <2>4, EntryValues
  <2>6. ASSUME NEW id \in RowIds, id # n PROVE EntryOf(id)' = EntryOf(id)
    BY <2>1, <2>2, <2>4, <2>6, EntryValues
  <2>7. entryMap' = [entryMap EXCEPT ![n] = "here"]
    BY <2>5, <2>6 DEF entryMap
  <2>8. callMap' = callMap
    BY <2>2 DEF callMap, AnswerOf, IdOf
  <2>9. Catalog!Appear(n)
    BY <2>5, <2>7, <2>8 DEF Catalog!Appear, entryMap, callMap, IdOf
  <2> QED
    BY <2>9 DEF Catalog!Next
<1>2. CASE UpdateHit(r)
  <2>1. \A id \in RowIds : /\ rows'[id] = None <=> rows[id] = None
                           /\ rows[id] # None => rows'[id].file = rows[id].file
    BY <1>2, HitKeepsRows
  <2>2. UNCHANGED <<nextId, files, delete>>
    BY <1>2 DEF UpdateHit
  <2> QED
    BY <2>1, <2>2, StepIsUnseen
<1>3. CASE ~SaveRow(r) /\ ~UpdateHit(r)
  <2>1. UNCHANGED <<rows, nextId, delete>>
    BY <1>3 DEF RegisterStep, ReceiveRegister, UpdateMiss, UploadQr, FindRow, PublishStatus,
                RegisterFails, UploadFails
  <2>2. \/ files' = files
        \/ files' = files \cup {r} /\ register[r].stage = "upload"
    BY <1>3 DEF RegisterStep, ReceiveRegister, UpdateMiss, UploadQr, FindRow, PublishStatus,
                RegisterFails, UploadFails
  <2>3. \A id \in RowIds : rows[id] # None =>
           (rows[id].file \in files' <=> rows[id].file \in files)
    BY <2>2 DEF FileInv, FileBeforeRow
  <2> QED
    BY <2>1, <2>3, StepIsUnseen
<1> QED
  BY <1>1, <1>2, <1>3

\* A PATCH is not seen.
LEMMA PatchRefines ==
  ASSUME IInv, NEW p \in Patches,
         \/ \E id \in RowIds, name \in Identifiers : ReceivePatch(p, id, name)
         \/ PatchStep(p) \/ PatchFails(p)
  PROVE  Unseen
<1> USE DEF IInv, Shape, TypeOK, obsVars
<1>1. UNCHANGED <<nextId, files, delete>>
  BY DEF PatchStep, ReceivePatch, PatchRow, PatchConflict, PatchNothing, PatchFind,
         PatchTell, PatchFails
<1>2. CASE PatchRow(p)
  <2>1. PICK i \in RowIds, name \in Identifiers : i = patch[p].id /\ name = patch[p].identifier
    BY <1>2 DEF PatchRow, RunsHaveSubjects
  <2>2. /\ rows[i] # None
        /\ rows' = [rows EXCEPT ![i] = [@ EXCEPT !.identifier = name]]
    BY <1>2, <2>1 DEF PatchRow
  <2>3. rows'[i] # None /\ rows'[i].file = rows[i].file
    <3>1. /\ [rows[i] EXCEPT !.identifier = name] \in Row
          /\ [rows[i] EXCEPT !.identifier = name].file = rows[i].file
      BY <2>2 DEF Row
    <3>2. rows'[i] = [rows[i] EXCEPT !.identifier = name]
      BY <2>2
    <3> QED
      BY <3>1, <3>2, NoneAssumption
  <2> QED
    BY <1>1, <2>2, <2>3, StepIsUnseen
<1>3. CASE ~PatchRow(p)
  <2>1. rows' = rows
    BY <1>3 DEF PatchStep, ReceivePatch, PatchConflict, PatchNothing, PatchFind,
                PatchTell, PatchFails
  <2> QED
    BY <1>1, <2>1, StepIsUnseen
<1> QED
  BY <1>2, <1>3

\* A DELETE that removes a file removes the one entry that has it, if any.
LEMMA UnlinkRefines ==
  ASSUME IInv, NEW d \in Deletes, DeleteFile(d)
  PROVE  Unseen \/ Catalog!Next
<1> USE DEF IInv, Shape, TypeOK, DeleteRun, obsVars
<1>1. PICK i \in RowIds, f \in Registers : i = delete[d].id /\ f = delete[d].file
  BY DEF DeleteFile, RunsHaveSubjects
<1>2. /\ UNCHANGED <<rows, nextId>> /\ files' = files \ {f}
      /\ \A e \in Deletes \ {d} : delete'[e] = delete[e]
      /\ delete[d].stage = "unlink" /\ delete'[d].stage = "remove"
      /\ delete'[d].id = delete[d].id
  BY <1>1 DEF DeleteFile
<1>3. /\ \A id \in RowIds : rows[id] # None /\ rows[id].file = f => id = i
      /\ rows[i] # None => rows[i].file = f
      /\ i < nextId
  BY <1>1, <1>2 DEF FileInv, FilesArePrivate
<1>4. callMap[d] = [id |-> i, answer |-> "pending"] /\ callMap' = callMap
  <2>1. AnswerOf(d) = "pending" /\ AnswerOf(d)' = "pending"
    BY <1>2 DEF AnswerOf
  <2>2. IdOf(d) = i
    BY <1>1, NoneAssumption DEF IdOf, RowIds
  <2> QED
    BY <1>2, <2>1, <2>2, CallMapAt, CallMapStays
<1>5. Shape' /\ i \in Nat /\ nextId \in Nat
  BY DeleteTypes, BoundAssumption DEF DeleteStep, RowIds
<1>6. CASE rows[i] # None /\ f \in files
  <2>1. EntryOf(i) = "here" /\ EntryOf(i)' = "gone"
    BY <1>2, <1>3, <1>5, <1>6, EntryValues
  <2>2. \A id \in RowIds \ {i} : EntryOf(id)' = EntryOf(id)
    BY <1>2, <1>3, <1>5, EntryValues
  <2>3. entryMap' = [entryMap EXCEPT ![i] = "gone"]
    BY <2>1, <2>2 DEF entryMap
  <2>4. Catalog!Disappear(i)
    BY <1>4, <2>1, <2>3 DEF Catalog!Disappear, entryMap, callMap, IdOf
  <2> QED
    BY <2>4 DEF Catalog!Next
<1>7. CASE ~(rows[i] # None /\ f \in files)
  <2>1. \A id \in RowIds : EntryOf(id)' = EntryOf(id)
    BY <1>2, <1>3, <1>5, <1>7, EntryValues
  <2> QED
    BY <1>4, <2>1 DEF Unseen, entryMap
<1> QED
  BY <1>6, <1>7

\* The removal of the row is seen by the caller only: the entry is gone already.
LEMMA RemoveRefines ==
  ASSUME IInv, NEW d \in Deletes, DeleteRow(d)
  PROVE  Catalog!Next
<1> USE DEF IInv, Shape, TypeOK, DeleteRun
<1>1. PICK i \in RowIds : i = delete[d].id
  BY DEF DeleteRow, RunsHaveSubjects
<1>2. /\ UNCHANGED <<nextId, files>>
      /\ \A e \in Deletes \ {d} : delete'[e] = delete[e]
      /\ delete[d].stage = "remove" /\ delete'[d].stage = "done"
      /\ delete'[d].id = delete[d].id
      /\ rows'[i] = None /\ \A id \in RowIds \ {i} : rows'[id] = rows[id]
  BY <1>1 DEF DeleteRow
<1>3. /\ rows[i] # None => rows[i].file \notin files
      /\ i < nextId
  BY <1>1, <1>2 DEF FileInv, FilesArePrivate, DeletedFilesAreGone
<1>4. Shape' /\ i \in Nat /\ nextId \in Nat
  BY DeleteTypes, BoundAssumption DEF DeleteStep, RowIds
<1>5. EntryOf(i) = "gone" /\ \A id \in RowIds : EntryOf(id)' = EntryOf(id)
  BY <1>2, <1>3, <1>4, EntryValues
<1>6. AnswerOf(d) = "pending" /\ AnswerOf(d)' = "deleted" /\ IdOf(d) = i
  BY <1>1, <1>2, NoneAssumption DEF AnswerOf, IdOf, RowIds
<1>7. /\ callMap[d] = [id |-> i, answer |-> "pending"]
      /\ callMap' = [callMap EXCEPT ![d].answer = "deleted"]
  BY <1>2, <1>6, CallMapAt, CallMapAnswer
<1>8. entryMap' = entryMap /\ entryMap[callMap[d].id] = "gone" /\ callMap[d].answer = "pending"
  BY <1>5, <1>7 DEF entryMap
<1>9. Catalog!AnswerDeleted(d)
  BY <1>7, <1>8 DEF Catalog!AnswerDeleted, entryMap, callMap, IdOf
<1> QED
  BY <1>9 DEF Catalog!Next

\* The other steps of a DELETE leave every entry as it is.
LEMMA DeleteRefines ==
  ASSUME IInv, UnaskedInv, NEW d \in Deletes,
         \/ \E id \in RowIds : ReceiveDelete(d, id)
         \/ DeleteStep(d) \/ DeleteFails(d)
  PROVE  Unseen \/ Catalog!Next
<1> USE DEF IInv, Shape, TypeOK, DeleteRun, obsVars
<1>1. ASSUME UNCHANGED <<rows, nextId, files>> PROVE entryMap' = entryMap
  BY <1>1 DEF entryMap, EntryOf
<1>2. ASSUME NEW id \in RowIds, ReceiveDelete(d, id) PROVE Catalog!Next
  <2>1. /\ UNCHANGED <<rows, nextId, files>>
        /\ \A e \in Deletes \ {d} : delete'[e] = delete[e]
        /\ delete[d].stage = "new" /\ delete'[d].stage = "find"
        /\ delete[d].id = None /\ delete'[d].id = id
    BY <1>2 DEF ReceiveDelete, UnaskedInv
  <2>2. AnswerOf(d) = "unasked" /\ AnswerOf(d)' = "pending"
    BY <2>1 DEF AnswerOf
  <2>3. IdOf(d) = 0 /\ IdOf(d)' = id
    BY <2>1, NoneAssumption DEF IdOf, RowIds
  <2>4. callMap[d] = [id |-> 0, answer |-> "unasked"]
    BY <2>2, <2>3, CallMapAt
  <2>5. callMap' = [callMap EXCEPT ![d] = [id |-> id, answer |-> "pending"]]
    BY <2>1, <2>2, <2>3, CallMapStep
  <2>6. Catalog!Ask(d, id)
    BY <1>1, <2>1, <2>4, <2>5 DEF Catalog!Ask, Catalog!Unasked, entryMap, callMap, IdOf
  <2> QED
    BY <2>6 DEF Catalog!Next
<1>3. CASE DeleteFind(d)
  <2>1. PICK i \in RowIds : i = delete[d].id
    BY <1>3 DEF DeleteFind, RunsHaveSubjects
  <2>2. /\ UNCHANGED <<rows, nextId, files>>
        /\ \A e \in Deletes \ {d} : delete'[e] = delete[e]
        /\ delete[d].stage = "find" /\ delete'[d].id = delete[d].id
        /\ delete'[d].stage = IF rows[i] = None THEN "notfound" ELSE "unlink"
    BY <1>3, <2>1 DEF DeleteFind
  <2>3. AnswerOf(d) = "pending" /\ IdOf(d) = i
    BY <2>1, <2>2, NoneAssumption DEF AnswerOf, IdOf, RowIds
  <2>4. AnswerOf(d)' = IF rows[i] = None THEN "missing" ELSE "pending"
    BY <2>2 DEF AnswerOf
  <2>5. CASE rows[i] = None
    <3>1. EntryOf(i) # "here"
      BY <2>5 DEF EntryOf, RowsBelowNext
    <3>2. callMap[d] = [id |-> i, answer |-> "pending"]
      BY <2>3, CallMapAt
    <3>3. callMap' = [callMap EXCEPT ![d].answer = "missing"]
      BY <2>2, <2>4, <2>5, CallMapAnswer
    <3>4. entryMap[callMap[d].id] # "here" /\ callMap[d].answer = "pending"
      BY <3>1, <3>2 DEF entryMap
    <3>5. Catalog!AnswerMissing(d)
      BY <1>1, <2>2, <3>3, <3>4 DEF Catalog!AnswerMissing, entryMap, callMap, IdOf
    <3> QED
      BY <3>5 DEF Catalog!Next
  <2>6. CASE rows[i] # None
    <3>1. callMap' = callMap
      BY <2>2, <2>3, <2>4, <2>6, CallMapStays
    <3> QED
      BY <1>1, <2>2, <3>1 DEF Unseen
  <2> QED
    BY <2>5, <2>6
<1>4. CASE DeleteFails(d)
  <2>1. /\ UNCHANGED <<rows, nextId, files>>
        /\ \A e \in Deletes \ {d} : delete'[e] = delete[e]
        /\ delete[d].stage \in {"find", "unlink", "remove"}
        /\ delete'[d].stage \in {"failed", "halfway"}
        /\ delete'[d].id = delete[d].id
    BY <1>4 DEF DeleteFails
  <2>2. AnswerOf(d) = "pending" /\ AnswerOf(d)' = "failed"
    BY <2>1 DEF AnswerOf
  <2>3. callMap[d].answer = "pending" /\ callMap' = [callMap EXCEPT ![d].answer = "failed"]
    <3>1. callMap[d].answer = "pending"
      BY ONLY <2>2, d \in Deletes DEF callMap
    <3>2. callMap' = [callMap EXCEPT ![d].answer = "failed"]
      BY ONLY <2>1, <2>2, CallMapAnswer, d \in Deletes
    <3> QED
      BY <3>1, <3>2
  <2>4. callMap' = [e \in Deletes |-> IF e \in {d} THEN [callMap[e] EXCEPT !.answer = "failed"]
                                                  ELSE callMap[e]]
    <3>1. callMap = [e \in Deletes |-> callMap[e]]
      BY DEF callMap
    <3> QED
      BY ONLY <2>3, <3>1
  <2>5. Catalog!Fail({d})
    BY <1>1, <2>1, <2>3, <2>4 DEF Catalog!Fail, entryMap, callMap, IdOf
  <2> QED
    BY <2>5 DEF Catalog!Next
<1> QED
  BY <1>2, <1>3, <1>4, UnlinkRefines, RemoveRefines DEF DeleteStep

\* A crash fails every DELETE under way.
LEMMA CrashRefines ==
  ASSUME IInv, NEW S \in SUBSET Registers, Crash(S)
  PROVE  Catalog!Next
<1> USE DEF IInv, Shape, TypeOK, DeleteRun
<1> DEFINE D == {d \in Deletes : DeleteBusy(d)}
<1>1. /\ UNCHANGED <<rows, nextId>> /\ files' = files \cup S
      /\ \A r \in S : register[r].stage = "upload"
  BY DEF Crash
<1>2. \A id \in RowIds : rows[id] # None =>
         (rows[id].file \in files' <=> rows[id].file \in files)
  BY <1>1 DEF FileInv, FileBeforeRow
<1>3. entryMap' = entryMap
  BY <1>1, <1>2 DEF entryMap, EntryOf
<1>4. ASSUME NEW d \in D
      PROVE  /\ AnswerOf(d) = "pending" /\ AnswerOf(d)' = "failed"
             /\ delete'[d].id = delete[d].id
  <2>1. /\ delete[d].stage \in {"find", "unlink", "remove"}
        /\ delete'[d].stage \in {"failed", "halfway"}
        /\ delete'[d].id = delete[d].id
    BY <1>4 DEF Crash, DeleteBusy
  <2> QED
    BY <2>1 DEF AnswerOf
<1>5. ASSUME NEW d \in Deletes \ D PROVE delete'[d] = delete[d]
  BY <1>5 DEF Crash, DeleteBusy
<1>6. callMap' = [d \in Deletes |-> IF d \in D THEN [callMap[d] EXCEPT !.answer = "failed"]
                                              ELSE callMap[d]]
  <2>1. \A d \in D : [id |-> IdOf(d)', answer |-> AnswerOf(d)']
                      = [callMap[d] EXCEPT !.answer = "failed"]
    BY <1>4 DEF callMap, IdOf
  <2>2. \A d \in Deletes \ D : [id |-> IdOf(d)', answer |-> AnswerOf(d)'] = callMap[d]
    BY <1>5 DEF callMap, AnswerOf, IdOf
  <2> QED
    BY <2>1, <2>2 DEF callMap
<1>7. \A d \in D : callMap[d].answer = "pending"
  BY <1>4 DEF callMap
<1> HIDE DEF D
<1>8. PICK C \in SUBSET Deletes : C = D
  BY DEF D
<1>9. /\ \A d \in C : callMap[d].answer = "pending"
      /\ callMap' = [d \in Deletes |-> IF d \in C THEN [callMap[d] EXCEPT !.answer = "failed"]
                                              ELSE callMap[d]]
  BY <1>6, <1>7, <1>8
<1>10. Catalog!Fail(C)
  BY <1>3, <1>9 DEF Catalog!Fail, entryMap, callMap, IdOf
<1> QED
  BY <1>10 DEF Catalog!Next

LEMMA CatalogStep == IInv /\ UnaskedInv /\ [Next]_vars => Unseen \/ Catalog!Next
<1> SUFFICES ASSUME IInv, UnaskedInv, [Next]_vars PROVE Unseen \/ Catalog!Next
  OBVIOUS
<1>1. CASE UNCHANGED vars
  BY <1>1, StepIsUnseen DEF vars, runVars
<1> QED
  BY <1>1, RegisterRefines, PatchRefines, DeleteRefines, CrashRefines DEF Next, Quiet

(***************************************************************************)
(* For those who call DELETE the registrations are the catalogue of        *)
(* RecordCatalog, with any number of printers and calls: a record never    *)
(* comes back, goes with its file and on request only, and the answers     *)
(* agree with that.                                                        *)
(***************************************************************************)
THEOREM RegistrationIsCatalog == Spec => ImplementsCatalog
<1>1. Init => Catalog!Init
  BY CatalogInit
<1>2. IInv /\ UnaskedInv /\ [Next]_vars =>
         [Catalog!Next]_<<[id \in RowIds |-> EntryOf(id)],
                          [d \in Deletes |->
                             [id |-> IF delete[d].id = None THEN 0 ELSE delete[d].id,
                              answer |-> AnswerOf(d)]]>>
  BY CatalogStep DEF Unseen, entryMap, callMap, IdOf
<1>3. Init => UnaskedInv
  BY DEF Init, UnaskedInv
<1>4. IInv /\ UnaskedInv /\ [Next]_vars => UnaskedInv'
  BY UnaskedStep DEF IInv
<1> QED
  BY <1>1, <1>2, <1>3, <1>4, IInvAlways, PTL DEF Spec, ImplementsCatalog, Catalog!Spec

=============================================================================

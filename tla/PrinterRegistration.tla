------------------------ MODULE PrinterRegistration ------------------------
(***************************************************************************)
(* The registration of printers: PrinterService.handleRegister and the     *)
(* PATCH, DELETE and QR code calls of PrinterRegisterService.              *)
(*                                                                         *)
(* A printer registers over MQTT.  The server updates the printer's row in *)
(* pre_printer_register or, if there is none, creates a QR code file and a *)
(* row for it, and answers whether the row has an identifier.  The QR code *)
(* leads to the address in the row.  An operator gives a row its           *)
(* identifier (PATCH), upon which the printer is told that it is           *)
(* registered and unlocked, or removes it with its file (DELETE).          *)
(*                                                                         *)
(* A stage names the command a run awaits.  One action is the execution of *)
(* that command by MySQL or by the storage together with what the run does *)
(* next, up to its next command; only publishing, which the run does after *)
(* it resumes, is an action of its own.  Commands of different runs travel *)
(* over different pooled connections and execute in any order.             *)
(***************************************************************************)
EXTENDS Naturals

CONSTANTS
    Macs,         \* the printers
    Identifiers,  \* the names an operator may give
    Registers,    \* register messages: one run of handleRegister each; it
                  \* also stands for the address in the message and for the
                  \* key of the QR file the run uploads
    Patches,      \* PATCH calls
    Deletes,      \* DELETE calls
    MaxRows,      \* bound on the rows ever inserted
    MaxFaults,    \* bound on failed commands and crashes
    None          \* no value

ASSUME BoundAssumption == MaxRows \in Nat /\ MaxFaults \in Nat

VARIABLES
    rows,        \* the table: AUTO_INCREMENT id -> row, or None
    nextId,      \* the next AUTO_INCREMENT value
    files,       \* QR code files in the storage
    register,    \* the runs of handleRegister
    patch,       \* the PATCH calls
    delete,      \* the DELETE calls
    told,        \* the last registration status published to each printer
    unlocked,    \* printers with a retained "unlock" from a PATCH
    faults,      \* failed commands and crashes so far
    \* Observations, read by properties only:
    raced,       \* printers for which two runs missed the row together
    named,       \* printers whose row has had an identifier
    stale,       \* printers whose last status may be out of date
    newest,      \* the last register message received of each printer
    overlapped   \* printers that sent one before the last was stored

runVars  == <<register, patch, delete>>
obsVars  == <<raced, named, stale, newest, overlapped>>
vars == <<rows, nextId, files, runVars, told, unlocked, faults, obsVars>>

RowIds == 1..MaxRows

Row == [mac : Macs, identifier : Identifiers \cup {None}, file : Registers,
        lanIp : Registers]

(***************************************************************************)
(* The stages of a run.  "leaked" is a register run that failed in or      *)
(* after its upload, "halfway" a DELETE that failed after it removed the   *)
(* file.                                                                   *)
(***************************************************************************)
RegisterStages == {"new", "update", "upload", "save", "find", "answer",
                   "done", "failed", "leaked"}
PatchStages    == {"new", "update", "find", "tell", "done", "failed"}
DeleteStages   == {"new", "find", "unlink", "remove",
                   "done", "notfound", "failed", "halfway"}

RegisterRun == [stage : RegisterStages, mac : Macs \cup {None}, registered : BOOLEAN]
PatchRun    == [stage : PatchStages, id : RowIds \cup {None},
                identifier : Identifiers \cup {None},
                affected : BOOLEAN, mac : Macs \cup {None}]
DeleteRun   == [stage : DeleteStages, id : RowIds \cup {None},
                file : Registers \cup {None}]

ASSUME NoneAssumption ==
    None \notin Macs \cup Identifiers \cup Registers \cup Nat \cup Row

Init ==
    /\ rows     = [id \in RowIds |-> None]
    /\ nextId   = 1
    /\ files    = {}
    /\ register = [r \in Registers |->
                     [stage |-> "new", mac |-> None, registered |-> FALSE]]
    /\ patch    = [p \in Patches |->
                     [stage |-> "new", id |-> None, identifier |-> None,
                      affected |-> FALSE, mac |-> None]]
    /\ delete   = [d \in Deletes |-> [stage |-> "new", id |-> None, file |-> None]]
    /\ told     = [mac \in Macs |-> None]
    /\ unlocked = {}
    /\ faults   = 0
    /\ raced    = {}
    /\ named    = {}
    /\ stale    = {}
    /\ newest   = [mac \in Macs |-> None]
    /\ overlapped = {}

-----------------------------------------------------------------------------
RowsOf(mac) == {id \in RowIds : rows[id] # None /\ rows[id].mac = mac}

\* r found no row for its printer and has not inserted one yet.
InGap(r) == register[r].stage \in {"upload", "save"}

\* r has not stored the address it was sent yet.
Storing(r) == register[r].stage \in {"update", "upload", "save"}

\* A status of mac has been read from the table but not yet published.
Unpublished(mac) ==
    \/ \E r \in Registers : register[r].stage = "answer" /\ register[r].mac = mac
    \/ \E p \in Patches : patch[p].stage = "tell" /\ patch[p].mac = mac

\* The status of mac changes: one read before is out of date.
Outdated(mac) == IF Unpublished(mac) THEN {mac} ELSE {}

\* Two runs have missed the row of mac: both will insert one.
Racing(mac) ==
    IF \E s \in Registers : InGap(s) /\ register[s].mac = mac THEN {mac} ELSE {}

\* Whom a run that stops now leaves with an old status.
Unanswered(r) ==
    IF register[r].stage \in {"find", "answer"} THEN {register[r].mac} ELSE {}
Untold(p) ==
    LET row == IF patch[p].id = None THEN None ELSE rows[patch[p].id] IN
    CASE patch[p].stage = "find" /\ row # None          -> {row.mac}
      [] patch[p].stage = "tell" /\ patch[p].mac # None -> {patch[p].mac}
      [] OTHER                                          -> {}

-----------------------------------------------------------------------------
(* handleRegister                                                          *)

ReceiveRegister(r, mac) ==
    /\ register[r].stage = "new"
    /\ register' = [register EXCEPT ![r] = [@ EXCEPT !.stage = "update", !.mac = mac]]
    /\ newest' = [newest EXCEPT ![mac] = r]
    /\ overlapped' = IF \E s \in Registers : register[s].mac = mac /\ Storing(s)
                     THEN overlapped \cup {mac} ELSE overlapped
    /\ UNCHANGED <<rows, nextId, files, patch, delete, told, unlocked, faults, raced, named, stale>>

\* Mutant: a new row is created also when the UPDATE affected one.
UpdateHitCreates(r) ==
    /\ register[r].stage = "update"
    /\ RowsOf(register[r].mac) # {}
    /\ register' = [register EXCEPT ![r].stage = "upload"]
    /\ UNCHANGED <<rows, nextId, files, patch, delete, told, unlocked, faults, obsVars>>

\* Mutant: the UPDATE leaves the address as it is.
UpdateHitKeepsAddress(r) ==
    /\ register[r].stage = "update"
    /\ RowsOf(register[r].mac) # {}
    /\ register' = [register EXCEPT ![r].stage = "find"]
    /\ UNCHANGED <<rows, nextId, files, patch, delete, told, unlocked, faults, obsVars>>

\* UPDATE ... SET lan_ip WHERE printer_id = mac affects a row, or several.
UpdateHit(r) ==
    /\ register[r].stage = "update"
    /\ RowsOf(register[r].mac) # {}
    /\ register' = [register EXCEPT ![r].stage = "find"]
    /\ rows' = [id \in RowIds |-> IF id \in RowsOf(register[r].mac)
                                  THEN [rows[id] EXCEPT !.lanIp = r] ELSE rows[id]]
    /\ UNCHANGED <<nextId, files, patch, delete, told, unlocked, faults, obsVars>>

\* The UPDATE affects nothing: create() prepares the QR code and uploads it.
UpdateMiss(r) ==
    /\ register[r].stage = "update"
    /\ RowsOf(register[r].mac) = {}
    /\ register' = [register EXCEPT ![r].stage = "upload"]
    /\ raced' = raced \cup Racing(register[r].mac)
    /\ UNCHANGED <<rows, nextId, files, patch, delete, told, unlocked, faults, named, stale, newest, overlapped>>

\* Mutant: the run does not wait for the upload, which then fails.
UploadQrUnawaited(r) ==
    /\ register[r].stage = "upload"
    /\ register' = [register EXCEPT ![r].stage = "save"]
    /\ UNCHANGED <<rows, nextId, files, patch, delete, told, unlocked, faults, obsVars>>

UploadQr(r) ==
    /\ register[r].stage = "upload"
    /\ register' = [register EXCEPT ![r].stage = "save"]
    /\ files' = files \cup {r}
    /\ UNCHANGED <<rows, nextId, patch, delete, told, unlocked, faults, obsVars>>

\* Mutant: the row is saved without the key of its file.
SaveRowKeyless(r) ==
    /\ register[r].stage = "save"
    /\ nextId \in RowIds
    /\ register' = [register EXCEPT ![r].stage = "find"]
    /\ rows' = [rows EXCEPT ![nextId] =
                  [mac |-> register[r].mac, identifier |-> None, file |-> None,
                   lanIp |-> r]]
    /\ nextId' = nextId + 1
    /\ stale' = stale \cup Outdated(register[r].mac)
    /\ UNCHANGED <<files, patch, delete, told, unlocked, faults, raced, named, newest, overlapped>>

\* repo.save: printer_id is not unique, so the INSERT always goes through.
SaveRow(r) ==
    /\ register[r].stage = "save"
    /\ nextId \in RowIds
    /\ register' = [register EXCEPT ![r].stage = "find"]
    /\ rows' = [rows EXCEPT ![nextId] =
                  [mac |-> register[r].mac, identifier |-> None, file |-> r,
                   lanIp |-> r]]
    /\ nextId' = nextId + 1
    /\ stale' = stale \cup Outdated(register[r].mac)
    /\ UNCHANGED <<files, patch, delete, told, unlocked, faults, raced, named, newest, overlapped>>

\* findByPrinterId takes any row of the printer; without one it is unregistered.
FindRow(r) ==
    /\ register[r].stage = "find"
    /\ LET ids == RowsOf(register[r].mac) IN
       \E registered \in IF ids = {} THEN {FALSE}
                                    ELSE {rows[id].identifier # None : id \in ids} :
          register' = [register EXCEPT ![r] =
                         [@ EXCEPT !.stage = "answer", !.registered = registered]]
    /\ UNCHANGED <<rows, nextId, files, patch, delete, told, unlocked, faults, obsVars>>

\* Mutant: every printer that registers is unlocked.
PublishStatusUnlocks(r) ==
    /\ register[r].stage = "answer"
    /\ register' = [register EXCEPT ![r].stage = "done"]
    /\ told' = [told EXCEPT ![register[r].mac] = register[r].registered]
    /\ unlocked' = unlocked \cup {register[r].mac}
    /\ UNCHANGED <<rows, nextId, files, patch, delete, faults, obsVars>>

PublishStatus(r) ==
    /\ register[r].stage = "answer"
    /\ register' = [register EXCEPT ![r].stage = "done"]
    /\ told' = [told EXCEPT ![register[r].mac] = register[r].registered]
    /\ UNCHANGED <<rows, nextId, files, patch, delete, unlocked, faults, obsVars>>

\* A command fails: handleRegister logs it and leaves the printer unanswered.
RegisterFails(r) ==
    /\ register[r].stage \in {"update", "save", "find"}
    /\ faults < MaxFaults
    /\ faults' = faults + 1
    /\ register' = [register EXCEPT ![r].stage =
                      IF @ = "save" THEN "leaked" ELSE "failed"]
    /\ stale' = stale \cup Unanswered(r)
    /\ UNCHANGED <<rows, nextId, files, patch, delete, told, unlocked, raced, named, newest, overlapped>>

\* writeFile fails: it may have created the file and written part of it.
UploadFails(r) ==
    /\ register[r].stage = "upload"
    /\ faults < MaxFaults
    /\ faults' = faults + 1
    /\ \/ register' = [register EXCEPT ![r].stage = "failed"] /\ UNCHANGED files
       \/ register' = [register EXCEPT ![r].stage = "leaked"] /\ files' = files \cup {r}
    /\ UNCHANGED <<rows, nextId, patch, delete, told, unlocked, obsVars>>

-----------------------------------------------------------------------------
(* PATCH /printer-register/:id                                             *)

ReceivePatch(p, id, identifier) ==
    /\ patch[p].stage = "new"
    /\ patch' = [patch EXCEPT ![p] =
                   [@ EXCEPT !.stage = "update", !.id = id, !.identifier = identifier]]
    /\ UNCHANGED <<rows, nextId, files, register, delete, told, unlocked, faults, obsVars>>

\* Some other row holds the identifier: the unique index refuses the UPDATE.
IdentifierTaken(p) ==
    \E id \in RowIds \ {patch[p].id} :
        rows[id] # None /\ rows[id].identifier = patch[p].identifier

PatchRow(p) ==
    /\ patch[p].stage = "update"
    /\ rows[patch[p].id] # None
    /\ ~IdentifierTaken(p)
    /\ patch' = [patch EXCEPT ![p] = [@ EXCEPT !.stage = "find", !.affected = TRUE]]
    /\ rows' = [rows EXCEPT ![patch[p].id] =
                  [@ EXCEPT !.identifier = patch[p].identifier]]
    /\ named' = named \cup {rows[patch[p].id].mac}
    /\ stale' = stale \cup Outdated(rows[patch[p].id].mac)
    /\ UNCHANGED <<nextId, files, register, delete, told, unlocked, faults, raced, newest, overlapped>>

PatchConflict(p) ==
    /\ patch[p].stage = "update"
    /\ rows[patch[p].id] # None
    /\ IdentifierTaken(p)
    /\ patch' = [patch EXCEPT ![p].stage = "failed"]
    /\ UNCHANGED <<rows, nextId, files, register, delete, told, unlocked, faults, obsVars>>

\* No row has this id.  update() goes on regardless of result.affected.
PatchNothing(p) ==
    /\ patch[p].stage = "update"
    /\ rows[patch[p].id] = None
    /\ patch' = [patch EXCEPT ![p].stage = "find"]
    /\ UNCHANGED <<rows, nextId, files, register, delete, told, unlocked, faults, obsVars>>

\* A row that was inserted after the UPDATE missed it is found all the same.
PatchFind(p) ==
    /\ patch[p].stage = "find"
    /\ LET row == rows[patch[p].id] IN
       /\ patch' = [patch EXCEPT ![p] =
                      [@ EXCEPT !.stage = "tell",
                                !.mac = IF row = None THEN None ELSE row.mac]]
       /\ stale' = IF row # None /\ ~patch[p].affected
                   THEN stale \cup {row.mac} ELSE stale
    /\ UNCHANGED <<rows, nextId, files, register, delete, told, unlocked, faults, raced, named, newest, overlapped>>

\* Mutant: the printer is unlocked without being told its status.
PatchTellUnlockOnly(p) ==
    /\ patch[p].stage = "tell"
    /\ patch' = [patch EXCEPT ![p].stage = "done"]
    /\ unlocked' = unlocked \cup ({patch[p].mac} \ {None})
    /\ UNCHANGED <<rows, nextId, files, register, delete, told, faults, obsVars>>

\* Mutant: the printer is told its status and not unlocked.
PatchTellStatusOnly(p) ==
    /\ patch[p].stage = "tell"
    /\ patch' = [patch EXCEPT ![p].stage = "done"]
    /\ told' = [told EXCEPT ![patch[p].mac] = TRUE]
    /\ UNCHANGED <<rows, nextId, files, register, delete, unlocked, faults, obsVars>>

\* if (record?.printerId) publish the status and a retained unlock; answer 200.
PatchTell(p) ==
    /\ patch[p].stage = "tell"
    /\ patch' = [patch EXCEPT ![p].stage = "done"]
    /\ IF patch[p].mac # None
       THEN /\ told' = [told EXCEPT ![patch[p].mac] = TRUE]
            /\ unlocked' = unlocked \cup {patch[p].mac}
       ELSE UNCHANGED <<told, unlocked>>
    /\ UNCHANGED <<rows, nextId, files, register, delete, faults, obsVars>>

PatchFails(p) ==
    /\ patch[p].stage \in {"update", "find"}
    /\ faults < MaxFaults
    /\ faults' = faults + 1
    /\ patch' = [patch EXCEPT ![p].stage = "failed"]
    /\ stale' = stale \cup Untold(p)
    /\ UNCHANGED <<rows, nextId, files, register, delete, told, unlocked, raced, named, newest, overlapped>>

-----------------------------------------------------------------------------
(* DELETE /printer-register/:id                                            *)

ReceiveDelete(d, id) ==
    /\ delete[d].stage = "new"
    /\ delete' = [delete EXCEPT ![d] = [@ EXCEPT !.stage = "find", !.id = id]]
    /\ UNCHANGED <<rows, nextId, files, register, patch, told, unlocked, faults, obsVars>>

\* Mutant: the file is left in the storage.
DeleteFindKeepsFile(d) ==
    /\ delete[d].stage = "find"
    /\ LET row == rows[delete[d].id] IN
       delete' = [delete EXCEPT ![d] =
                    IF row = None
                    THEN [@ EXCEPT !.stage = "notfound"]
                    ELSE [@ EXCEPT !.stage = "remove", !.file = row.file]]
    /\ UNCHANGED <<rows, nextId, files, register, patch, told, unlocked, faults, obsVars>>

DeleteFind(d) ==
    /\ delete[d].stage = "find"
    /\ LET row == rows[delete[d].id] IN
       delete' = [delete EXCEPT ![d] =
                    IF row = None
                    THEN [@ EXCEPT !.stage = "notfound"]
                    ELSE [@ EXCEPT !.stage = "unlink", !.file = row.file]]
    /\ UNCHANGED <<rows, nextId, files, register, patch, told, unlocked, faults, obsVars>>

\* Mutant: the removal of the file is not awaited, and fails.
DeleteFileUnawaited(d) ==
    /\ delete[d].stage = "unlink"
    /\ delete' = [delete EXCEPT ![d].stage = "remove"]
    /\ UNCHANGED <<rows, nextId, files, register, patch, told, unlocked, faults, obsVars>>

\* The storage ignores a file that is already gone.
DeleteFile(d) ==
    /\ delete[d].stage = "unlink"
    /\ delete' = [delete EXCEPT ![d].stage = "remove"]
    /\ files' = files \ {delete[d].file}
    /\ UNCHANGED <<rows, nextId, register, patch, told, unlocked, faults, obsVars>>

\* The printer is not told.
DeleteRow(d) ==
    /\ delete[d].stage = "remove"
    /\ delete' = [delete EXCEPT ![d].stage = "done"]
    /\ rows' = [rows EXCEPT ![delete[d].id] = None]
    /\ stale' = IF rows[delete[d].id] # None
                THEN stale \cup Outdated(rows[delete[d].id].mac) ELSE stale
    /\ UNCHANGED <<nextId, files, register, patch, told, unlocked, faults, raced, named, newest, overlapped>>

DeleteFails(d) ==
    /\ delete[d].stage \in {"find", "unlink", "remove"}
    /\ faults < MaxFaults
    /\ faults' = faults + 1
    /\ delete' = [delete EXCEPT ![d].stage =
                    IF @ = "remove" THEN "halfway" ELSE "failed"]
    /\ UNCHANGED <<rows, nextId, files, register, patch, told, unlocked, obsVars>>

-----------------------------------------------------------------------------
(***************************************************************************)
(* The process dies and is restarted: whatever was awaiting never resumes. *)
(* S are the register runs that leave a part of their QR code behind.      *)
(***************************************************************************)
Crash(S) ==
    /\ faults < MaxFaults
    /\ faults' = faults + 1
    /\ \A r \in S : register[r].stage = "upload"
    /\ files' = files \cup S
    /\ register' = [r \in Registers |->
         CASE register[r].stage = "save" \/ r \in S -> [register[r] EXCEPT !.stage = "leaked"]
           [] register[r].stage \in {"update", "upload", "find", "answer"} /\ r \notin S
                -> [register[r] EXCEPT !.stage = "failed"]
           [] OTHER -> register[r]]
    /\ patch' = [p \in Patches |->
         IF patch[p].stage \in {"update", "find", "tell"}
         THEN [patch[p] EXCEPT !.stage = "failed"] ELSE patch[p]]
    /\ delete' = [d \in Deletes |->
         CASE delete[d].stage = "remove" -> [delete[d] EXCEPT !.stage = "halfway"]
           [] delete[d].stage \in {"find", "unlink"}
                -> [delete[d] EXCEPT !.stage = "failed"]
           [] OTHER -> delete[d]]
    /\ stale' = stale \cup (UNION {Unanswered(r) : r \in Registers})
                     \cup (UNION {Untold(p) : p \in Patches})
    /\ UNCHANGED <<rows, nextId, told, unlocked, raced, named, newest, overlapped>>

RegisterBusy(r) == register[r].stage \in {"update", "upload", "save", "find", "answer"}
PatchBusy(p)    == patch[p].stage \in {"update", "find", "tell"}
DeleteBusy(d)   == delete[d].stage \in {"find", "unlink", "remove"}

\* Nothing is being awaited: the model may rest.
Quiet ==
    /\ \A r \in Registers : ~RegisterBusy(r)
    /\ \A p \in Patches : ~PatchBusy(p)
    /\ \A d \in Deletes : ~DeleteBusy(d)
    /\ UNCHANGED vars

RegisterStep(r) ==
    \/ UpdateHit(r) \/ UpdateMiss(r) \/ UploadQr(r) \/ SaveRow(r)
    \/ FindRow(r) \/ PublishStatus(r)
PatchStep(p) ==
    PatchRow(p) \/ PatchConflict(p) \/ PatchNothing(p) \/ PatchFind(p) \/ PatchTell(p)
DeleteStep(d) ==
    DeleteFind(d) \/ DeleteFile(d) \/ DeleteRow(d)

Next ==
    \/ \E r \in Registers, mac \in Macs : ReceiveRegister(r, mac)
    \/ \E r \in Registers : RegisterStep(r) \/ RegisterFails(r) \/ UploadFails(r)
    \/ \E p \in Patches, id \in RowIds, name \in Identifiers : ReceivePatch(p, id, name)
    \/ \E p \in Patches : PatchStep(p) \/ PatchFails(p)
    \/ \E d \in Deletes, id \in RowIds : ReceiveDelete(d, id)
    \/ \E d \in Deletes : DeleteStep(d) \/ DeleteFails(d)
    \/ \E S \in SUBSET Registers : Crash(S)
    \/ Quiet

Spec == Init /\ [][Next]_vars

-----------------------------------------------------------------------------
(***************************************************************************)
(* Type invariant.                                                         *)
(***************************************************************************)
TypeOK ==
    /\ rows     \in [RowIds -> Row \cup {None}]
    /\ nextId   \in 1..(MaxRows + 1)
    /\ files    \subseteq Registers
    /\ register \in [Registers -> RegisterRun]
    /\ patch    \in [Patches -> PatchRun]
    /\ delete   \in [Deletes -> DeleteRun]
    /\ told     \in [Macs -> BOOLEAN \cup {None}]
    /\ unlocked \subseteq Macs
    /\ faults   \in 0..MaxFaults
    /\ raced    \subseteq Macs
    /\ named    \subseteq Macs
    /\ stale    \subseteq Macs
    /\ newest   \in [Macs -> Registers \cup {None}]
    /\ overlapped \subseteq Macs

(***************************************************************************)
(* A printer has at most one row, though printer_id is not unique and the  *)
(* row is looked for and inserted by separate commands: a second row needs *)
(* two register runs that both missed it before either inserted it.        *)
(***************************************************************************)
OneRowPerPrinter ==
    \A mac \in Macs \ raced : \A i, j \in RowsOf(mac) : i = j

(***************************************************************************)
(* Every row has its QR code file, except while a DELETE of this row is    *)
(* between removing the file and removing the row, or stopped there.       *)
(***************************************************************************)
RowsHaveFiles ==
    \A id \in RowIds : rows[id] # None =>
        \/ rows[id].file \in files
        \/ \E d \in Deletes : delete[d].id = id /\ delete[d].stage \in {"remove", "halfway"}

(***************************************************************************)
(* Every QR code file belongs to a row, except while a register run is     *)
(* between its upload and its INSERT, or stopped in the upload or there:   *)
(* DELETE leaves none behind, whatever runs overlap.                       *)
(***************************************************************************)
FilesHaveRows ==
    \A r \in files :
        \/ \E id \in RowIds : rows[id] # None /\ rows[id].file = r
        \/ register[r].stage \in {"save", "leaked"}

(***************************************************************************)
(* A printer is unlocked for good only after its row was given an          *)
(* identifier, or by a PATCH of a row that did not exist at its UPDATE and *)
(* was inserted before its SELECT.                                         *)
(***************************************************************************)
UnlockIsEarned ==
    \A mac \in unlocked :
        \/ mac \in named
        \/ \E p \in Patches :
              patch[p].stage = "done" /\ patch[p].mac = mac /\ ~patch[p].affected

\* No run is on its way to tell mac its status.
Settled(mac) ==
    /\ \A r \in Registers :
          register[r].mac = mac => ~RegisterBusy(r)
    /\ \A p \in Patches : mac \notin Untold(p)

(***************************************************************************)
(* Once the runs about a printer have ended, the last status it was told   *)
(* says whether its row has an identifier, unless a status was published   *)
(* after the row it was read from had changed, or a run stopped before it  *)
(* published.                                                              *)
(***************************************************************************)
ToldIsCurrent ==
    \A mac \in Macs \ (raced \cup stale) : Settled(mac) =>
        \A id \in RowsOf(mac) : told[mac] = (rows[id].identifier # None)

(***************************************************************************)
(* A PATCH that is answered with affected rows has unlocked the printer,   *)
(* unless the row is gone: neither a DELETE nor a registration between its *)
(* UPDATE, its SELECT and its publishing leaves a named printer locked.    *)
(***************************************************************************)
NamedIsUnlocked ==
    \A p \in Patches :
        LET row == rows[patch[p].id] IN
        patch[p].stage = "done" /\ patch[p].affected /\ row # None
            => row.mac \in unlocked

(***************************************************************************)
(* The QR codes of a printer lead to the address in its last register      *)
(* message once this is stored, also when its row was created, named or    *)
(* deleted meanwhile, unless the printer sent a message before its last    *)
(* one was stored: then the UPDATEs execute in any order.                  *)
(***************************************************************************)
LatestAddress ==
    \A mac \in Macs \ overlapped :
        newest[mac] # None /\ register[newest[mac]].stage \in {"find", "answer", "done"}
            => \A id \in RowsOf(mac) : rows[id].lanIp = newest[mac]

-----------------------------------------------------------------------------
\* A record is there once its row and its file are, and goes with its file.
EntryOf(id) ==
    CASE id >= nextId                                    -> "unborn"
      [] rows[id] # None /\ rows[id].file \in files      -> "here"
      [] OTHER                                           -> "gone"

AnswerOf(d) ==
    CASE delete[d].stage = "new"                         -> "unasked"
      [] delete[d].stage = "done"                        -> "deleted"
      [] delete[d].stage = "notfound"                    -> "missing"
      [] delete[d].stage \in {"failed", "halfway"}       -> "failed"
      [] OTHER                                           -> "pending"

Catalog == INSTANCE RecordCatalog WITH
    entry <- [id \in RowIds |-> EntryOf(id)],
    call  <- [d \in Deletes |->
                [id     |-> IF delete[d].id = None THEN 0 ELSE delete[d].id,
                 answer |-> AnswerOf(d)]]

(***************************************************************************)
(* For those who call DELETE the registrations are a catalogue of records: *)
(* one never comes back, goes only on request, and DELETE says that it is  *)
(* gone or missing only when this is so, also when another DELETE or a     *)
(* PATCH of the row or a new registration of the printer runs meanwhile.   *)
(***************************************************************************)
ImplementsCatalog == Catalog!Spec

=============================================================================

--------------------------- MODULE TeslaIdentity ---------------------------
(***************************************************************************)
(* The key card's durable identity: tesla_identity.c (load, save, delete), *)
(* together with the callers in tesla_key_card.c that decide when each of  *)
(* them runs (app start, tesla_key_card_prepare_identity, and the reset).  *)
(*                                                                         *)
(* One thread (the GUI thread) executes all of this, one storage call at a *)
(* time; pc names the call it is about to make.  What makes it hard is not *)
(* concurrency but what can happen between two calls: power is lost, or    *)
(* one call of several fails and the others stay done.                     *)
(*                                                                         *)
(* An identity (UID and private key) is one value of Ids: the record on    *)
(* disk covers both with one MAC (or one CRC for a version-1 record), so   *)
(* they are only ever accepted together.                                   *)
(***************************************************************************)
EXTENDS Naturals, FiniteSets

CONSTANTS
    Ids,          \* the identities the random generator may produce
    None,         \* "no identity": zeroed memory, or a NULL pointer
    FaultKinds,   \* which kinds of call may fail, a subset of AllFaults
    MaxFaults,    \* bound: failed calls in a behaviour
    MaxCrashes,   \* bound: power losses in a behaviour
    MaxResets     \* bound: resets the user asks for while the card is in service

AllFaults == {"read", "write", "remove", "rename", "crypto", "nfc"}

ASSUME ConstantsOK ==
    /\ None \notin Ids
    /\ FaultKinds \subseteq AllFaults
    /\ MaxFaults \in Nat /\ MaxCrashes \in Nat /\ MaxResets \in Nat

VARIABLES
    main,         \* identity.bin
    tmp,          \* identity.tmp
    pc,           \* the call the GUI thread makes next
    renameFor,    \* which caller the rename in progress returns to
    error,        \* tesla_identity_delete: what removing identity.bin returned
    held,         \* app->identity
    nfc,          \* the identity app->nfc was allocated with, None if app->nfc is NULL
    faults, crashes, resets,  \* the bounded events so far
    \* History, read by no action of the program:
    paired,       \* the identity last put in service and not yet reset by the user
    condemned,    \* the identity stored when the user confirmed the reset in progress
    retired       \* identities whose reset deleted the stored record (delete returned true)

disk    == <<main, tmp>>
control == <<pc, renameFor, error>>
memory  == <<held, nfc>>
bounds  == <<faults, crashes, resets>>
history == <<paired, condemned, retired>>
vars    == <<disk, control, memory, bounds, history>>

-----------------------------------------------------------------------------
(* Files.  A file is missing, holds a whole record of some identity (as    *)
(* written by this version or by the original v1 build), or is damaged:    *)
(* a wrong size, or a MAC / checksum that does not match.                  *)

Missing      == [state |-> "missing", id |-> None, version |-> 0]
Damaged      == [state |-> "damaged", id |-> None, version |-> 0]
Record(i, v) == [state |-> "whole", id |-> i, version |-> v]
File         == {Missing, Damaged} \cup [state : {"whole"}, id : Ids, version : {1, 2}]

IsWhole(f) == f.state = "whole"

(* The identity that tesla_identity_load finds when no call fails.         *)
Stored == IF IsWhole(main) THEN main.id ELSE IF IsWhole(tmp) THEN tmp.id ELSE None

(* A fresh key pair collides with no identity seen before.                 *)
Fresh == Ids \ (retired \cup {main.id, tmp.id, held, paired, condemned})

-----------------------------------------------------------------------------
PcType ==
    {"off", "idle",
     "loadMain", "loadTmp", "setKey",
     "generate", "seal", "removeTmp", "openTmp", "writeTmp", "cleanTmp",
     "unlink", "copy", "copying", "drop",
     "startNfc",
     "deleteMain", "deleteTmp", "realloc", "resume"}

TypeOK ==
    /\ main \in File /\ tmp \in File
    /\ pc \in PcType
    /\ renameFor \in {"load", "save"}
    /\ error \in {"ok", "failed"}
    /\ held \in Ids \cup {None} /\ nfc \in Ids \cup {None}
    /\ faults \in 0..MaxFaults /\ crashes \in 0..MaxCrashes /\ resets \in 0..MaxResets
    /\ paired \in Ids \cup {None}
    /\ condemned \in Ids \cup {None}
    /\ retired \subseteq Ids

(* The card answers a reader while the app sits in its event loop with an  *)
(* allocated applet; during a reset the listener is stopped.               *)
Serving == IF pc = "idle" THEN nfc ELSE None

(* The app has not run yet, or a version-1 build has left its record in    *)
(* either of the two files.                                                *)
Init ==
    /\ \/ main = Missing /\ tmp = Missing
       \/ \E i \in Ids : \/ main = Record(i, 1) /\ tmp = Missing
                         \/ main = Missing /\ tmp = Record(i, 1)
    /\ pc = "off" /\ renameFor = "load" /\ error = "ok"
    /\ held = None /\ nfc = None
    /\ faults = 0 /\ crashes = 0 /\ resets = 0
    /\ paired = None /\ condemned = None /\ retired = {}

Fails(kind) ==
    /\ kind \in FaultKinds
    /\ faults < MaxFaults
    /\ faults' = faults + 1
    /\ UNCHANGED <<crashes, resets>>

Works == UNCHANGED bounds

Goto(p) == pc' = p /\ UNCHANGED <<renameFor, error>>

-----------------------------------------------------------------------------
(* App start: tesla_crypto_alloc, then tesla_key_card_prepare_identity.    *)

Boot ==
    /\ pc = "off"
    /\ \/ Works /\ Goto("loadMain")
       \/ Fails("crypto") /\ Goto("idle")
    /\ UNCHANGED <<disk, memory, history>>

(* Mutated form: a read error is taken for a missing file.                 *)
LoadMainErrorIsAbsence ==
    /\ pc = "loadMain"
    /\ \/ Works /\ IsWhole(main) /\ held' = main.id /\ Goto("setKey")
       \/ Works /\ ~IsWhole(main) /\ held' = None /\ Goto("loadTmp")
       \/ Fails("read") /\ held' = None /\ Goto("generate")
    /\ UNCHANGED <<disk, nfc, history>>

(* Mutated form: identity.tmp is never tried.                              *)
LoadMainOnly ==
    /\ pc = "loadMain"
    /\ \/ Works /\ IsWhole(main) /\ held' = main.id /\ Goto("setKey")
       \/ Works /\ main = Missing /\ held' = None /\ Goto("generate")
       \/ Works /\ main = Damaged /\ held' = None /\ Goto("idle")
       \/ Fails("read") /\ held' = None /\ Goto("idle")
    /\ UNCHANGED <<disk, nfc, history>>

(* tesla_identity_load, first identity.bin.  A record of either version    *)
(* is decoded; a missing or damaged file sends the load to identity.tmp;   *)
(* an I/O or enclave error ends it at once.                                *)
LoadMain ==
    /\ pc = "loadMain"
    /\ \/ /\ Works
          /\ IsWhole(main) /\ held' = main.id
          /\ Goto("setKey")
       \/ /\ Works
          /\ ~IsWhole(main) /\ held' = None
          /\ Goto("loadTmp")
       \/ /\ Fails("read") \/ (main # Missing /\ Fails("crypto"))
          /\ held' = None
          /\ Goto("idle")
    /\ UNCHANGED <<disk, nfc, history>>

(* Mutated form: with identity.bin missing, what went wrong with           *)
(* identity.tmp does not become the result of the load.                    *)
LoadTmpResultDropped ==
    /\ pc = "loadTmp"
    /\ \/ Works /\ IsWhole(tmp) /\ held' = tmp.id
          /\ pc' = "unlink" /\ renameFor' = "load" /\ UNCHANGED error
       \/ /\ \/ Works /\ ~IsWhole(tmp)
             \/ Fails("read") \/ (tmp # Missing /\ Fails("crypto"))
          /\ Goto(IF main = Missing THEN "generate" ELSE "idle") /\ UNCHANGED held
    /\ UNCHANGED <<disk, nfc, history>>

(* Then identity.tmp.  NotFound, which makes the caller generate a new     *)
(* identity, is returned only when both files are missing.                 *)
LoadTmp ==
    /\ pc = "loadTmp"
    /\ \/ /\ Works
          /\ IsWhole(tmp) /\ held' = tmp.id
          /\ pc' = "unlink" /\ renameFor' = "load" /\ UNCHANGED error
       \/ /\ Works
          /\ main = Missing /\ tmp = Missing /\ Goto("generate")
          /\ UNCHANGED held
       \/ /\ Works
          /\ ~IsWhole(tmp) /\ Damaged \in {main, tmp} /\ Goto("idle")
          /\ UNCHANGED held
       \/ /\ Fails("read") \/ (tmp # Missing /\ Fails("crypto"))
          /\ Goto("idle")
          /\ UNCHANGED held
    /\ UNCHANGED <<disk, nfc, history>>

(* storage_common_rename(identity.tmp, identity.bin), a service of the     *)
(* firmware that load and save do not take to be atomic: the destination   *)
(* is unlinked, the contents appear there, the source goes away, and the   *)
(* call may stop with an error after any of these.  A load that could not  *)
(* rename still succeeds; a save does not.                                 *)
RenameReturns(ok) ==
    /\ UNCHANGED <<renameFor, error>>
    /\ pc' = CASE renameFor = "load"        -> "setKey"
               [] renameFor = "save" /\ ok  -> "startNfc"
               [] renameFor = "save" /\ ~ok -> "cleanTmp"

RenameUnlink ==
    /\ pc = "unlink"
    /\ \/ Works /\ main' = Missing /\ Goto("copy")
       \/ Fails("rename") /\ UNCHANGED main /\ RenameReturns(FALSE)
    /\ UNCHANGED <<tmp, memory, history>>

RenameCopy ==
    /\ \/ pc = "copy" /\ Works /\ main' = Damaged /\ Goto("copying")
       \/ pc = "copying" /\ Works /\ main' = tmp /\ Goto("drop")
       \/ pc \in {"copy", "copying"} /\ Fails("rename") /\ UNCHANGED main /\ RenameReturns(FALSE)
    /\ UNCHANGED <<tmp, memory, history>>

RenameDrop ==
    /\ pc = "drop"
    /\ \/ Works /\ tmp' = Missing /\ RenameReturns(TRUE)
       \/ Fails("rename") /\ UNCHANGED tmp /\ RenameReturns(FALSE)
    /\ UNCHANGED <<main, memory, history>>

(* tesla_crypto_set_private_key on the key just loaded.                    *)
SetKey ==
    /\ pc = "setKey"
    /\ \/ Works /\ Goto("startNfc")
       \/ Fails("crypto") /\ Goto("idle")
    /\ UNCHANGED <<disk, memory, history>>

-----------------------------------------------------------------------------
(* No identity found: generate one and save it.                            *)

Generate ==
    /\ pc = "generate"
    /\ \/ Works /\ Goto("seal") /\ \E i \in Fresh : held' = i
       \/ Fails("crypto") /\ Goto("idle") /\ UNCHANGED held
    /\ UNCHANGED <<disk, nfc, history>>

(* Mutated form: the identity is wiped before its record is written.       *)
SealRecordWipes ==
    /\ pc = "seal"
    /\ Works /\ Goto("removeTmp") /\ held' = None
    /\ UNCHANGED <<disk, nfc, history>>

(* tesla_identity_save up to its first storage call: encrypt the key with  *)
(* the enclave and compute the record's MAC, or return without having      *)
(* touched either file.                                                    *)
SealRecord ==
    /\ pc = "seal"
    /\ \/ Works /\ Goto("removeTmp")
       \/ Fails("crypto") /\ Goto("idle")
    /\ UNCHANGED <<disk, memory, history>>

(* storage_common_remove(identity.tmp), its result ignored.                *)
RemoveTmp ==
    /\ pc = "removeTmp"
    /\ \/ Works /\ tmp' = Missing
       \/ Fails("remove") /\ UNCHANGED tmp
    /\ Goto("openTmp")
    /\ UNCHANGED <<main, memory, history>>

(* FSOM_CREATE_ALWAYS leaves an empty file, which no load accepts.         *)
OpenTmp ==
    /\ pc = "openTmp"
    /\ \/ Works /\ tmp' = Damaged /\ Goto("writeTmp")
       \/ Fails("write") /\ UNCHANGED tmp /\ Goto("cleanTmp")
    /\ UNCHANGED <<main, memory, history>>

(* storage_file_write and storage_file_sync: only a record written whole   *)
(* and synced is renamed into place.  When the sync fails, the file may or *)
(* may not hold the record.                                                *)
WriteTmp ==
    /\ pc = "writeTmp"
    /\ \/ Works /\ tmp' = Record(held, 2) /\ pc' = "unlink" /\ renameFor' = "save" /\ UNCHANGED error
       \/ Fails("write") /\ tmp' \in {Damaged, Record(held, 2)} /\ Goto("cleanTmp")
    /\ UNCHANGED <<main, memory, history>>

(* Mutated form: a failed save is reported as a success.                   *)
CleanTmpSucceeds ==
    /\ pc = "cleanTmp"
    /\ Works /\ tmp' = Missing
    /\ Goto("startNfc")
    /\ UNCHANGED <<main, memory, history>>

(* A failed save removes the temporary file, the result again ignored, and *)
(* the app stays in its error state.                                       *)
CleanTmp ==
    /\ pc = "cleanTmp"
    /\ \/ Works /\ tmp' = Missing
       \/ Fails("remove") /\ UNCHANGED tmp
    /\ Goto("idle")
    /\ UNCHANGED <<main, memory, history>>

(* tesla_key_card_update_nfc: allocate the applet with the held identity   *)
(* and start the listener.                                                 *)
StartNfc ==
    /\ pc = "startNfc"
    /\ \/ Works /\ nfc' = held /\ paired' = held
       \/ Fails("nfc") /\ UNCHANGED <<nfc, paired>>
    /\ Goto("idle")
    /\ UNCHANGED <<disk, held, condemned, retired>>

-----------------------------------------------------------------------------
(* tesla_key_card_reset_identity.                                          *)

(* The user confirms the dialog.  The listener is stopped but app->nfc is  *)
(* kept, to be resumed should the delete fail.  Resets of a card that is   *)
(* out of service are not counted: the screen asks for them.               *)
ConfirmReset ==
    /\ pc = "idle"
    /\ \/ nfc = None /\ UNCHANGED resets
       \/ nfc # None /\ resets < MaxResets /\ resets' = resets + 1
    /\ Goto("deleteMain")
    /\ paired' = None /\ condemned' = Stored
    /\ UNCHANGED <<disk, memory, faults, crashes, retired>>

(* The dialog is cancelled instead, and the listener stopped for it does   *)
(* not start again.  (When it does, nothing changes here.)                 *)
CancelReset ==
    /\ pc = "idle" /\ nfc # None
    /\ Fails("nfc") /\ nfc' = None
    /\ UNCHANGED <<disk, control, held, history>>

(* tesla_identity_delete: FSE_OK and FSE_NOT_EXIST both count as deleted;  *)
(* identity.tmp is removed in any case and its error is dropped.           *)
DeleteMain ==
    /\ pc = "deleteMain"
    /\ \/ Works /\ main' = Missing /\ error' = "ok"
       \/ Fails("remove") /\ UNCHANGED main /\ error' = "failed"
    /\ pc' = "deleteTmp"
    /\ UNCHANGED <<tmp, renameFor, memory, history>>

(* Mutated form: a delete removes identity.bin only.                       *)
DeleteTmpForgotten ==
    /\ pc = "deleteTmp"
    /\ UNCHANGED tmp /\ Works
    /\ IF error = "ok"
       THEN /\ Goto("realloc") /\ nfc' = None /\ held' = None
            /\ retired' = retired \cup ({condemned} \ {None})
       ELSE Goto("resume") /\ UNCHANGED <<memory, retired>>
    /\ condemned' = None
    /\ UNCHANGED <<main, paired>>

(* Mutated form: the applet of the deleted identity is not freed.          *)
DeleteTmpKeepsApplet ==
    /\ pc = "deleteTmp"
    /\ Works /\ tmp' = Missing
    /\ Goto(IF error = "ok" THEN "realloc" ELSE "resume")
    /\ held' = None /\ UNCHANGED nfc
    /\ retired' = retired \cup ({condemned} \ {None})
    /\ condemned' = None
    /\ UNCHANGED <<main, paired>>

DeleteTmp ==
    /\ pc = "deleteTmp"
    /\ \/ Works /\ tmp' = Missing
       \/ Fails("remove") /\ UNCHANGED tmp
    /\ IF error = "ok"
       THEN /\ Goto("realloc")
            /\ nfc' = None /\ held' = None
            /\ retired' = retired \cup ({condemned} \ {None})
       ELSE /\ Goto("resume")
            /\ UNCHANGED <<memory, retired>>
    /\ condemned' = None
    /\ UNCHANGED <<main, paired>>

(* After a delete: a new crypto context, then prepare_identity again.      *)
ReallocCrypto ==
    /\ pc = "realloc"
    /\ \/ Works /\ Goto("loadMain")
       \/ Fails("crypto") /\ Goto("idle")
    /\ UNCHANGED <<disk, memory, history>>

(* tesla_key_card_resume_nfc after a failed delete: the old identity goes  *)
(* back in service if there is an applet and it starts.                    *)
ResumeNfc ==
    /\ pc = "resume"
    /\ \/ nfc # None /\ Works /\ paired' = nfc /\ UNCHANGED nfc
       \/ nfc # None /\ Fails("nfc") /\ nfc' = None /\ UNCHANGED paired
       \/ nfc = None /\ Works /\ UNCHANGED <<nfc, paired>>
    /\ Goto("idle")
    /\ UNCHANGED <<disk, held, condemned, retired>>

-----------------------------------------------------------------------------
(* The app is closed from its event loop, or power is lost anywhere.       *)

Stop ==
    /\ Goto("off")
    /\ held' = None /\ nfc' = None /\ condemned' = None
    /\ UNCHANGED <<disk, paired, retired>>

Exit == pc = "idle" /\ Works /\ Stop

Crash ==
    /\ pc # "off"
    /\ crashes < MaxCrashes
    /\ crashes' = crashes + 1
    /\ UNCHANGED <<faults, resets>>
    /\ Stop

(* What the GUI thread does on its own, one storage or NFC call at a time. *)
Step ==
    \/ LoadMain \/ LoadTmp \/ RenameUnlink \/ RenameCopy \/ RenameDrop \/ SetKey
    \/ Generate \/ SealRecord \/ RemoveTmp \/ OpenTmp \/ WriteTmp \/ CleanTmp
    \/ StartNfc
    \/ DeleteMain \/ DeleteTmp \/ ReallocCrypto \/ ResumeNfc

Next == Step \/ Boot \/ ConfirmReset \/ CancelReset \/ Exit \/ Crash

Spec == Init /\ [][Next]_vars

(* Every call returns; the owner opens the app, and does not keep closing  *)
(* and opening it for ever instead of the reset that the screen of a card  *)
(* out of service asks for ("Error - check logs or reset").                *)
Fairness ==
    /\ WF_vars(Step)
    /\ WF_vars(Boot)
    /\ SF_vars(nfc = None /\ ConfirmReset)

FairSpec == Spec /\ Fairness

-----------------------------------------------------------------------------
(* Safety.                                                                 *)

Holds(i) == i \in {main.id, tmp.id}

(* Whatever fails and wherever power is lost, the two files never hold two *)
(* different identities: a load that falls back to identity.tmp finds the  *)
(* identity that identity.bin held (tesla_identity_save, _load, _delete).  *)
OneIdentityOnDisk == IsWhole(main) /\ IsWhole(tmp) => main.id = tmp.id

(* A new identity is made only while neither file exists, and reaches the  *)
(* disk while there still is no identity: an unreadable or damaged record  *)
(* in either file is reported, never replaced by a fresh identity          *)
(* (tesla_key_card_prepare_identity generates on NotFound only, which      *)
(* tesla_identity_load puts together from its results for the two files).  *)
NewIdentityOnlyOnEmptyDisk ==
    [][\A i \in Ids :
        /\ held' = i /\ held # i /\ ~Holds(i) => main = Missing /\ tmp = Missing
        /\ Holds(i)' /\ ~Holds(i) => main = Missing /\ ~IsWhole(tmp)]_vars

(* An identity that has been in service stays loadable from storage until  *)
(* the user resets it ("generates a fresh P-256 identity and stores it").  *)
PairingSurvives == paired # None => Stored = paired

(* An identity whose reset reported the stored record deleted is never in  *)
(* service again ("reset deletes the local identity").                     *)
RetiredStaysRetired == nfc \notin retired

(* The abstract promise: the identity kept, the one served, and the one    *)
(* owed to the user change only as IdentityVault lets them.                *)
Vault == INSTANCE IdentityVault WITH stored <- Stored, serving <- Serving, promised <- paired
ImplementsVault == Vault!Spec

-----------------------------------------------------------------------------
(* What makes the safety properties inductive.  Each part says what the    *)
(* disk must look like for the GUI thread to be at a given call.           *)

RenamePcs == {"unlink", "copy", "copying", "drop"}

(* A rename runs only with the held identity whole in identity.tmp, and    *)
(* never over a whole identity.bin.                                        *)
RenameInv ==
    /\ pc = "loadTmp" => ~IsWhole(main) /\ held = None
    /\ pc \in RenamePcs => IsWhole(tmp) /\ tmp.id = held
    /\ pc = "unlink" => ~IsWhole(main)
    /\ pc = "copy" => main = Missing
    /\ pc = "copying" => main = Damaged
    /\ pc = "drop" => main = tmp

(* A save runs only on a disk that holds no identity.                      *)
SaveInv ==
    /\ pc \in {"generate", "seal", "removeTmp", "openTmp", "writeTmp"} => main = Missing
    /\ pc \in {"generate", "seal", "removeTmp", "openTmp"} => tmp = Missing
    /\ pc = "writeTmp" => tmp = Damaged
    /\ pc \in {"seal", "removeTmp", "openTmp", "writeTmp", "cleanTmp"} => held \in Ids
    /\ pc \in RenamePcs /\ renameFor = "save" => ~IsWhole(main) \/ main = tmp

(* What the applet is about to be given is what a load would find.         *)
ServeInv == pc \in {"setKey", "startNfc"} => held \in Ids /\ Stored = held

(* A delete that goes on after identity.bin has removed it.                *)
DeleteInv == pc = "deleteTmp" /\ error = "ok" => main = Missing

DiskInv == OneIdentityOnDisk /\ RenameInv /\ SaveInv /\ ServeInv /\ DeleteInv

(* A reset takes the stored identity away, and a save writes a new one,    *)
(* only when nobody is owed one.                                           *)
PairingInv ==
    /\ PairingSurvives
    /\ pc \in {"deleteMain", "deleteTmp", "cleanTmp"} => paired = None
    /\ pc \in RenamePcs /\ renameFor = "save" => paired = None

(* An applet exists only in the event loop or during a reset.  In the      *)
(* event loop it is that of the identity owed; in a reset, of the stored   *)
(* one, which a failed delete has left in identity.bin.                    *)
AppletInv ==
    nfc # None =>
        /\ pc \in {"idle", "deleteMain", "deleteTmp", "resume"}
        /\ pc = "idle" => paired = nfc
        /\ pc = "deleteMain" => Stored = nfc
        /\ pc = "resume" \/ (pc = "deleteTmp" /\ error = "failed") => main.id = nfc

RetiredInv ==
    /\ RetiredStaysRetired
    /\ main.id \notin retired /\ tmp.id \notin retired /\ held \notin retired

IInv == DiskInv /\ PairingInv /\ AppletInv /\ RetiredInv

-----------------------------------------------------------------------------
(* Liveness.                                                               *)

(* The card does not stay out of service: whatever failed before, starting *)
(* the app or, from its error screen, resetting the identity eventually    *)
(* puts an identity in service.                                            *)
SelfHeals == []<>(Serving # None)

(* Once faults are over, opening the app puts the identity that is on the  *)
(* disk in service by itself, whatever call a power loss interrupted and   *)
(* whichever of the two files it left the record in.                       *)
RebootRestores ==
    \A i \in Ids :
        (pc = "off" /\ Stored = i /\ faults = MaxFaults /\ crashes = MaxCrashes)
            ~> (Serving = i)

=============================================================================

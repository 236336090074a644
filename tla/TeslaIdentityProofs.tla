------------------------ MODULE TeslaIdentityProofs ------------------------
(***************************************************************************)
(* Proofs about TeslaIdentity for any set of identities and any bounds.    *)
(*                                                                         *)
(* The first part makes no assumption on which calls fail: TypeOK together *)
(* with DiskInv is inductive.  The second part says which calls the        *)
(* promises to the user depend on.                                         *)
(***************************************************************************)
EXTENDS TeslaIdentity, TLAPS

(* A whole record names an identity, the other files none.                 *)
LEMMA FileFacts ==
    /\ Missing \in File /\ Damaged \in File /\ Missing # Damaged
    /\ ~IsWhole(Missing) /\ ~IsWhole(Damaged)
    /\ Missing.id = None /\ Damaged.id = None
    /\ \A i \in Ids, v \in {1, 2} :
           Record(i, v) \in File /\ IsWhole(Record(i, v)) /\ Record(i, v).id = i
    /\ \A f \in File : IF IsWhole(f) THEN f.id \in Ids ELSE f.id = None /\ f \in {Missing, Damaged}
  BY DEF File, Missing, Damaged, Record, IsWhole

LEMMA InitDisk == Init => TypeOK /\ DiskInv
  <1> SUFFICES ASSUME Init PROVE TypeOK /\ DiskInv
    OBVIOUS
  <1>1. TypeOK
    BY FileFacts, ConstantsOK, 0 \in 0..MaxFaults, 0 \in 0..MaxCrashes, 0 \in 0..MaxResets
    DEF Init, TypeOK, PcType
  <1>2. DiskInv
    BY FileFacts DEF Init, DiskInv, OneIdentityOnDisk, RenameInv, SaveInv, ServeInv, DeleteInv, RenamePcs
  <1> QED BY <1>1, <1>2

(* Every step keeps the types.  That the record written by WriteTmp names  *)
(* an identity is in SaveInv.                                              *)
LEMMA StepType == TypeOK /\ DiskInv /\ [Next]_vars => TypeOK'
  <1> SUFFICES ASSUME TypeOK, SaveInv, [Next]_vars PROVE TypeOK'
    BY DEF DiskInv
  <1> USE FileFacts, ConstantsOK
      DEF TypeOK, PcType, SaveInv, Fails, Works, Goto, bounds, disk, memory, control, history
  <1>1. CASE Boot
    BY <1>1 DEF Boot
  <1>2. CASE LoadMain
    BY <1>2 DEF LoadMain
  <1>3. CASE LoadTmp
    BY <1>3 DEF LoadTmp
  <1>4. CASE RenameUnlink
    BY <1>4 DEF RenameUnlink, RenameReturns
  <1>5. CASE RenameCopy
    BY <1>5 DEF RenameCopy, RenameReturns
  <1>6. CASE RenameDrop
    BY <1>6 DEF RenameDrop, RenameReturns
  <1>7. CASE SetKey
    BY <1>7 DEF SetKey
  <1>8. CASE Generate
    BY <1>8 DEF Generate, Fresh
  <1>9. CASE SealRecord
    BY <1>9 DEF SealRecord
  <1>10. CASE RemoveTmp
    BY <1>10 DEF RemoveTmp
  <1>11. CASE OpenTmp
    BY <1>11 DEF OpenTmp
  <1>12. CASE WriteTmp
    BY <1>12 DEF WriteTmp
  <1>13. CASE CleanTmp
    BY <1>13 DEF CleanTmp
  <1>14. CASE StartNfc
    BY <1>14 DEF StartNfc
  <1>15. CASE ConfirmReset
    BY <1>15 DEF ConfirmReset, Stored
  <1>16. CASE CancelReset
    BY <1>16 DEF CancelReset
  <1>17. CASE DeleteMain
    BY <1>17 DEF DeleteMain
  <1>18. CASE DeleteTmp
    BY <1>18 DEF DeleteTmp
  <1>19. CASE ReallocCrypto
    BY <1>19 DEF ReallocCrypto
  <1>20. CASE ResumeNfc
    BY <1>20 DEF ResumeNfc
  <1>21. CASE Exit
    BY <1>21 DEF Exit, Stop
  <1>22. CASE Crash
    BY <1>22 DEF Crash, Stop
  <1>23. CASE UNCHANGED vars
    BY <1>23 DEF vars
  <1> QED
    BY <1>1, <1>2, <1>3, <1>4, <1>5, <1>6, <1>7, <1>8, <1>9, <1>10, <1>11, <1>12, <1>13, <1>14, <1>15, <1>16, <1>17, <1>18, <1>19, <1>20, <1>21, <1>22, <1>23 DEF Next, Step

(* Every step leaves the disk in a shape from which the next call of the   *)
(* GUI thread, or a load after a restart, finds one identity at most.      *)
LEMMA StepDisk == TypeOK /\ DiskInv /\ [Next]_vars => DiskInv'
  <1> SUFFICES ASSUME TypeOK, DiskInv, [Next]_vars PROVE DiskInv'
    OBVIOUS
  <1> USE FileFacts, ConstantsOK
      DEF TypeOK, DiskInv, OneIdentityOnDisk, RenameInv, SaveInv, ServeInv, DeleteInv, RenamePcs, Stored,
          Fails, Works, Goto, bounds, disk, memory, control, history
  <1>1. CASE Boot
    BY <1>1 DEF Boot
  <1>2. CASE LoadMain
    BY <1>2 DEF LoadMain
  <1>3. CASE LoadTmp
    BY <1>3 DEF LoadTmp
  <1>4. CASE RenameUnlink
    BY <1>4 DEF RenameUnlink, RenameReturns
  <1>5. CASE RenameCopy
    BY <1>5 DEF RenameCopy, RenameReturns
  <1>6. CASE RenameDrop
    BY <1>6 DEF RenameDrop, RenameReturns
  <1>7. CASE SetKey
    BY <1>7 DEF SetKey
  <1>8. CASE Generate
    BY <1>8 DEF Generate, Fresh
  <1>9. CASE SealRecord
    BY <1>9 DEF SealRecord
  <1>10. CASE RemoveTmp
    BY <1>10 DEF RemoveTmp
  <1>11. CASE OpenTmp
    BY <1>11 DEF OpenTmp
  <1>12. CASE WriteTmp
    BY <1>12 DEF WriteTmp
  <1>13. CASE CleanTmp
    BY <1>13 DEF CleanTmp
  <1>14. CASE StartNfc
    BY <1>14 DEF StartNfc
  <1>15. CASE ConfirmReset
    BY <1>15 DEF ConfirmReset, Stored
  <1>16. CASE CancelReset
    BY <1>16 DEF CancelReset
  <1>17. CASE DeleteMain
    BY <1>17 DEF DeleteMain
  <1>18. CASE DeleteTmp
    BY <1>18 DEF DeleteTmp
  <1>19. CASE ReallocCrypto
    BY <1>19 DEF ReallocCrypto
  <1>20. CASE ResumeNfc
    BY <1>20 DEF ResumeNfc
  <1>21. CASE Exit
    BY <1>21 DEF Exit, Stop
  <1>22. CASE Crash
    BY <1>22 DEF Crash, Stop
  <1>23. CASE UNCHANGED vars
    BY <1>23 DEF vars
  <1> QED
    BY <1>1, <1>2, <1>3, <1>4, <1>5, <1>6, <1>7, <1>8, <1>9, <1>10, <1>11, <1>12, <1>13, <1>14, <1>15, <1>16, <1>17, <1>18, <1>19, <1>20, <1>21, <1>22, <1>23 DEF Next, Step

LEMMA DiskInductive == Spec => [](TypeOK /\ DiskInv)
  <1> QED BY InitDisk, StepType, StepDisk, PTL DEF Spec

(* Files, program counter, memory and bounds stay within their types.      *)
THEOREM TypeCorrect == Spec => []TypeOK
  BY DiskInductive, PTL

(* Whichever calls fail and wherever power is lost, identity.bin and       *)
(* identity.tmp never hold two different identities.                       *)
THEOREM OneIdentity == Spec => []OneIdentityOnDisk
  <1>1. TypeOK /\ DiskInv => OneIdentityOnDisk
    BY DEF DiskInv
  <1> QED BY <1>1, DiskInductive, PTL

(* An identity that neither file holds comes into memory in Generate only, *)
(* which a load has reached by finding neither file.                       *)
LEMMA StepMade ==
    TypeOK /\ DiskInv /\ [Next]_vars =>
        [\A i \in Ids : held' = i /\ held # i /\ ~Holds(i) => main = Missing /\ tmp = Missing]_vars
  <1> SUFFICES ASSUME TypeOK, DiskInv, Next, NEW i \in Ids, held' = i, held # i, ~Holds(i)
               PROVE  main = Missing /\ tmp = Missing
    OBVIOUS
  <1>0. i # None
    BY ConstantsOK
  <1>1. CASE Generate
    BY <1>1 DEF Generate, DiskInv, SaveInv
  <1>2. CASE LoadMain \/ LoadTmp
    BY <1>0, <1>2 DEF LoadMain, LoadTmp, Holds
  <1>3. CASE DeleteTmp
    BY <1>0, <1>3 DEF DeleteTmp, memory
  <1>4. CASE Exit \/ Crash
    BY <1>0, <1>4 DEF Exit, Crash, Stop
  <1>5. CASE held' = held
    BY <1>5
  <1> QED
    BY <1>1, <1>2, <1>3, <1>4, <1>5
    DEF Next, Step, Boot, RenameUnlink, RenameCopy, RenameDrop, SetKey, SealRecord, RemoveTmp, OpenTmp,
        WriteTmp, CleanTmp, StartNfc, ConfirmReset, CancelReset, DeleteMain, ReallocCrypto, ResumeNfc, memory

(* A step that brings a new identity onto the disk starts from a disk      *)
(* without one: only WriteTmp does, at the end of a save.                  *)
LEMMA StepNewIdentity ==
    TypeOK /\ DiskInv /\ [Next]_vars =>
        [\A i \in Ids : Holds(i)' /\ ~Holds(i) => main = Missing /\ ~IsWhole(tmp)]_vars
  <1> SUFFICES ASSUME TypeOK, DiskInv, Next, NEW i \in Ids, Holds(i)', ~Holds(i)
               PROVE  main = Missing /\ ~IsWhole(tmp)
    OBVIOUS
  <1> USE FileFacts, ConstantsOK
      DEF TypeOK, DiskInv, RenameInv, SaveInv, RenamePcs, Holds,
          Works, Goto, bounds, disk, memory
  <1>1. CASE Boot
    BY <1>1 DEF Boot
  <1>2. CASE LoadMain
    BY <1>2 DEF LoadMain
  <1>3. CASE LoadTmp
    BY <1>3 DEF LoadTmp
  <1>4. CASE RenameUnlink
    BY <1>4 DEF RenameUnlink, RenameReturns
  <1>5. CASE RenameCopy
    BY <1>5 DEF RenameCopy, RenameReturns
  <1>6. CASE RenameDrop
    BY <1>6 DEF RenameDrop, RenameReturns
  <1>7. CASE SetKey
    BY <1>7 DEF SetKey
  <1>8. CASE Generate
    BY <1>8 DEF Generate, Fresh
  <1>9. CASE SealRecord
    BY <1>9 DEF SealRecord
  <1>10. CASE RemoveTmp
    BY <1>10 DEF RemoveTmp
  <1>11. CASE OpenTmp
    BY <1>11 DEF OpenTmp
  <1>12. CASE WriteTmp
    BY <1>12 DEF WriteTmp
  <1>13. CASE CleanTmp
    BY <1>13 DEF CleanTmp
  <1>14. CASE StartNfc
    BY <1>14 DEF StartNfc
  <1>15. CASE ConfirmReset
    BY <1>15 DEF ConfirmReset
  <1>16. CASE CancelReset
    BY <1>16 DEF CancelReset
  <1>17. CASE DeleteMain
    BY <1>17 DEF DeleteMain
  <1>18. CASE DeleteTmp
    BY <1>18 DEF DeleteTmp
  <1>19. CASE ReallocCrypto
    BY <1>19 DEF ReallocCrypto
  <1>20. CASE ResumeNfc
    BY <1>20 DEF ResumeNfc
  <1>21. CASE Exit
    BY <1>21 DEF Exit, Stop
  <1>22. CASE Crash
    BY <1>22 DEF Crash, Stop
  <1> QED
    BY <1>1, <1>2, <1>3, <1>4, <1>5, <1>6, <1>7, <1>8, <1>9, <1>10, <1>11, <1>12, <1>13, <1>14, <1>15, <1>16, <1>17, <1>18, <1>19, <1>20, <1>21, <1>22 DEF Next, Step

(* Neither an unreadable nor a damaged record, in either file, is ever     *)
(* replaced by a new identity: none is made while one of the files exists, *)
(* and the one that is made reaches a disk that still holds none.          *)
THEOREM NewIdentityGuarded == Spec => NewIdentityOnlyOnEmptyDisk
  <1>1. TypeOK /\ DiskInv /\ [Next]_vars =>
            [\A i \in Ids :
                /\ held' = i /\ held # i /\ ~Holds(i) => main = Missing /\ tmp = Missing
                /\ Holds(i)' /\ ~Holds(i) => main = Missing /\ ~IsWhole(tmp)]_vars
    BY StepMade, StepNewIdentity
  <1> QED BY <1>1, DiskInductive, PTL DEF Spec, NewIdentityOnlyOnEmptyDisk

-----------------------------------------------------------------------------
(* What the user is promised.  Of the four calls of storage_common_remove  *)
(* two matter, each for one promise, and each in one case only.            *)

(* In a reset, removing identity.bin fails only while it holds the record. *)
MainRemoved == pc = "deleteMain" /\ pc' = "deleteTmp" /\ ~IsWhole(main) => error' = "ok"

(* A reset that has deleted identity.bin also removes a record from        *)
(* identity.tmp.                                                           *)
TmpRemoved == pc = "deleteTmp" /\ pc' = "realloc" /\ IsWhole(tmp) => tmp' = Missing

LEMMA InitPromise == Init => PairingInv /\ AppletInv /\ RetiredInv
  BY FileFacts
  DEF Init, PairingInv, PairingSurvives, RetiredInv, RetiredStaysRetired, AppletInv, RenamePcs

(* The identity owed to the user is the stored one.  DeleteMain takes it   *)
(* away only once nobody is owed it, and if it fails it leaves it where a  *)
(* load finds it.                                                          *)
LEMMA StepPairing ==
    TypeOK /\ DiskInv /\ PairingInv /\ AppletInv /\ [Next]_vars /\ [MainRemoved]_vars
        => PairingInv' /\ AppletInv'
  <1> SUFFICES ASSUME TypeOK, DiskInv, PairingInv, AppletInv, [Next]_vars, [MainRemoved]_vars
               PROVE  PairingInv' /\ AppletInv'
    OBVIOUS
  <1> USE FileFacts, ConstantsOK
      DEF TypeOK, DiskInv, OneIdentityOnDisk, RenameInv, SaveInv, ServeInv, DeleteInv,
          RenamePcs, Stored, PairingInv, PairingSurvives, AppletInv,
          Fails, Works, Goto, bounds, disk, memory, control, history
  <1>1. CASE Boot
    BY <1>1 DEF Boot
  <1>2. CASE LoadMain
    BY <1>2 DEF LoadMain
  <1>3. CASE LoadTmp
    BY <1>3 DEF LoadTmp
  <1>4. CASE RenameUnlink
    BY <1>4 DEF RenameUnlink, RenameReturns
  <1>5. CASE RenameCopy
    BY <1>5 DEF RenameCopy, RenameReturns
  <1>6. CASE RenameDrop
    BY <1>6 DEF RenameDrop, RenameReturns
  <1>7. CASE SetKey
    BY <1>7 DEF SetKey
  <1>8. CASE Generate
    BY <1>8 DEF Generate, Fresh
  <1>9. CASE SealRecord
    BY <1>9 DEF SealRecord
  <1>10. CASE RemoveTmp
    BY <1>10 DEF RemoveTmp
  <1>11. CASE OpenTmp
    BY <1>11 DEF OpenTmp
  <1>12. CASE WriteTmp
    BY <1>12 DEF WriteTmp
  <1>13. CASE CleanTmp
    BY <1>13 DEF CleanTmp
  <1>14. CASE StartNfc
    BY <1>14 DEF StartNfc
  <1>15. CASE ConfirmReset
    BY <1>15 DEF ConfirmReset
  <1>16. CASE CancelReset
    BY <1>16 DEF CancelReset
  <1>17. CASE DeleteMain
    BY <1>17 DEF DeleteMain, MainRemoved, vars
  <1>18. CASE DeleteTmp
    BY <1>18 DEF DeleteTmp
  <1>19. CASE ReallocCrypto
    BY <1>19 DEF ReallocCrypto
  <1>20. CASE ResumeNfc
    BY <1>20 DEF ResumeNfc
  <1>21. CASE Exit
    BY <1>21 DEF Exit, Stop
  <1>22. CASE Crash
    BY <1>22 DEF Crash, Stop
  <1>23. CASE UNCHANGED vars
    BY <1>23 DEF vars
  <1> QED
    BY <1>1, <1>2, <1>3, <1>4, <1>5, <1>6, <1>7, <1>8, <1>9, <1>10, <1>11, <1>12, <1>13, <1>14, <1>15, <1>16, <1>17, <1>18, <1>19, <1>20, <1>21, <1>22, <1>23 DEF Next, Step


(* What has been retired is neither in the files nor in memory: when a     *)
(* reset reports the deletion, both files are empty and the applet and the *)
(* held key are gone.                                                      *)
LEMMA StepRetired ==
    TypeOK /\ DiskInv /\ RetiredInv /\ [Next]_vars /\ [TmpRemoved]_vars => RetiredInv'
  <1> SUFFICES ASSUME TypeOK, DiskInv, RetiredInv, [Next]_vars, [TmpRemoved]_vars
               PROVE  RetiredInv'
    OBVIOUS
  <1> USE FileFacts, ConstantsOK
      DEF TypeOK, DiskInv, RenameInv, SaveInv, ServeInv, DeleteInv, RenamePcs,
          RetiredInv, RetiredStaysRetired,
          Fails, Works, Goto, bounds, disk, memory, control, history
  <1>1. CASE Boot
    BY <1>1 DEF Boot
  <1>2. CASE LoadMain
    BY <1>2 DEF LoadMain
  <1>3. CASE LoadTmp
    BY <1>3 DEF LoadTmp
  <1>4. CASE RenameUnlink
    BY <1>4 DEF RenameUnlink, RenameReturns
  <1>5. CASE RenameCopy
    BY <1>5 DEF RenameCopy, RenameReturns
  <1>6. CASE RenameDrop
    BY <1>6 DEF RenameDrop, RenameReturns
  <1>7. CASE SetKey
    BY <1>7 DEF SetKey
  <1>8. CASE Generate
    BY <1>8 DEF Generate, Fresh
  <1>9. CASE SealRecord
    BY <1>9 DEF SealRecord
  <1>10. CASE RemoveTmp
    BY <1>10 DEF RemoveTmp
  <1>11. CASE OpenTmp
    BY <1>11 DEF OpenTmp
  <1>12. CASE WriteTmp
    BY <1>12 DEF WriteTmp
  <1>13. CASE CleanTmp
    BY <1>13 DEF CleanTmp
  <1>14. CASE StartNfc
    BY <1>14 DEF StartNfc
  <1>15. CASE ConfirmReset
    BY <1>15 DEF ConfirmReset
  <1>16. CASE CancelReset
    BY <1>16 DEF CancelReset
  <1>17. CASE DeleteMain
    BY <1>17 DEF DeleteMain
  <1>18. CASE DeleteTmp
    BY <1>18 DEF DeleteTmp, TmpRemoved, vars
  <1>19. CASE ReallocCrypto
    BY <1>19 DEF ReallocCrypto
  <1>20. CASE ResumeNfc
    BY <1>20 DEF ResumeNfc
  <1>21. CASE Exit
    BY <1>21 DEF Exit, Stop
  <1>22. CASE Crash
    BY <1>22 DEF Crash, Stop
  <1>23. CASE UNCHANGED vars
    BY <1>23 DEF vars
  <1> QED
    BY <1>1, <1>2, <1>3, <1>4, <1>5, <1>6, <1>7, <1>8, <1>9, <1>10, <1>11, <1>12, <1>13, <1>14, <1>15, <1>16, <1>17, <1>18, <1>19, <1>20, <1>21, <1>22, <1>23 DEF Next, Step


LEMMA PairingInductive == Spec /\ [][MainRemoved]_vars => [](PairingInv /\ AppletInv)
  BY InitPromise, StepPairing, DiskInductive, PTL DEF Spec

LEMMA RetiredInductive == Spec /\ [][TmpRemoved]_vars => []RetiredInv
  BY InitPromise, StepRetired, DiskInductive, PTL DEF Spec

(* The invariant that the promises rest on: files, identity, applet and    *)
(* the promises themselves agree, in every state the app reaches.          *)
THEOREM PromiseInductive ==
    Spec /\ [][MainRemoved]_vars /\ [][TmpRemoved]_vars => [](TypeOK /\ IInv)
  <1>1. TypeOK /\ DiskInv /\ PairingInv /\ AppletInv /\ RetiredInv => TypeOK /\ IInv
    BY DEF IInv
  <1> QED BY <1>1, PairingInductive, RetiredInductive, DiskInductive, PTL

(* What has been in service stays loadable until the user resets it, as    *)
(* long as a reset does not fail to remove an identity.bin that holds      *)
(* nothing.                                                                *)
THEOREM PairingKept == Spec /\ [][MainRemoved]_vars => []PairingSurvives
  <1>1. PairingInv => PairingSurvives
    BY DEF PairingInv
  <1> QED BY <1>1, PairingInductive, PTL

(* What a reset has deleted is never in service again, as long as the      *)
(* removal of identity.tmp, whose result the code drops, does not leave a  *)
(* record behind.                                                          *)
THEOREM ResetIsFinal == Spec /\ [][TmpRemoved]_vars => []RetiredStaysRetired
  <1>1. RetiredInv => RetiredStaysRetired
    BY DEF RetiredInv
  <1> QED BY <1>1, RetiredInductive, PTL

NoReset == pc # "deleteMain"

(* A user who never confirms a reset needs no assumption on the storage:   *)
(* no failed call and no power loss takes the identity away.               *)
THEOREM PairingKeptWithoutReset == Spec /\ [][~ConfirmReset]_vars => []PairingSurvives
  <1>1. Init => NoReset
    BY DEF Init, NoReset
  <1>2. TypeOK /\ NoReset /\ [Next]_vars /\ [~ConfirmReset]_vars => NoReset'
    BY DEF NoReset, TypeOK, Next, Step, Boot, LoadMain, LoadTmp, RenameUnlink, RenameCopy, RenameDrop, RenameReturns,
           SetKey, Generate, SealRecord, RemoveTmp, OpenTmp, WriteTmp, CleanTmp, StartNfc, CancelReset,
           DeleteMain, DeleteTmp, ReallocCrypto, ResumeNfc, Exit, Crash, Stop, Goto, vars, control
  <1>3. NoReset => [MainRemoved]_vars
    BY DEF NoReset, MainRemoved
  <1> QED BY <1>1, <1>2, <1>3, TypeCorrect, PairingKept, PTL DEF Spec

-----------------------------------------------------------------------------
(* The refinement: every step of the program is a step of the vault or     *)
(* leaves what the vault sees alone.                                       *)

LEMMA InitVault == Init => Vault!Init
  BY FileFacts DEF Init, Vault!Init, Stored, Serving

LEMMA StepVault ==
    TypeOK /\ DiskInv /\ PairingInv /\ AppletInv /\ PairingInv' /\ AppletInv' /\ [Next]_vars
        => [Vault!Next]_<<Stored, Serving, paired>>
  <1> SUFFICES ASSUME TypeOK, DiskInv, PairingInv, AppletInv, PairingInv', AppletInv', [Next]_vars
               PROVE  [Vault!Next]_<<Stored, Serving, paired>>
    OBVIOUS
  <1> USE FileFacts, ConstantsOK
      DEF TypeOK, DiskInv, OneIdentityOnDisk, RenameInv, SaveInv, ServeInv, DeleteInv,
          RenamePcs, Stored, PairingInv, PairingSurvives, AppletInv, Serving,
          Fails, Works, Goto, bounds, disk, memory, control, history,
          Vault!Next, Vault!Provision, Vault!Serve, Vault!Withdraw, Vault!GiveUp, Vault!Erase
  <1>1. CASE Boot
    BY <1>1 DEF Boot
  <1>2. CASE LoadMain
    BY <1>2 DEF LoadMain
  <1>3. CASE LoadTmp
    BY <1>3 DEF LoadTmp
  <1>4. CASE RenameUnlink
    BY <1>4 DEF RenameUnlink, RenameReturns
  <1>5. CASE RenameCopy
    BY <1>5 DEF RenameCopy, RenameReturns
  <1>6. CASE RenameDrop
    BY <1>6 DEF RenameDrop, RenameReturns
  <1>7. CASE SetKey
    BY <1>7 DEF SetKey
  <1>8. CASE Generate
    BY <1>8 DEF Generate, Fresh
  <1>9. CASE SealRecord
    BY <1>9 DEF SealRecord
  <1>10. CASE RemoveTmp
    BY <1>10 DEF RemoveTmp
  <1>11. CASE OpenTmp
    BY <1>11 DEF OpenTmp
  <1>12. CASE WriteTmp
    BY <1>12 DEF WriteTmp
  <1>13. CASE CleanTmp
    BY <1>13 DEF CleanTmp
  <1>14. CASE StartNfc
    BY <1>14 DEF StartNfc
  <1>15. CASE ConfirmReset
    BY <1>15 DEF ConfirmReset
  <1>16. CASE CancelReset
    BY <1>16 DEF CancelReset
  <1>17. CASE DeleteMain
    BY <1>17 DEF DeleteMain
  <1>18. CASE DeleteTmp
    BY <1>18 DEF DeleteTmp
  <1>19. CASE ReallocCrypto
    BY <1>19 DEF ReallocCrypto
  <1>20. CASE ResumeNfc
    BY <1>20 DEF ResumeNfc
  <1>21. CASE Exit
    BY <1>21 DEF Exit, Stop
  <1>22. CASE Crash
    BY <1>22 DEF Crash, Stop
  <1>23. CASE UNCHANGED vars
    BY <1>23 DEF vars
  <1> QED
    BY <1>1, <1>2, <1>3, <1>4, <1>5, <1>6, <1>7, <1>8, <1>9, <1>10, <1>11, <1>12, <1>13, <1>14, <1>15, <1>16, <1>17, <1>18, <1>19, <1>20, <1>21, <1>22, <1>23 DEF Next, Step


(* The identity kept, the one served and the one owed to the user change   *)
(* only as IdentityVault lets them.                                        *)
THEOREM Refinement == Spec /\ [][MainRemoved]_vars => ImplementsVault
  BY InitVault, StepVault, PairingInductive, DiskInductive, PTL DEF Spec, ImplementsVault, Vault!Spec

(* The vault is all that the user needs to know of: whatever implements it *)
(* keeps what was put in service, and answers with what it keeps.          *)
ServesStored == Serving # None => Serving = Stored /\ Serving = paired

THEOREM VaultIsEnough == ImplementsVault => []PairingSurvives /\ []ServesStored
  <1>1. Vault!Init => PairingSurvives /\ ServesStored
    BY DEF Vault!Init, PairingSurvives, ServesStored
  <1>2. PairingSurvives /\ ServesStored /\ [Vault!Next]_<<Stored, Serving, paired>>
            => PairingSurvives' /\ ServesStored'
    <2> SUFFICES ASSUME PairingSurvives, ServesStored, [Vault!Next]_<<Stored, Serving, paired>>
                 PROVE  PairingSurvives' /\ ServesStored'
      OBVIOUS
    <2> USE DEF PairingSurvives, ServesStored
    <2>1. CASE Vault!Provision
      BY <2>1 DEF Vault!Provision
    <2>2. CASE Vault!Serve
      BY <2>2 DEF Vault!Serve
    <2>3. CASE Vault!Withdraw
      BY <2>3 DEF Vault!Withdraw
    <2>4. CASE Vault!GiveUp
      BY <2>4 DEF Vault!GiveUp
    <2>5. CASE Vault!Erase
      BY <2>5 DEF Vault!Erase
    <2>6. CASE UNCHANGED <<Stored, Serving, paired>>
      BY <2>6
    <2> QED BY <2>1, <2>2, <2>3, <2>4, <2>5, <2>6 DEF Vault!Next
  <1> QED BY <1>1, <1>2, PTL DEF ImplementsVault, Vault!Spec

(* So the card only ever answers with the identity that is on the disk.    *)
THEOREM CardServesStored == Spec /\ [][MainRemoved]_vars => []ServesStored
  BY Refinement, VaultIsEnough, PTL

(* In particular all three promises are kept if removing a file never      *)
(* fails, which is how they are checked.                                   *)
NoRemoveErrors == "remove" \notin FaultKinds

THEOREM PromisesKept ==
    ASSUME NoRemoveErrors
    PROVE  Spec => []PairingSurvives /\ []RetiredStaysRetired /\ ImplementsVault
  <1>1. [Next]_vars => [MainRemoved]_vars
    <2> SUFFICES ASSUME Next, pc = "deleteMain", pc' = "deleteTmp" PROVE error' = "ok"
      BY DEF MainRemoved
    <2>1. DeleteMain
      BY DEF Next, Step, Boot, LoadMain, LoadTmp, RenameUnlink, RenameCopy, RenameDrop, SetKey, Generate,
             SealRecord, RemoveTmp, OpenTmp, WriteTmp, CleanTmp, StartNfc, ConfirmReset, CancelReset,
             DeleteTmp, ReallocCrypto, ResumeNfc, Exit, Crash, Stop, Goto
    <2> QED
      BY <2>1, NoRemoveErrors DEF DeleteMain, Fails, NoRemoveErrors
  <1>2. [Next]_vars => [TmpRemoved]_vars
    <2> SUFFICES ASSUME Next, pc = "deleteTmp", pc' = "realloc" PROVE tmp' = Missing
      BY DEF TmpRemoved
    <2>1. DeleteTmp
      BY DEF Next, Step, Boot, LoadMain, LoadTmp, RenameUnlink, RenameCopy, RenameDrop, SetKey, Generate,
             SealRecord, RemoveTmp, OpenTmp, WriteTmp, CleanTmp, StartNfc, ConfirmReset, CancelReset,
             DeleteMain, ReallocCrypto, ResumeNfc, Exit, Crash, Stop, Goto
    <2> QED
      BY <2>1, NoRemoveErrors DEF DeleteTmp, Fails, NoRemoveErrors
  <1> QED
    BY <1>1, <1>2, PairingKept, ResetIsFinal, Refinement, PTL DEF Spec

-----------------------------------------------------------------------------
(* Opening the app and resetting come to their end.  The calls that a boot *)
(* or a reset still makes, at most: a rename is entered from a load or     *)
(* from a save, and nothing is tried twice.                                *)

CallsLeft ==
    CASE pc \in {"off", "idle"}         -> 0
      [] pc \in {"startNfc", "resume"}  -> 1
      [] pc \in {"setKey", "cleanTmp"}  -> 2
      [] pc = "drop"                    -> 3
      [] pc = "copying"                 -> 4
      [] pc = "copy"                    -> 5
      [] pc = "unlink"                  -> 6
      [] pc = "writeTmp"                -> 7
      [] pc = "openTmp"                 -> 8
      [] pc = "removeTmp"               -> 9
      [] pc = "seal"                    -> 10
      [] pc = "generate"                -> 11
      [] pc = "loadTmp"                 -> 12
      [] pc = "loadMain"                -> 13
      [] pc = "realloc"                 -> 14
      [] pc = "deleteTmp"               -> 15
      [] pc = "deleteMain"              -> 16

LEMMA StepCalls == TypeOK /\ [Next]_vars => [Step => CallsLeft' < CallsLeft]_vars
  <1> SUFFICES ASSUME TypeOK, Step PROVE CallsLeft' < CallsLeft
    OBVIOUS
  <1>0. pc \in PcType
    BY DEF TypeOK
  <1>1. /\ pc = "loadMain"   => pc' \in {"setKey", "loadTmp", "idle"}
        /\ pc = "loadTmp"    => pc' \in {"unlink", "generate", "idle"}
        /\ pc = "unlink"     => pc' \in {"copy", "setKey", "cleanTmp"}
        /\ pc = "copy"       => pc' \in {"copying", "setKey", "cleanTmp"}
        /\ pc = "copying"    => pc' \in {"drop", "setKey", "cleanTmp"}
        /\ pc = "drop"       => pc' \in {"setKey", "startNfc", "cleanTmp"}
    BY DEF TypeOK, Step, LoadMain, LoadTmp, RenameUnlink, RenameCopy, RenameDrop, RenameReturns, SetKey,
           Generate, SealRecord, RemoveTmp, OpenTmp, WriteTmp, CleanTmp, StartNfc, DeleteMain, DeleteTmp,
           ReallocCrypto, ResumeNfc, Goto
  <1>2. /\ pc = "generate"   => pc' \in {"seal", "idle"}
        /\ pc = "seal"       => pc' \in {"removeTmp", "idle"}
        /\ pc = "removeTmp"  => pc' = "openTmp"
        /\ pc = "openTmp"    => pc' \in {"writeTmp", "cleanTmp"}
        /\ pc = "writeTmp"   => pc' \in {"unlink", "cleanTmp"}
        /\ pc = "cleanTmp"   => pc' = "idle"
        /\ pc = "setKey"     => pc' \in {"startNfc", "idle"}
        /\ pc = "startNfc"   => pc' = "idle"
        /\ pc = "deleteMain" => pc' = "deleteTmp"
        /\ pc = "deleteTmp"  => pc' \in {"realloc", "resume"}
        /\ pc = "realloc"    => pc' \in {"loadMain", "idle"}
        /\ pc = "resume"     => pc' = "idle"
        /\ pc \notin {"off", "idle"}
    BY DEF Step, LoadMain, LoadTmp, RenameUnlink, RenameCopy, RenameDrop, SetKey,
           Generate, SealRecord, RemoveTmp, OpenTmp, WriteTmp, CleanTmp, StartNfc, DeleteMain, DeleteTmp,
           ReallocCrypto, ResumeNfc, Goto
  <1> QED
    BY <1>0, <1>1, <1>2 DEF CallsLeft, PcType

(* A boot or a reset makes at most sixteen calls, whichever of them fail,  *)
(* and then the app is in its event loop: the fallback to identity.tmp,    *)
(* the rename and the clean-up never lead back to an earlier call.         *)
THEOREM EveryBootEnds ==
    Spec => /\ [](CallsLeft \in 0..16 /\ (CallsLeft = 0 <=> pc \in {"off", "idle"}))
            /\ [][Step => CallsLeft' < CallsLeft]_vars
  <1>1. TypeOK => CallsLeft \in 0..16 /\ (CallsLeft = 0 <=> pc \in {"off", "idle"})
    <2>1. TypeOK => pc \in PcType
      BY DEF TypeOK
    <2>2. pc \in {"off", "idle"} => CallsLeft = 0
      BY DEF CallsLeft
    <2>3. pc \in PcType \ {"off", "idle"} => CallsLeft \in 1..16
      BY DEF CallsLeft, PcType
    <2> QED BY <2>1, <2>2, <2>3
  <1> QED BY <1>1, StepCalls, TypeCorrect, PTL DEF Spec

(* The app is on its way from being closed to serving i, which the disk    *)
(* holds in one of its two files, and no fault is left.                    *)
Restoring(i) ==
    /\ faults = MaxFaults /\ crashes = MaxCrashes /\ Stored = i
    /\ \/ pc \in {"off", "loadMain", "loadTmp", "setKey", "startNfc"}
       \/ pc \in RenamePcs /\ renameFor = "load"

LEMMA StepRestoring ==
    TypeOK /\ DiskInv /\ [Next]_vars => [\A i \in Ids : Restoring(i) => Restoring(i)' \/ Serving' = i]_vars
  <1> SUFFICES ASSUME TypeOK, DiskInv, Next, NEW i \in Ids, Restoring(i)
               PROVE  Restoring(i)' \/ Serving' = i
    OBVIOUS
  <1>1. \A kind : ~Fails(kind)
    BY ConstantsOK DEF Fails, Restoring, TypeOK
  <1>2. i # None
    BY ConstantsOK
  <1> USE FileFacts, <1>1, <1>2
      DEF TypeOK, DiskInv, RenameInv, ServeInv, RenamePcs, Stored, Restoring,
          Works, Goto, bounds, disk, memory, control, history
  <1>3. CASE Boot
    BY <1>3 DEF Boot
  <1>4. CASE LoadMain
    BY <1>4 DEF LoadMain
  <1>5. CASE LoadTmp
    BY <1>5 DEF LoadTmp
  <1>6. CASE RenameUnlink
    BY <1>6 DEF RenameUnlink, RenameReturns
  <1>7. CASE RenameCopy
    BY <1>7 DEF RenameCopy, RenameReturns
  <1>8. CASE RenameDrop
    BY <1>8 DEF RenameDrop, RenameReturns
  <1>9. CASE SetKey
    BY <1>9 DEF SetKey
  <1>10. CASE StartNfc
    BY <1>10 DEF StartNfc, Serving
  <1>11. ~Crash
    BY ConstantsOK DEF Crash
  <1> QED
    BY <1>3, <1>4, <1>5, <1>6, <1>7, <1>8, <1>9, <1>10, <1>11
    DEF Next, Step, Generate, SealRecord, RemoveTmp, OpenTmp, WriteTmp, CleanTmp, DeleteMain, DeleteTmp,
        ReallocCrypto, ResumeNfc, ConfirmReset, CancelReset, Exit

(* Opening the app on a disk that holds an identity, with no fault left,   *)
(* leads nowhere but to serving that identity: the safety half of          *)
(* RebootRestores.                                                         *)
THEOREM BootStaysOnCourse ==
    Spec => [][\A i \in Ids : Restoring(i) => Restoring(i)' \/ Serving' = i]_vars
  BY StepRestoring, DiskInductive, PTL DEF Spec

=============================================================================

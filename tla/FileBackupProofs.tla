-------------------------- MODULE FileBackupProofs --------------------------
(***************************************************************************)
(* Crash consistency of module FileBackup, proved for every set of         *)
(* contents, every collision-free checksum and any number of crashes.      *)
(***************************************************************************)
EXTENDS FileBackup, TLAPS

(* What pclCalcCrc32Csum returns is a checksum, and NoSum for an empty     *)
(* file only.                                                              *)
LEMMA CsumType == \A c : /\ c \in Contents => Csum(c) \in Sums
                         /\ c \notin Contents => Csum(c) = NoSum
  BY CrcAssumption DEF Csum

(* Equal checksums mean equal contents.                                    *)
LEMMA CsumInjective ==
  \A c, d : (Csum(c) = Csum(d) /\ Csum(c) \in Sums) => c = d
  BY CrcAssumption, SumAssumption DEF Csum

-----------------------------------------------------------------------------
(* The initial states are well typed.                                      *)
LEMMA TypeInit == Init => TypeOK
  BY DEF Init, TypeOK, Resources, Pcs

(* Every step of pclFileOpen keeps the types.                              *)
LEMMA TypeOpen == TypeOK /\ OpenStep => TypeOK'
<1> SUFFICES ASSUME TypeOK, OpenStep PROVE TypeOK'
  OBVIOUS
<1> USE DEF TypeOK, Goto, FileUnchanged, CallUnchanged, Pcs, OpenPcs, FileContents
<1>1. CASE OpenBegin
  BY <1>1 DEF OpenBegin
<1>2. CASE OpenNotInRct
  BY <1>2 DEF OpenNotInRct, Register, SetFileHandleData, SetFileBackupStatus
<1>3. CASE VerifyNothing \/ VerifyRecover \/ VerifyCorrupt \/ VerifyFails
  BY <1>3 DEF VerifyNothing, VerifyRecover, VerifyCorrupt, VerifyFails
<1>4. CASE VerifyKeep
  BY <1>4 DEF VerifyKeep, Register, PosixReadable, SetFileHandleData,
     SetFileBackupStatus
<1>5. CASE RecoverTruncate
  <2>1. /\ data' \in {data, Empty} /\ pc' \in {"recoverCopy", "rmOrig"}
        /\ fault' \in BOOLEAN
    BY <1>5 DEF RecoverTruncate
  <2> QED
    BY <1>5, <2>1 DEF RecoverTruncate
<1>6. CASE RecoverCopy
  BY <1>6 DEF RecoverCopy, Register, SetFileHandleData, SetFileBackupStatus
<1>7. CASE RemoveOriginal \/ RemoveBackup \/ RemoveCsum
  BY <1>7 DEF RemoveOriginal, RemoveBackup, RemoveCsum, Removed, RemoveFails
<1>8. CASE OpenOriginal
  BY <1>8 DEF OpenOriginal, Register, PosixReadable, SetFileHandleData,
     SetFileBackupStatus
<1>9. CASE CreateOriginal \/ OpenFails
  BY <1>9 DEF CreateOriginal, OpenFails
<1>10. CASE GetDefaultData
  BY <1>10 DEF GetDefaultData, Register, Resources, SetFileHandleData,
               SetFileBackupStatus
<1> QED
  BY <1>1, <1>2, <1>3, <1>4, <1>5, <1>6, <1>7, <1>8, <1>9, <1>10 DEF OpenStep

(* Every step of pclFileWriteData keeps the types.                         *)
LEMMA TypeWrite == TypeOK /\ WriteStep => TypeOK'
<1> SUFFICES ASSUME TypeOK, WriteStep PROVE TypeOK'
  OBVIOUS
<1> USE DEF TypeOK, Goto, FileUnchanged, CallUnchanged, Pcs, WritePcs, FileContents
<1>1. CASE WriteBegin
  <2>1. csumBuf' \in Sums \cup {NoSum} /\ pc' \in Pcs
    BY <1>1, CsumType DEF WriteBegin, DescriptorSum, BackupDue
  <2> QED
    BY <1>1, <2>1 DEF WriteBegin
<1>2. CASE BackupCreateFile
  <2>1. backup' \in FileContents \cup {Absent} /\ fault' \in BOOLEAN
    BY <1>2 DEF BackupCreateFile
  <2> QED
    BY <1>2, <2>1 DEF BackupCreateFile
<1>3. CASE CsumTruncate
  BY ZenonT(40), <1>3 DEF CsumTruncate
<1>4. CASE CsumWrite
  BY ZenonT(40), <1>4 DEF CsumWrite
<1>5. CASE BackupTruncate
  BY ZenonT(40), <1>5 DEF BackupTruncate, SetFileBackupStatus
<1>6. CASE BackupCopy
  BY <1>6 DEF BackupCopy, SetFileBackupStatus
<1>7. CASE WriteData
  BY <1>7 DEF WriteData
<1> QED
  BY <1>1, <1>2, <1>3, <1>4, <1>5, <1>6, <1>7 DEF WriteStep

(* Every step of pclFileClose and pclFileRemove, and a crash, keeps the    *)
(* types.                                                                  *)
LEMMA TypeOther == TypeOK /\ (CloseStep \/ FileRemove \/ Crash) => TypeOK'
<1> SUFFICES ASSUME TypeOK, CloseStep \/ FileRemove \/ Crash PROVE TypeOK'
  OBVIOUS
<1> USE DEF TypeOK, Goto, FileUnchanged, CallUnchanged, Pcs, ClosePcs, FileContents
<1>1. CASE CloseReadOnly
  BY <1>1 DEF CloseReadOnly, Closed, RemoveFileHandleData
<1>2. CASE CloseBegin \/ CloseRemoveBackup
  BY <1>2 DEF CloseBegin, CloseRemoveBackup, Removed, RemoveFails
<1>3. CASE CloseRemoveCsum
  BY <1>3 DEF CloseRemoveCsum, Closed, RemoveFileHandleData
<1>4. CASE FileRemove
  BY <1>4 DEF FileRemove
<1>5. CASE Crash
  BY <1>5 DEF Crash
<1> QED
  BY <1>1, <1>2, <1>3, <1>4, <1>5 DEF CloseStep

(* Every step keeps the types.                                             *)
LEMMA TypeStep == TypeOK /\ [Next]_vars => TypeOK'
<1>1. TypeOK /\ UNCHANGED vars => TypeOK'
  BY DEF TypeOK, vars
<1> QED
  BY <1>1, TypeOpen, TypeWrite, TypeOther DEF Next

(* The variables keep their types in every behaviour, crashes and failures *)
(* of the backup medium included.                                          *)
THEOREM TypeCorrect == Spec => []TypeOK
  BY TypeInit, TypeStep, PTL DEF Spec

-----------------------------------------------------------------------------
(* The configuration of the resource never changes.                        *)
LEMMA ResFixed == Next => res' = res
  BY DEF Next, OpenStep, WriteStep, CloseStep, OpenBegin, OpenNotInRct,
     VerifyNothing, VerifyRecover, VerifyKeep, VerifyCorrupt, VerifyFails,
     RecoverTruncate, RecoverCopy, RemoveOriginal, RemoveBackup, RemoveCsum,
     OpenOriginal, OpenFails, CreateOriginal, GetDefaultData, WriteBegin,
     BackupCreateFile, CsumTruncate, CsumWrite, BackupTruncate, BackupCopy, WriteData,
     CloseReadOnly, CloseBegin, CloseRemoveBackup, CloseRemoveCsum, FileRemove, Crash,
     FileUnchanged, BackupDue, SetFileBackupStatus

(* The inductive invariant.  None of the properties is inductive: a step   *)
(* of pclFileOpen is only right because of what a crash, possibly in a     *)
(* recovery that followed another crash, can have left on disk.            *)

(* Where the call in progress can be: the descriptor exists from Register  *)
(* to Closed, and pclCreateBackup runs while status is 0.                  *)
ControlInv ==
  /\ pc \in OpenPcs => fd = "closed"
  /\ pc \in WritePcs \cup ClosePcs => fd = "open" /\ ~ ReadOnlyFile
  /\ pc \in WritePcs \ {"write"} => status = 0
  /\ pc = "write" => status = 1
  /\ pc \in {"recoverCopy", "defaultData"} => linked
  /\ pc \in {"rmBackup", "rmCsum"} => ~ linked \/ "orig" \in kept
  /\ pc \in {"rmCsum", "closeRmCsum"} => backup = Absent \/ "backup" \in kept
  /\ kept # {} => fault
  /\ (fd = "open" /\ PosixReadable) => readable
  /\ linked => data # Absent /\ committed # Absent
  /\ pc = "defaultData" => committed = Empty

(* What pclVerifyConsistency found still holds when it is acted upon.      *)
VerifiedInv ==
  /\ pc \in {"recoverTrunc", "recoverCopy"} => Recoverable
  /\ (BackupWanted /\ pc \in {"openOrig", "defaultData"}) => csum \notin Sums

(* The committed content can be told from what is on disk: either the      *)
(* original has it and no checksum says otherwise, or the checksum is the  *)
(* committed one and the backup, if there is one, has the content, or the  *)
(* session started from an empty file.                                     *)
Restorable ==
  \/ data = committed /\ (csum \in Sums => csum = Csum(committed))
  \/ csum = Csum(committed) /\ backup \in {committed, Absent}
  \/ csum = NoSum /\ committed = Empty

(* The stages of copy on write.                                            *)
SessionInv ==
  /\ (fd = "open" /\ status = 0) => data = committed
  /\ (fd = "open" /\ status = 1 /\ pc # "closeRmCsum")
        => csum = Csum(committed) /\ backup = committed
  /\ pc \in {"backupCreate", "csumTrunc", "csumWrite"} => csumBuf = Csum(committed)
  /\ pc \in {"backupTrunc", "backupCopy"} => csum = Csum(committed)

CrashInv == (Protected /\ ~ fault /\ linked) => Restorable /\ SessionInv

(* Outside a session there is neither a backup nor a checksum file unless  *)
(* the process has died or remove() has failed, and never one of a file    *)
(* that is only read.                                                      *)
CleanInv ==
  /\ (crashes = {} /\ fd = "closed")
        => /\ backup # Absent => "backup" \in kept
           /\ csum # Absent => "csum" \in kept
  /\ ReadOnlyFile => backup = Absent /\ csum = Absent

IInv == TypeOK /\ ControlInv /\ VerifiedInv /\ CrashInv /\ CleanInv

(* The initial states satisfy the invariant: no backup, no crash yet.      *)
LEMMA IInvInit == Init => IInv
<1> SUFFICES ASSUME Init PROVE IInv
  OBVIOUS
<1>1. TypeOK
  BY TypeInit
<1>2. ControlInv /\ VerifiedInv /\ CleanInv
  BY SumAssumption
  DEF Init, ControlInv, VerifiedInv, CleanInv, OpenPcs, WritePcs, ClosePcs
<1>3. CrashInv
  BY SumAssumption DEF Init, CrashInv, Restorable, SessionInv
<1> QED
  BY <1>1, <1>2, <1>3 DEF IInv

(* Every step keeps the descriptor, status and the files it is sure of in  *)
(* line with the program counter.                                          *)
LEMMA ControlStep ==
  ASSUME TypeOK, ControlInv, VerifiedInv, Next PROVE ControlInv'
<1> USE ContentAssumption, SumAssumption
<1> USE DEF ControlInv, TypeOK, Goto, FileUnchanged, CallUnchanged, OpenPcs, WritePcs,
            ClosePcs, FileContents, ReadOnlyFile, GetFilePermission, PosixReadable
<1>1. CASE OpenBegin
  BY <1>1 DEF OpenBegin
<1>2. CASE OpenNotInRct
  BY <1>2 DEF OpenNotInRct, Register, SetFileHandleData, SetFileBackupStatus
<1>3. CASE VerifyNothing
  BY <1>3 DEF VerifyNothing
<1>4. CASE VerifyRecover
  BY <1>4 DEF VerifyRecover
<1>5. CASE VerifyKeep
  BY <1>5 DEF VerifyKeep, Register, SetFileHandleData, SetFileBackupStatus
<1>6. CASE VerifyCorrupt
  BY <1>6 DEF VerifyCorrupt
<1>7. CASE RecoverTruncate
  BY <1>7 DEF RecoverTruncate
<1>8. CASE RecoverCopy
  BY <1>8 DEF RecoverCopy, Register, VerifiedInv, Recoverable,
              SetFileHandleData, SetFileBackupStatus
<1>9. CASE RemoveOriginal
  BY <1>9 DEF RemoveOriginal, Removed, RemoveFails
<1>10. CASE RemoveBackup
  BY <1>10 DEF RemoveBackup, Removed, RemoveFails
<1>11. CASE RemoveCsum
  BY <1>11 DEF RemoveCsum
<1>12. CASE OpenOriginal
  BY <1>12 DEF OpenOriginal, Register, SetFileHandleData, SetFileBackupStatus
<1>13. CASE CreateOriginal
  BY <1>13 DEF CreateOriginal
<1>14. CASE GetDefaultData
  BY <1>14 DEF GetDefaultData, Register, SetFileHandleData, SetFileBackupStatus
<1>15. CASE WriteBegin
  BY <1>15 DEF WriteBegin, BackupDue
<1>16. CASE BackupCreateFile
  BY <1>16 DEF BackupCreateFile
<1>17. CASE CsumTruncate
  BY <1>17 DEF CsumTruncate
<1>18. CASE CsumWrite
  BY <1>18 DEF CsumWrite
<1>19. CASE BackupTruncate
  BY <1>19 DEF BackupTruncate, SetFileBackupStatus
<1>20. CASE BackupCopy
  BY <1>20 DEF BackupCopy, SetFileBackupStatus
<1>21. CASE WriteData
  BY <1>21 DEF WriteData
<1>22. CASE CloseReadOnly
  BY <1>22 DEF CloseReadOnly, Closed, RemoveFileHandleData
<1>23. CASE CloseBegin
  BY <1>23 DEF CloseBegin
<1>24. CASE CloseRemoveBackup
  BY <1>24 DEF CloseRemoveBackup, Removed, RemoveFails
<1>25. CASE CloseRemoveCsum
  BY <1>25 DEF CloseRemoveCsum, Closed, RemoveFileHandleData
<1>26. CASE FileRemove
  BY <1>26 DEF FileRemove
<1>27. CASE Crash
  BY <1>27 DEF Crash
<1>28. CASE VerifyFails
  BY <1>28 DEF VerifyFails
<1>29. CASE OpenFails
  BY <1>29 DEF OpenFails
<1> QED
  BY <1>1, <1>2, <1>3, <1>4, <1>5, <1>6, <1>7, <1>8, <1>9, <1>10, <1>11, <1>12,
     <1>13, <1>14, <1>15, <1>16, <1>17, <1>18, <1>19, <1>20, <1>21, <1>22, <1>23,
     <1>24, <1>25, <1>26, <1>27, <1>28, <1>29
  DEF Next, OpenStep, WriteStep, CloseStep

(* Nothing comes between the verdict of pclVerifyConsistency and what is   *)
(* done about it.                                                          *)
LEMMA VerifiedStep ==
  ASSUME TypeOK, ControlInv, VerifiedInv, Next PROVE VerifiedInv'
<1> USE SumAssumption
<1> USE DEF VerifiedInv, ControlInv, TypeOK, Goto, FileUnchanged, CallUnchanged, OpenPcs, WritePcs,
        ClosePcs, Recoverable, NothingToCheck, BackupWanted
<1>1. CASE OpenBegin
  BY <1>1 DEF OpenBegin
<1>2. CASE OpenNotInRct
  BY <1>2 DEF OpenNotInRct, Register, SetFileHandleData, SetFileBackupStatus
<1>3. CASE VerifyNothing
  BY <1>3 DEF VerifyNothing
<1>4. CASE VerifyRecover
  BY <1>4 DEF VerifyRecover
<1>5. CASE VerifyKeep
  BY <1>5 DEF VerifyKeep, Register, SetFileHandleData, SetFileBackupStatus
<1>6. CASE VerifyCorrupt
  BY <1>6 DEF VerifyCorrupt
<1>7. CASE RecoverTruncate
  BY <1>7 DEF RecoverTruncate
<1>8. CASE RecoverCopy
  BY <1>8 DEF RecoverCopy, Register, SetFileHandleData, SetFileBackupStatus
<1>9. CASE RemoveOriginal
  BY <1>9 DEF RemoveOriginal, Removed, RemoveFails
<1>10. CASE RemoveBackup
  BY <1>10 DEF RemoveBackup, Removed, RemoveFails
<1>11. CASE RemoveCsum
  BY <1>11 DEF RemoveCsum
<1>12. CASE OpenOriginal
  BY <1>12 DEF OpenOriginal, Register, SetFileHandleData, SetFileBackupStatus
<1>13. CASE CreateOriginal
  BY <1>13 DEF CreateOriginal
<1>14. CASE GetDefaultData
  BY <1>14 DEF GetDefaultData, Register, SetFileHandleData, SetFileBackupStatus
<1>15. CASE WriteBegin
  BY <1>15 DEF WriteBegin, BackupDue
<1>16. CASE BackupCreateFile
  BY <1>16 DEF BackupCreateFile
<1>17. CASE CsumTruncate
  BY <1>17 DEF CsumTruncate
<1>18. CASE CsumWrite
  BY <1>18 DEF CsumWrite
<1>19. CASE BackupTruncate
  BY <1>19 DEF BackupTruncate, SetFileBackupStatus
<1>20. CASE BackupCopy
  BY <1>20 DEF BackupCopy, SetFileBackupStatus
<1>21. CASE WriteData
  BY <1>21 DEF WriteData
<1>22. CASE CloseReadOnly
  BY <1>22 DEF CloseReadOnly, Closed, RemoveFileHandleData
<1>23. CASE CloseBegin
  BY <1>23 DEF CloseBegin
<1>24. CASE CloseRemoveBackup
  BY <1>24 DEF CloseRemoveBackup, Removed, RemoveFails
<1>25. CASE CloseRemoveCsum
  BY <1>25 DEF CloseRemoveCsum, Closed, RemoveFileHandleData
<1>26. CASE FileRemove
  BY <1>26 DEF FileRemove
<1>27. CASE Crash
  BY <1>27 DEF Crash
<1>28. CASE VerifyFails
  BY <1>28 DEF VerifyFails
<1>29. CASE OpenFails
  BY <1>29 DEF OpenFails
<1> QED
  BY <1>1, <1>2, <1>3, <1>4, <1>5, <1>6, <1>7, <1>8, <1>9, <1>10, <1>11, <1>12,
     <1>13, <1>14, <1>15, <1>16, <1>17, <1>18, <1>19, <1>20, <1>21, <1>22, <1>23,
     <1>24, <1>25, <1>26, <1>27, <1>28, <1>29
  DEF Next, OpenStep, WriteStep, CloseStep

(* Only a crash leaves a backup or a checksum file behind.                 *)
LEMMA CleanStep ==
  ASSUME TypeOK, ControlInv, VerifiedInv, CleanInv, Next PROVE CleanInv'
<1> USE DEF CleanInv, ControlInv, TypeOK, Goto, FileUnchanged, CallUnchanged, OpenPcs,
            WritePcs, ClosePcs, ReadOnlyFile, BackupWanted, GetFilePermission
<1>1. CASE OpenBegin
  BY <1>1 DEF OpenBegin
<1>2. CASE OpenNotInRct
  BY <1>2 DEF OpenNotInRct, Register, SetFileHandleData, SetFileBackupStatus
<1>3. CASE VerifyNothing
  BY <1>3 DEF VerifyNothing
<1>4. CASE VerifyRecover
  BY <1>4 DEF VerifyRecover, Recoverable
<1>5. CASE VerifyKeep
  BY <1>5 DEF VerifyKeep, Register, SetFileHandleData, SetFileBackupStatus
<1>6. CASE VerifyCorrupt
  BY <1>6 DEF VerifyCorrupt, NothingToCheck
<1>7. CASE RecoverTruncate
  BY <1>7 DEF RecoverTruncate
<1>8. CASE RecoverCopy
  BY <1>8 DEF RecoverCopy, Register, SetFileHandleData, SetFileBackupStatus
<1>9. CASE RemoveOriginal
  BY <1>9 DEF RemoveOriginal, Removed, RemoveFails
<1>10. CASE RemoveBackup
  BY <1>10 DEF RemoveBackup, Removed, RemoveFails
<1>11. CASE RemoveCsum
  BY <1>11 DEF RemoveCsum
<1>12. CASE OpenOriginal
  BY <1>12 DEF OpenOriginal, Register, SetFileHandleData, SetFileBackupStatus
<1>13. CASE CreateOriginal
  BY <1>13 DEF CreateOriginal
<1>14. CASE GetDefaultData
  BY <1>14 DEF GetDefaultData, Register, SetFileHandleData, SetFileBackupStatus
<1>15. CASE WriteBegin
  BY <1>15 DEF WriteBegin, BackupDue
<1>16. CASE BackupCreateFile
  BY <1>16 DEF BackupCreateFile
<1>17. CASE CsumTruncate
  BY <1>17 DEF CsumTruncate
<1>18. CASE CsumWrite
  BY <1>18 DEF CsumWrite
<1>19. CASE BackupTruncate
  BY <1>19 DEF BackupTruncate, SetFileBackupStatus
<1>20. CASE BackupCopy
  BY <1>20 DEF BackupCopy, SetFileBackupStatus
<1>21. CASE WriteData
  BY <1>21 DEF WriteData
<1>22. CASE CloseReadOnly
  BY <1>22 DEF CloseReadOnly, Closed, RemoveFileHandleData
<1>23. CASE CloseBegin
  BY <1>23 DEF CloseBegin
<1>24. CASE CloseRemoveBackup
  BY <1>24 DEF CloseRemoveBackup, Removed, RemoveFails
<1>25. CASE CloseRemoveCsum
  BY <1>25 DEF CloseRemoveCsum, Closed, RemoveFileHandleData
<1>26. CASE FileRemove
  BY <1>26 DEF FileRemove
<1>27. CASE Crash
  BY <1>27 DEF Crash
<1>28. CASE VerifyFails
  BY <1>28 DEF VerifyFails
<1>29. CASE OpenFails
  BY <1>29 DEF OpenFails
<1> QED
  BY <1>1, <1>2, <1>3, <1>4, <1>5, <1>6, <1>7, <1>8, <1>9, <1>10, <1>11, <1>12,
     <1>13, <1>14, <1>15, <1>16, <1>17, <1>18, <1>19, <1>20, <1>21, <1>22, <1>23,
     <1>24, <1>25, <1>26, <1>27, <1>28, <1>29
  DEF Next, OpenStep, WriteStep, CloseStep


(* The heart of the proof: every step, a crash at any point included,      *)
(* keeps the committed content restorable.  A step that ends with the      *)
(* original linked and no fault pending started so, or created the         *)
(* original, or closed the session.                                        *)
LEMMA CrashStep ==
  ASSUME TypeOK, ControlInv, VerifiedInv, CrashInv, Next PROVE CrashInv'
<1> SUFFICES ASSUME Protected', ~ fault', linked'
             PROVE  Restorable' /\ SessionInv'
  BY DEF CrashInv
<1>a. res' = res
  BY ResFixed
<1>b. /\ Protected /\ BackupWanted /\ res.inRct /\ ~ ReadOnlyFile
      /\ PosixReadable /\ OrigSum = Csum(data)
      /\ fd = "open" => readable /\ DescriptorSum = Csum(data)
  BY <1>a DEF Protected, BackupWanted, ReadOnlyFile, OrigSum, GetFilePermission,
              PosixReadable, DescriptorSum, ControlInv
<1>c. BackupWanted' /\ ~ ReadOnlyFile'
  BY <1>a, <1>b DEF BackupWanted, ReadOnlyFile, GetFilePermission
<1> USE ContentAssumption, SumAssumption, CsumType, CsumInjective
<1> USE DEF CrashInv, Restorable, SessionInv, ControlInv, Goto, FileUnchanged, CallUnchanged,
        OpenPcs, WritePcs, ClosePcs
<1>1. CASE OpenBegin
  BY <1>1, <1>b DEF OpenBegin
<1>2. CASE OpenNotInRct
  BY <1>2, <1>b DEF OpenNotInRct
<1>3. CASE VerifyNothing
  BY <1>3, <1>b DEF VerifyNothing
<1>4. CASE VerifyRecover
  BY <1>4, <1>b DEF VerifyRecover
<1>5. CASE VerifyKeep
  BY <1>5, <1>b DEF VerifyKeep, Register, OriginalValid, Recoverable,
                    NothingToCheck, SetFileHandleData, SetFileBackupStatus
<1>6. CASE VerifyCorrupt \/ VerifyFails
  BY <1>6, <1>b DEF VerifyCorrupt, VerifyFails
<1>7. CASE RecoverTruncate
  BY <1>7, <1>b DEF RecoverTruncate, VerifiedInv, Recoverable
<1>8. CASE RecoverCopy
  BY <1>8, <1>b DEF RecoverCopy, Register, VerifiedInv, Recoverable,
                    SetFileHandleData, SetFileBackupStatus
<1>9. CASE RemoveOriginal \/ RemoveBackup \/ RemoveCsum
  <2>0. ~ fault => "orig" \notin kept
    OBVIOUS
  <2>1. ASSUME RemoveOriginal PROVE FALSE
    BY <2>1 DEF RemoveOriginal, RemoveFails
  <2>2. ASSUME RemoveBackup PROVE FALSE
    <3>1. fault' = fault /\ linked /\ pc = "rmBackup"
      BY <2>2 DEF RemoveBackup, Removed, RemoveFails
    <3> QED
      BY <2>0, <3>1
  <2>3. ASSUME RemoveCsum PROVE FALSE
    <3>1. pc = "rmCsum" /\ linked /\ fault' = (kept' # {})
      BY <2>3 DEF RemoveCsum
    <3>2. kept' = {} /\ "orig" \in kept
      BY <3>1
    <3> QED
      BY <2>3, <3>2 DEF RemoveCsum
  <2> QED
    BY <1>9, <2>1, <2>2, <2>3
<1>10. CASE OpenOriginal
  BY <1>10, <1>b DEF OpenOriginal, Register, VerifiedInv, SetFileHandleData,
                     SetFileBackupStatus
<1>11. CASE CreateOriginal \/ OpenFails
  BY <1>11, <1>b DEF CreateOriginal, OpenFails, VerifiedInv
<1>12. CASE GetDefaultData
  BY <1>12, <1>b DEF GetDefaultData, Register, VerifiedInv, SetFileHandleData,
                     SetFileBackupStatus
<1>13. CASE WriteBegin
  BY <1>13, <1>b DEF WriteBegin, BackupDue
<1>14. CASE BackupCreateFile
  BY <1>14, <1>b DEF BackupCreateFile
<1>15. CASE CsumTruncate
  BY <1>15, <1>b DEF CsumTruncate
<1>16. CASE CsumWrite
  BY <1>16, <1>b DEF CsumWrite
<1>17. CASE BackupTruncate
  BY <1>17, <1>b DEF BackupTruncate, SetFileBackupStatus
<1>18. CASE BackupCopy
  BY <1>18, <1>b DEF BackupCopy, Protected, SetFileBackupStatus
<1>19. CASE WriteData
  BY <1>19, <1>b DEF WriteData
<1>20. CASE CloseReadOnly
  BY <1>20, <1>b DEF CloseReadOnly
<1>21. CASE CloseBegin
  BY <1>21, <1>b DEF CloseBegin
<1>22. CASE CloseRemoveBackup
  BY <1>22, <1>b DEF CloseRemoveBackup, Removed, RemoveFails
<1>23. CASE CloseRemoveCsum
  BY <1>23, <1>b DEF CloseRemoveCsum, Closed, RemoveFileHandleData
<1>24. CASE FileRemove
  BY <1>24, <1>b DEF FileRemove
<1>25. CASE Crash
  BY <1>25, <1>b DEF Crash, VerifiedInv, Recoverable
<1> QED
  BY <1>1, <1>2, <1>3, <1>4, <1>5, <1>6, <1>7, <1>8, <1>9, <1>10, <1>11, <1>12,
     <1>13, <1>14, <1>15, <1>16, <1>17, <1>18, <1>19, <1>20, <1>21, <1>22, <1>23,
     <1>24, <1>25
  DEF Next, OpenStep, WriteStep, CloseStep

(* Every step preserves the invariant.                                     *)
LEMMA IInvStep == IInv /\ [Next]_vars => IInv'
<1>1. ASSUME IInv, UNCHANGED vars PROVE IInv'
  BY <1>1
  DEF IInv, vars, TypeOK, ControlInv, VerifiedInv, CrashInv, CleanInv,
      Restorable, SessionInv, Recoverable, Protected, BackupWanted,
      ReadOnlyFile, GetFilePermission, PosixReadable
<1>2. ASSUME IInv, Next PROVE IInv'
  BY <1>2, TypeStep, ControlStep, VerifiedStep, CrashStep, CleanStep DEF IInv
<1> QED
  BY <1>1, <1>2

(* Copy on write: whenever the original differs from the committed         *)
(* content, that content and its checksum are on disk, until pclFileClose  *)
(* removes them.                                                           *)
THEOREM BackupBeforeWriteCorrect == Spec => []BackupBeforeWrite
<1>1. IInv => BackupBeforeWrite
  BY ContentAssumption, CsumType
  DEF IInv, TypeOK, CrashInv, Restorable, SessionInv, BackupBeforeWrite
<1> QED
  BY <1>1, IInvInit, IInvStep, PTL DEF Spec

(* A session that ends without a crash leaves no backup or checksum file   *)
(* that remove() did not refuse to take away.                              *)
THEOREM NoStaleBackupCorrect == Spec => []NoStaleBackup
<1>1. IInv => NoStaleBackup
  BY DEF IInv, CleanInv, NoStaleBackup
<1> QED
  BY <1>1, IInvInit, IInvStep, PTL DEF Spec

(* An open that succeeds hands out the committed content, or what was      *)
(* written in a session that started from an empty file.                   *)
LEMMA OpenDelivers ==
  ASSUME IInv, Next, Protected, ~ fault', linked, fd = "closed", fd' = "open"
  PROVE  data' = committed \/ committed = Empty
<1>o. VerifyKeep \/ RecoverCopy \/ OpenOriginal \/ GetDefaultData
  BY DEF Next, OpenStep, WriteStep, CloseStep, OpenBegin, OpenNotInRct,
      VerifyNothing, VerifyRecover, VerifyCorrupt, VerifyFails, RecoverTruncate,
      RemoveOriginal, RemoveBackup, RemoveCsum, OpenFails, CreateOriginal, WriteBegin,
      BackupCreateFile, CsumTruncate, CsumWrite, BackupTruncate, BackupCopy,
      WriteData, CloseReadOnly, CloseBegin, CloseRemoveBackup,
      CloseRemoveCsum, Closed, FileRemove, Crash, BackupDue, CallUnchanged,
      SetFileBackupStatus, RemoveFileHandleData, Protected, BackupWanted
<1>f. ~ fault
  BY <1>o DEF VerifyKeep, RecoverCopy, OpenOriginal, GetDefaultData, IInv, TypeOK
<1>1. /\ BackupWanted /\ res.inRct /\ OrigSum = Csum(data)
      /\ Restorable /\ ControlInv /\ VerifiedInv
  BY <1>f DEF Protected, BackupWanted, PosixReadable, OrigSum, IInv, CrashInv
<1> USE ContentAssumption, SumAssumption, CsumType, CsumInjective DEF Restorable
<1>t. committed = Empty \/ committed \in Contents
  BY <1>1 DEF IInv, TypeOK, FileContents, ControlInv
<1>2. CASE VerifyKeep
  BY <1>1, <1>t, <1>2 DEF VerifyKeep, OriginalValid, Recoverable, NothingToCheck
<1>3. CASE RecoverCopy
  BY <1>1, <1>3 DEF RecoverCopy, VerifiedInv, Recoverable, ControlInv
<1>4. CASE OpenOriginal
  BY <1>1, <1>t, <1>4 DEF OpenOriginal, VerifiedInv
<1>5. CASE GetDefaultData
  BY <1>1, <1>5 DEF GetDefaultData, ControlInv
<1> QED
  BY <1>2, <1>3, <1>4, <1>5, <1>o

(* However often and wherever the process died, an open of a protected     *)
(* file hands out the content of the last completed session, unless a      *)
(* system call on its files fails.                                         *)
THEOREM OpenCorrect == Spec => OpenDeliversCommitted
<1> DEFINE Delivers == (Protected /\ ~ fault' /\ linked /\ fd = "closed" /\ fd' = "open")
                          => (data' = committed \/ committed = Empty)
<1>1. IInv /\ [Next]_vars => [Delivers]_vars
  BY OpenDelivers
<1> QED
  BY <1>1, IInvInit, IInvStep, PTL DEF Spec, OpenDeliversCommitted

-----------------------------------------------------------------------------
(* When pclVerifyConsistency deletes a file                                *)

Windows == {"csumTrunc", "closeRmCsum"} \cup
           (IF PosixReadable THEN {} ELSE {"backupTrunc", "backupCopy"})

(* pclVerifyConsistency would not delete the original: whatever the        *)
(* original holds, or because of what it holds.                            *)
Sound   == NothingToCheck \/ Recoverable
Legible == Sound \/ OriginalValid

(* What is on disk at each stage of a session, were the process to die.    *)
StageInv ==
  /\ (fd = "closed" /\ pc \in {"idle", "verify"})
        => Legible \/ crashes \cap Windows # {}
  /\ pc = "rmOrig" => crashes \cap Windows # {}
  /\ (fd = "open" /\ status = 0 /\ pc \in {"idle", "backupCreate", "closeRmBackup"})
        => Legible
  /\ (fd = "open" /\ status = 1 /\ pc # "closeRmCsum") => Sound
  /\ pc \in {"csumTrunc", "csumWrite", "backupTrunc", "backupCopy"} => backup # Absent
  /\ pc \in {"backupCreate", "csumTrunc", "csumWrite"} => csumBuf = DescriptorSum
  /\ pc = "csumWrite" => csum = NoSum
  /\ pc \in {"backupTrunc", "backupCopy"} => csum = DescriptorSum

(* Only a file that is backed up is checked, and it is checked before it   *)
(* is opened or created.                                                   *)
WindowInv ==
  /\ pc \in {"verify", "recoverTrunc", "recoverCopy", "rmOrig"} => BackupWanted
  /\ (BackupWanted /\ pc \in {"openOrig", "defaultData"}) => NothingToCheck
  /\ (BackupWanted /\ linked /\ ~ fault) => StageInv

(* At the start there is nothing to check.                                 *)
LEMMA WindowInit == Init => WindowInv
  BY SumAssumption DEF Init, WindowInv, StageInv, Legible, Sound, NothingToCheck

(* Every step, a crash at any point included, keeps the files on disk      *)
(* legible outside the windows.                                            *)
LEMMA WindowStep ==
  ASSUME TypeOK, ControlInv, VerifiedInv, WindowInv, Next PROVE WindowInv'
<1>a. res' = res
  BY ResFixed
<1> USE ContentAssumption, SumAssumption, CsumType
<1> USE DEF WindowInv, StageInv, Legible, Sound, Windows, NothingToCheck, Recoverable,
        OriginalValid, OrigSum, DescriptorSum, PosixReadable, BackupWanted, ReadOnlyFile,
        GetFilePermission, ControlInv, VerifiedInv, TypeOK, Goto, FileUnchanged, CallUnchanged,
        FileContents, OpenPcs, WritePcs, ClosePcs
<1>1. CASE OpenBegin
  BY <1>1, <1>a DEF OpenBegin
<1>2. CASE OpenNotInRct
  BY <1>2, <1>a DEF OpenNotInRct, Register, SetFileHandleData, SetFileBackupStatus
<1>3. CASE VerifyNothing
  BY <1>3, <1>a DEF VerifyNothing
<1>4. CASE VerifyRecover
  BY <1>4, <1>a DEF VerifyRecover
<1>5. CASE VerifyKeep
  BY <1>5, <1>a DEF VerifyKeep, Register, SetFileHandleData, SetFileBackupStatus
<1>6. CASE VerifyCorrupt
  BY <1>6, <1>a DEF VerifyCorrupt
<1>7. CASE RecoverTruncate
  BY <1>7, <1>a DEF RecoverTruncate
<1>8. CASE RecoverCopy
  BY <1>8, <1>a DEF RecoverCopy, Register, SetFileHandleData, SetFileBackupStatus
<1>9. CASE RemoveOriginal
  BY <1>9, <1>a DEF RemoveOriginal, Removed, RemoveFails
<1>10. CASE RemoveBackup
  BY <1>10, <1>a DEF RemoveBackup, Removed, RemoveFails
<1>11. CASE RemoveCsum
  BY <1>11, <1>a DEF RemoveCsum
<1>12. CASE OpenOriginal
  BY <1>12, <1>a DEF OpenOriginal, Register, SetFileHandleData, SetFileBackupStatus
<1>13. CASE CreateOriginal
  BY <1>13, <1>a DEF CreateOriginal
<1>14. CASE GetDefaultData
  BY <1>14, <1>a DEF GetDefaultData, Register, SetFileHandleData, SetFileBackupStatus
<1>15. CASE WriteBegin
  BY <1>15, <1>a DEF WriteBegin, BackupDue
<1>16. CASE BackupCreateFile
  BY <1>16, <1>a DEF BackupCreateFile
<1>17. CASE CsumTruncate
  BY <1>17, <1>a DEF CsumTruncate
<1>18. CASE CsumWrite
  BY <1>18, <1>a DEF CsumWrite
<1>19. CASE BackupTruncate
  BY <1>19, <1>a DEF BackupTruncate, SetFileBackupStatus
<1>20. CASE BackupCopy
  BY <1>20, <1>a DEF BackupCopy, SetFileBackupStatus
<1>21. CASE WriteData
  BY <1>21, <1>a DEF WriteData
<1>22. CASE CloseReadOnly
  BY <1>22, <1>a DEF CloseReadOnly, Closed, RemoveFileHandleData
<1>23. CASE CloseBegin
  BY <1>23, <1>a DEF CloseBegin
<1>24. CASE CloseRemoveBackup
  BY <1>24, <1>a DEF CloseRemoveBackup, Removed, RemoveFails
<1>25. CASE CloseRemoveCsum
  BY <1>25, <1>a DEF CloseRemoveCsum, Closed, RemoveFileHandleData
<1>26. CASE FileRemove
  BY <1>26, <1>a DEF FileRemove
<1>27. CASE Crash
  <2>1. /\ pc' = "idle" /\ fd' = "closed" /\ status' = 0 /\ crashes' = crashes \cup {pc}
        /\ UNCHANGED <<linked, csum, fault>>
        /\ pc # "backupCopy" => backup' = backup
        /\ (linked /\ pc \notin {"recoverCopy", "defaultData", "write"}) => data' = data
    BY <1>27 DEF Crash
  <2>2. SUFFICES ASSUME BackupWanted, linked, ~ fault, pc \notin Windows,
                        crashes \cap Windows = {}
                 PROVE  Legible'
    BY <1>a, <2>1
  <2>3. CASE pc = "backupCopy"
    BY <1>a, <2>1, <2>2, <2>3
  <2>4. CASE pc \in {"recoverTrunc", "recoverCopy", "openOrig", "defaultData", "csumWrite"}
             \/ (fd = "open" /\ status = 1)
    <3>1. Sound /\ UNCHANGED <<csum, backup>>
      BY <2>1, <2>2, <2>4
    <3> QED
      BY <3>1
  <2>5. CASE pc \in {"idle", "verify", "backupCreate", "backupTrunc", "closeRmBackup"}
             /\ (fd = "closed" \/ status = 0)
    <3>1. Legible /\ UNCHANGED <<res, csum, backup, data, linked>>
      BY <1>a, <2>1, <2>2, <2>5
    <3> QED
      BY <3>1
  <2> QED
    BY <2>2, <2>3, <2>4, <2>5 DEF Pcs
<1>28. CASE VerifyFails
  BY <1>28, <1>a DEF VerifyFails
<1>29. CASE OpenFails
  BY <1>29, <1>a DEF OpenFails
<1> QED
  BY <1>1, <1>2, <1>3, <1>4, <1>5, <1>6, <1>7, <1>8, <1>9, <1>10, <1>11, <1>12,
     <1>13, <1>14, <1>15, <1>16, <1>17, <1>18, <1>19, <1>20, <1>21, <1>22, <1>23,
     <1>24, <1>25, <1>26, <1>27, <1>28, <1>29
  DEF Next, OpenStep, WriteStep, CloseStep

(* pclVerifyConsistency deletes an existing file only if the process died  *)
(* in one of the windows since the last open or close, or a system call on *)
(* its files failed.                                                       *)
THEOREM LossCorrect == Spec => []LossOnlyInWindows
<1>1. IInv /\ WindowInv /\ [Next]_vars => WindowInv'
  <2>1. ASSUME WindowInv, UNCHANGED vars PROVE WindowInv'
    BY <2>1 DEF vars, WindowInv, StageInv, Legible, Sound, NothingToCheck, Recoverable,
                OriginalValid, OrigSum, DescriptorSum, PosixReadable, Windows, BackupWanted
  <2> QED
    BY <2>1, WindowStep DEF IInv
<1>2. WindowInv => LossOnlyInWindows
  BY DEF WindowInv, StageInv, Windows, PosixReadable, LossOnlyInWindows
<1> QED
  BY <1>1, <1>2, WindowInit, IInvInit, IInvStep, PTL DEF Spec

-----------------------------------------------------------------------------
(* A file whose sessions are atomic                                        *)

(* A path that is gone has no committed content, and an open descriptor    *)
(* always shows one.                                                       *)
LinkInv == (~ linked => committed = Absent) /\ (fd = "open" => data # Absent)

(* In the initial state a file is there exactly when it has a content.     *)
LEMMA LinkInit == Init => LinkInv
  BY DEF Init, LinkInv

(* Every step keeps it so.                                                 *)
LEMMA LinkStep == ASSUME IInv, LinkInv, Next PROVE LinkInv'
<1> USE ContentAssumption
<1> USE DEF LinkInv, IInv, ControlInv, VerifiedInv, TypeOK, Goto, FileUnchanged, CallUnchanged,
            OpenPcs, WritePcs, ClosePcs, FileContents
<1>1. CASE OpenBegin \/ VerifyNothing \/ VerifyRecover \/ VerifyCorrupt \/ VerifyFails
           \/ OpenFails
  BY <1>1 DEF OpenBegin, VerifyNothing, VerifyRecover, VerifyCorrupt, VerifyFails,
     OpenFails
<1>2. CASE OpenNotInRct
  BY <1>2 DEF OpenNotInRct, Register, SetFileHandleData
<1>3. CASE VerifyKeep \/ OpenOriginal
  BY <1>3 DEF VerifyKeep, OpenOriginal, OriginalValid, Register, SetFileHandleData
<1>4. CASE RecoverTruncate
  BY <1>4 DEF RecoverTruncate
<1>5. CASE RecoverCopy
  BY <1>5 DEF RecoverCopy, Recoverable, Register, SetFileHandleData
<1>6. CASE RemoveOriginal \/ RemoveBackup \/ RemoveCsum
  BY <1>6 DEF RemoveOriginal, RemoveBackup, RemoveCsum
<1>7. CASE CreateOriginal
  BY <1>7 DEF CreateOriginal
<1>8. CASE GetDefaultData
  BY <1>8 DEF GetDefaultData, Register, SetFileHandleData
<1>9. CASE WriteBegin \/ BackupCreateFile \/ CsumTruncate \/ CsumWrite
  BY <1>9 DEF WriteBegin, BackupCreateFile, CsumTruncate, CsumWrite
<1>10. CASE BackupTruncate \/ BackupCopy
  BY <1>10 DEF BackupTruncate, BackupCopy
<1>11. CASE WriteData
  BY <1>11 DEF WriteData
<1>12. CASE CloseReadOnly \/ CloseRemoveCsum
  BY <1>12 DEF CloseReadOnly, CloseRemoveCsum, Closed, RemoveFileHandleData
<1>13. CASE CloseBegin \/ CloseRemoveBackup
  BY <1>13 DEF CloseBegin, CloseRemoveBackup
<1>14. CASE FileRemove
  BY <1>14 DEF FileRemove
<1>15. CASE Crash
  BY <1>15 DEF Crash
<1> QED
  BY <1>1, <1>2, <1>3, <1>4, <1>5, <1>6, <1>7, <1>8, <1>9, <1>10, <1>11, <1>12, <1>13,
     <1>14, <1>15
  DEF Next, OpenStep, WriteStep, CloseStep

(* Every step is a step of the atomic file, or changes nothing of it.      *)
LEMMA AtomicStep ==
  ASSUME IInv, LinkInv, LinkInv', Next PROVE [Atomic!Next]_Atomic!vars
<1> DEFINE content == IF pc = "defaultData" THEN Absent ELSE committed
           view    == IF fd = "open" THEN data ELSE Absent
           trusted == Protected /\ ~ fault
<1>a. res' = res
  BY ResFixed
<1>b. (Protected' <=> Protected) /\ trusted \in BOOLEAN /\ trusted' \in BOOLEAN
  BY <1>a DEF Protected, BackupWanted
<1>c. Atomic!FileContents = FileContents
  BY DEF Atomic!FileContents, FileContents
<1> USE ContentAssumption
<1>0. ASSUME UNCHANGED <<content, view>>, fault' \in {fault, TRUE}
      PROVE  [Atomic!Next]_Atomic!vars
  <2>1. CASE fault' = fault
    BY <1>0, <1>b, <2>1 DEF Atomic!vars
  <2>2. CASE fault' = TRUE
    BY <1>0, <1>b, <2>2 DEF Atomic!Next, Atomic!Fail
  <2> QED
    BY <1>0, <2>1, <2>2
<1>1. CASE OpenBegin \/ VerifyNothing \/ VerifyRecover \/ VerifyCorrupt \/ VerifyFails
           \/ RecoverTruncate \/ OpenFails
  <2>1. UNCHANGED <<content, view>> /\ fault' \in {fault, TRUE}
    BY <1>1
    DEF OpenBegin, VerifyNothing, VerifyRecover, VerifyCorrupt, VerifyFails,
        RecoverTruncate,
        OpenFails, FileUnchanged, CallUnchanged, Goto, IInv, ControlInv, OpenPcs
  <2> QED
    BY <1>0, <2>1
<1>2. CASE OpenNotInRct
  <2>1. /\ view = Absent /\ view' = Empty /\ content' = Empty /\ ~ trusted /\ ~ trusted'
        /\ Empty \in FileContents
    BY <1>2, <1>b DEF OpenNotInRct, Register, SetFileHandleData, Goto, Protected,
       BackupWanted, FileContents
  <2> QED
    BY <1>c, <2>1 DEF Atomic!Next, Atomic!Open, Atomic!Create
<1>3. ASSUME fd = "closed", fd' = "open", linked, pc # "defaultData", pc' = "idle",
             data' \in FileContents, committed' = data', fault' \in {fault, TRUE}
      PROVE  Atomic!Open
  <2>1. /\ view = Absent /\ view' = data' /\ content = committed /\ content' = data'
        /\ trusted' \in {trusted, FALSE} /\ committed # Absent
    BY <1>3, <1>b DEF IInv, ControlInv
  <2>2. trusted' /\ committed # Empty => data' = committed
    BY <1>3, <1>b, OpenDelivers
  <2> QED
    BY <1>3, <1>c, <2>1, <2>2 DEF Atomic!Open
<1>4. CASE VerifyKeep \/ OpenOriginal \/ RecoverCopy
  <2>1. /\ pc \in OpenPcs /\ pc # "defaultData" /\ pc' = "idle" /\ fd' = "open"
        /\ committed' = data' /\ fault' \in {fault, TRUE}
        /\ data' = data \/ (pc = "recoverCopy" /\ data' \in {backup} \cup FileContents)
        /\ linked
    BY <1>4 DEF VerifyKeep, OpenOriginal, RecoverCopy, OriginalValid, Register,
       SetFileHandleData, Goto, OpenPcs, IInv, ControlInv
  <2>2. fd = "closed" /\ data' \in FileContents
    BY <2>1 DEF IInv, ControlInv, VerifiedInv, Recoverable, TypeOK
  <2> QED
    BY <1>3, <2>1, <2>2 DEF Atomic!Next
<1>5. CASE RemoveOriginal
  <2>1. CASE committed' = Absent /\ UNCHANGED fault
    <3>1. /\ view = Absent /\ view' = Absent /\ content = committed /\ content' = Absent
          /\ trusted' = trusted
      BY <1>5, <1>b, <2>1 DEF RemoveOriginal, CallUnchanged, Goto, IInv, ControlInv,
         OpenPcs
    <3> QED
      BY <3>1 DEF Atomic!Next, Atomic!Remove, Atomic!vars
  <2>2. CASE UNCHANGED committed /\ fault' = TRUE
    BY <1>0, <1>5, <2>2 DEF RemoveOriginal, CallUnchanged, Goto, IInv, ControlInv,
       OpenPcs
  <2> QED
    BY <1>5, <2>1, <2>2 DEF RemoveOriginal, Removed, RemoveFails
<1>6. CASE RemoveBackup
  <2>1. UNCHANGED <<content, view>> /\ fault' \in {fault, TRUE}
    BY <1>6 DEF RemoveBackup, CallUnchanged, Goto, Removed, RemoveFails
  <2> QED
    BY <1>0, <2>1
<1>7. CASE RemoveCsum
  <2>1. UNCHANGED <<content, view>> /\ view = Absent /\ content = committed
    BY <1>7 DEF RemoveCsum, Goto, IInv, ControlInv, OpenPcs
  <2>2. CASE kept' = {}
    <3>1. content = Absent
      BY <1>7, <2>1, <2>2 DEF RemoveCsum, IInv, ControlInv, LinkInv
    <3> QED
      BY <1>b, <2>1, <3>1 DEF Atomic!Next, Atomic!Forget
  <2>3. CASE kept' # {}
    BY <1>0, <1>7, <2>1, <2>3 DEF RemoveCsum
  <2> QED
    BY <2>2, <2>3
<1>8. CASE CreateOriginal
  <2>1. UNCHANGED <<content, view, trusted>>
    BY <1>8, <1>b DEF CreateOriginal, CallUnchanged, Goto, IInv, ControlInv, OpenPcs,
       LinkInv
  <2> QED
    BY <2>1 DEF Atomic!vars
<1>9. CASE GetDefaultData
  <2>1. /\ data' \in FileContents /\ fd = "closed" /\ fd' = "open" /\ pc = "defaultData"
        /\ pc' = "idle" /\ committed' = data' /\ UNCHANGED fault
    BY <1>9 DEF GetDefaultData, Register, SetFileHandleData, Goto, IInv, ControlInv,
       OpenPcs,
       TypeOK, Resources
  <2>2. /\ view = Absent /\ content = Absent /\ content' = data' /\ view' = data'
        /\ trusted' = trusted
    BY <1>b, <2>1
  <2> QED
    BY <1>c, <2>1, <2>2 DEF Atomic!Next, Atomic!Create
<1>10. CASE WriteBegin \/ CloseBegin \/ CloseRemoveBackup
  <2>1. UNCHANGED <<content, view>> /\ fault' \in {fault, TRUE}
    BY <1>10 DEF WriteBegin, CloseBegin, CloseRemoveBackup, FileUnchanged,
       CallUnchanged,
       Goto, Removed, RemoveFails
  <2> QED
    BY <1>0, <2>1
<1>11. CASE BackupCreateFile \/ CsumTruncate \/ CsumWrite \/ BackupTruncate \/ BackupCopy
  <2>1. UNCHANGED <<content, view>> /\ fault' \in {fault, TRUE}
    BY <1>11 DEF BackupCreateFile, CsumTruncate, CsumWrite, BackupTruncate, BackupCopy,
       CallUnchanged, Goto
  <2> QED
    BY <1>0, <2>1
<1>12. CASE WriteData
  <2>1. /\ view = data /\ data # Absent /\ view' = data' /\ data' \in FileContents
        /\ content' = content /\ trusted' = trusted
    BY <1>12, <1>b DEF WriteData, CallUnchanged, Goto, IInv, ControlInv, WritePcs,
       LinkInv
  <2> QED
    BY <1>c, <2>1 DEF Atomic!Next, Atomic!Write
<1>13. CASE CloseReadOnly \/ CloseRemoveCsum
  <2>1. /\ fd = "open" /\ fd' = "closed" /\ pc # "defaultData" /\ pc' = "idle"
        /\ committed' = IF linked THEN data ELSE Absent
    BY <1>13 DEF CloseReadOnly, CloseRemoveCsum, Closed, RemoveFileHandleData, Goto,
       IInv, ControlInv, ClosePcs
  <2>2. /\ view = data /\ view # Absent /\ view' = Absent
        /\ content' = IF content = Absent THEN Absent ELSE view
    BY <2>1 DEF LinkInv, IInv, ControlInv
  <2> QED
    BY <1>b, <2>2 DEF Atomic!Next, Atomic!Close
<1>14. CASE FileRemove
  <2>1. /\ content = committed /\ committed # Absent /\ content' = Absent
        /\ view' = view /\ trusted' = trusted
    BY <1>14, <1>b DEF FileRemove, CallUnchanged, IInv, ControlInv
  <2> QED
    BY <2>1 DEF Atomic!Next, Atomic!Remove
<1>15. CASE Crash
  <2>1. fd' = "closed" /\ pc' = "idle" /\ UNCHANGED fault
    BY <1>15 DEF Crash, Goto
  <2>2. CASE pc = "defaultData"
    <3>1. committed' \in FileContents /\ fd = "closed"
      BY <1>15, <2>2 DEF Crash, IInv, ControlInv, OpenPcs
    <3>2. /\ content = Absent /\ view = Absent /\ content' \in FileContents /\ view' = Absent
          /\ trusted' = trusted
      BY <1>b, <2>1, <2>2, <3>1
    <3> QED
      BY <1>c, <3>2 DEF Atomic!Next, Atomic!Create
  <2>3. CASE pc # "defaultData"
    <3>1. content' = content /\ view' = Absent /\ trusted' = trusted
      BY <1>15, <1>b, <2>1, <2>3 DEF Crash
    <3>2. CASE view = Absent
      BY <3>1, <3>2 DEF Atomic!vars
    <3>3. CASE view # Absent
      BY <3>1, <3>3 DEF Atomic!Next, Atomic!Crash
    <3> QED
      BY <3>2, <3>3
  <2> QED
    BY <2>2, <2>3
<1> QED
  BY <1>1, <1>2, <1>4, <1>5, <1>6, <1>7, <1>8, <1>9, <1>10, <1>11, <1>12, <1>13, <1>14,
     <1>15
  DEF Next, OpenStep, WriteStep, CloseStep

(* The files on disk implement a file whose sessions are atomic, for all   *)
(* contents, every checksum without collisions and any number of crashes:  *)
(* the refinement mapping takes what the last close left for the content   *)
(* and what the descriptor shows for the view.                             *)
THEOREM AtomicCorrect == Spec => ImplementsAtomicFile
<1>1. Init => Atomic!Init
  BY DEF Init, Atomic!Init, Atomic!FileContents, FileContents, Protected, BackupWanted
<1>2. ASSUME IInv, LinkInv, [Next]_vars PROVE LinkInv' /\ [Atomic!Next]_Atomic!vars
  <2>1. CASE Next
    BY <1>2, <2>1, LinkStep, AtomicStep
  <2>2. CASE UNCHANGED vars
    BY <1>2, <2>2 DEF vars, LinkInv, Atomic!vars, Protected, BackupWanted
  <2> QED
    BY <1>2, <2>1, <2>2
<1> QED
  BY <1>1, <1>2, LinkInit, IInvInit, IInvStep, PTL DEF Spec, ImplementsAtomicFile,
     Atomic!Spec

=============================================================================

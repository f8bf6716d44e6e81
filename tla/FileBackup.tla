----------------------------- MODULE FileBackup -----------------------------
(***************************************************************************)
(* Crash consistency of one file resource of the client library:           *)
(* pclFileOpen, pclFileWriteData, pclFileClose and pclFileRemove of        *)
(* persistence_client_library_file.c, with pclVerifyConsistency,           *)
(* pclRecoverFromBackup and pclCreateBackup of                             *)
(* persistence_client_library_backup_filelist.c.                           *)
(*                                                                         *)
(* The file has three incarnations on disk: the original, the backup       *)
(* ("<file>~") and the checksum file ("<file>~.crc").  One action is one   *)
(* system call that changes one of them, so that the process can die       *)
(* between any two.  gFileAccessMtx serialises the calls of a process, so  *)
(* pc is the program counter of the one call in progress.                  *)
(*                                                                         *)
(* Abstractions.  A content is an opaque value; a copy that is interrupted *)
(* leaves an arbitrary content.  One descriptor is open at a time.  Calls  *)
(* that the library refuses (not initialised, access locked, read-only     *)
(* file, unknown descriptor) change nothing and are stuttering steps.  The *)
(* page cache survives a crash: the process dies, not the machine.         *)
(***************************************************************************)
EXTENDS Integers

CONSTANTS
  Contents,  \* what a non-empty file may hold
  Empty,     \* the content of a file of size 0
  Absent,    \* there is no such file
  Sums,      \* the checksum strings of non-empty files
  NoSum,     \* the empty string: what pclCalcCrc32Csum yields for Empty
  Crc32      \* pclCrc32 followed by "%x"

ASSUME ContentAssumption == /\ Empty \notin Contents
                            /\ Absent \notin Contents
                            /\ Empty # Absent
ASSUME SumAssumption     == /\ NoSum \notin Sums
                            /\ Absent \notin Sums
                            /\ NoSum # Absent
(* Two contents of the same file never collide in their CRC.               *)
ASSUME CrcAssumption     == /\ Crc32 \in [Contents -> Sums]
                            /\ \A c, d \in Contents :
                                  Crc32[c] = Crc32[d] => c = d

VARIABLES
  res,        \* how the resource is configured; never changes
  data,       \* content of the original, seen by path or by descriptor
  linked,     \* the path of the original names that content
  backup,     \* content of the backup file, or Absent
  csum,       \* content of the checksum file, or Absent
  fd,         \* "open" while the application holds a descriptor
  status,     \* backupCreated of the descriptor: 0 = make one before writing
  csumBuf,    \* checksum computed by the pclFileWriteData in progress
  readable,   \* the descriptor was opened O_RDWR or O_RDONLY
  pc,         \* where the call in progress stands
  \* history variables
  committed,  \* content of the original at the last close, creation or open
  crashes,    \* where the process died since the last open or close
  kept,       \* the files whose last remove() failed
  fault       \* a system call on the three files failed since the last close

vars == <<res, data, linked, backup, csum, fd, status, csumBuf, readable, pc,
          committed, crashes, kept, fault>>

FileContents == Contents \cup {Empty}
Permissions  == {"ReadWrite", "WriteOnly", "ReadOnly"}

(* The entry of the resource configuration table and of the blacklist.     *)
Resources == [permission : Permissions,
              blacklisted : BOOLEAN,
              inRct : BOOLEAN,
              default : FileContents \cup {Absent}]

OpenPcs  == {"verify", "recoverTrunc", "recoverCopy", "rmOrig", "rmBackup",
             "rmCsum", "openOrig", "defaultData"}
WritePcs == {"backupCreate", "csumTrunc", "csumWrite", "backupTrunc",
             "backupCopy", "write"}
ClosePcs == {"closeRmBackup", "closeRmCsum"}
Pcs      == {"idle"} \cup OpenPcs \cup WritePcs \cup ClosePcs

TypeOK ==
  /\ res \in Resources
  /\ data \in FileContents \cup {Absent}
  /\ linked \in BOOLEAN
  /\ backup \in FileContents \cup {Absent}
  /\ csum \in Sums \cup {NoSum, Absent}
  /\ fd \in {"closed", "open"}
  /\ status \in {0, 1}
  /\ csumBuf \in Sums \cup {NoSum}
  /\ readable \in BOOLEAN
  /\ pc \in Pcs
  /\ committed \in FileContents \cup {Absent}
  /\ crashes \in SUBSET Pcs
  /\ kept \in SUBSET {"orig", "backup", "csum"}
  /\ fault \in BOOLEAN

-----------------------------------------------------------------------------
(* pclCalcCrc32Csum on a readable descriptor.                              *)
Csum(c) == IF c \in Contents THEN Crc32[c] ELSE NoSum

(* Reading a O_WRONLY descriptor fails and leaves the buffer empty.  Which *)
(* descriptors are: pclGetPosixPermission.  pclVerifyConsistency opens the *)
(* original with its flags; a descriptor of the application may also come  *)
(* from pclCreateFile or pclRecoverFromBackup, which open it O_RDWR.       *)
PosixReadable == res.permission # "WriteOnly"
OrigSum       == IF PosixReadable THEN Csum(data) ELSE NoSum
DescriptorSum == IF readable THEN Csum(data) ELSE NoSum

(* pclFileOpenRegular checks and backs up writable files that are not in   *)
(* the blacklist; wantBackup = 0 then.                                     *)
BackupWanted == /\ res.inRct
                /\ res.permission # "ReadOnly"
                /\ ~ res.blacklisted

(* get_file_permission of the descriptor: a resource outside the table is  *)
(* registered as ReadWrite.                                                *)
GetFilePermission == IF res.inRct THEN res.permission ELSE "ReadWrite"
ReadOnlyFile      == GetFilePermission = "ReadOnly"

Goto(label) == pc' = label

Init ==
  /\ res \in Resources
  /\ data \in FileContents \cup {Absent}
  /\ linked = (data # Absent)
  /\ backup = Absent
  /\ csum = Absent
  /\ fd = "closed"
  /\ status = 0
  /\ csumBuf = NoSum
  /\ readable = FALSE
  /\ pc = "idle"
  /\ committed = data
  /\ crashes = {}
  /\ kept = {}
  /\ fault = FALSE

-----------------------------------------------------------------------------
(* pclFileOpen                                                             *)

FileUnchanged == UNCHANGED <<res, data, linked, backup, csum, committed, kept, fault>>
CallUnchanged == UNCHANGED <<fd, status, csumBuf, readable, crashes>>

(* The entry of the descriptor in gFileHandleTree.                         *)
SetFileHandleData      == fd' = "open"
SetFileBackupStatus(s) == status' = s
RemoveFileHandleData   == fd' = "closed" /\ status' = 0 /\ readable' = FALSE

(* get_file_backup_status: the next write makes the backup first.          *)
BackupDue == status = 0

(* Mutant: the flag is inverted, every descriptor counts as backed up.      *)
Register_NoBackup(content, flags) ==
  /\ fd' = "open" /\ status' = 1 /\ readable' = flags
  /\ committed' = content /\ crashes' = {}
  /\ Goto("idle")

(* The descriptor is registered: set_file_handle_data and                  *)
(* set_file_backup_status.  What it shows is the base of the session.      *)
Register(content, flags) ==
  /\ SetFileHandleData /\ readable' = flags
  /\ SetFileBackupStatus(IF BackupWanted \/ ReadOnlyFile THEN 0 ELSE 1)
  /\ committed' = content
  /\ crashes' = {}
  /\ Goto("idle")

OpenBegin ==
  /\ pc = "idle" /\ fd = "closed" /\ res.inRct
  /\ Goto(IF BackupWanted THEN "verify" ELSE "openOrig")
  /\ FileUnchanged
  /\ CallUnchanged

(* A resource that is not in the table is created, or truncated, as a      *)
(* local cached file without backup.                                       *)
OpenNotInRct ==
  /\ pc = "idle" /\ fd = "closed" /\ ~ res.inRct
  /\ data' = Empty /\ linked' = TRUE
  /\ Register(Empty, TRUE)
  /\ UNCHANGED <<res, backup, csum, csumBuf, kept, fault>>

(* Mutant: an empty checksum file is not taken for an unfinished one.       *)
NothingToCheck_BothAbsent == csum = Absent /\ backup = Absent
(* Mutant: the checksum of the backup is not compared.                      *)
Recoverable_NoCompare == backup # Absent /\ csum \in Sums

(* The cases of pclVerifyConsistency.                                      *)
NothingToCheck == /\ csum \in {Absent, NoSum}
                  /\ (csum = Absent) <=> (backup = Absent)
Recoverable    == /\ backup # Absent
                  /\ csum \in Sums
                  /\ csum = Csum(backup)
OriginalValid  == /\ linked
                  /\ \/ csum = OrigSum
                     \/ backup # Absent /\ Csum(backup) = OrigSum

VerifyNothing ==
  /\ pc = "verify" /\ NothingToCheck
  /\ Goto("openOrig")
  /\ FileUnchanged
  /\ CallUnchanged

VerifyRecover ==
  /\ pc = "verify" /\ Recoverable
  /\ Goto("recoverTrunc")
  /\ FileUnchanged
  /\ CallUnchanged

VerifyKeep ==
  /\ pc = "verify"
  /\ ~ NothingToCheck /\ ~ Recoverable /\ OriginalValid
  /\ Register(data, PosixReadable)
  /\ UNCHANGED <<res, data, linked, backup, csum, csumBuf, kept, fault>>

VerifyCorrupt ==
  /\ pc = "verify"
  /\ ~ NothingToCheck /\ ~ Recoverable /\ ~ OriginalValid
  /\ Goto("rmOrig")
  /\ FileUnchanged
  /\ CallUnchanged

(* One of the files that are there cannot be opened: inconsistent as well. *)
VerifyFails ==
  /\ pc = "verify"
  /\ backup # Absent \/ csum # Absent
  /\ fault' = TRUE
  /\ Goto("rmOrig")
  /\ UNCHANGED <<res, data, linked, backup, csum, committed, kept>>
  /\ CallUnchanged

(* pclRecoverFromBackup: open(O_TRUNC | O_RDWR), without O_CREAT.          *)
RecoverTruncate ==
  /\ pc = "recoverTrunc"
  /\ \/ /\ data' = IF linked THEN Empty ELSE data
        /\ Goto(IF linked THEN "recoverCopy" ELSE "rmOrig")
        /\ UNCHANGED fault
     \/ linked /\ UNCHANGED data /\ Goto("rmOrig") /\ fault' = TRUE
  /\ UNCHANGED <<res, linked, backup, csum, committed, kept>>
  /\ CallUnchanged

(* A copy that fails is only logged: the descriptor of the truncated       *)
(* original, with as much as was copied, is handed out.                    *)
RecoverCopy ==
  /\ pc = "recoverCopy"
  /\ \/ data' = backup /\ UNCHANGED fault
     \/ data' \in FileContents /\ fault' = TRUE
  /\ Register(data', TRUE)
  /\ UNCHANGED <<res, linked, backup, csum, csumBuf, kept>>

(* A remove() that fails is at most logged.                                *)
Removed(file)     == kept' = kept \ {file} /\ UNCHANGED fault
RemoveFails(file) == kept' = kept \cup {file} /\ fault' = TRUE

(* The inconsistent case: three remove() calls, then pclFileOpen fails.    *)
RemoveOriginal ==
  /\ pc = "rmOrig"
  /\ \/ /\ data' = Absent /\ linked' = FALSE /\ committed' = Absent
        /\ Removed("orig")
     \/ /\ linked /\ RemoveFails("orig")
        /\ UNCHANGED <<data, linked, committed>>
  /\ Goto("rmBackup")
  /\ UNCHANGED <<res, backup, csum>>
  /\ CallUnchanged

RemoveBackup ==
  /\ pc = "rmBackup"
  /\ \/ backup' = Absent /\ Removed("backup")
     \/ backup # Absent /\ UNCHANGED backup /\ RemoveFails("backup")
  /\ Goto("rmCsum")
  /\ UNCHANGED <<res, data, linked, csum, committed>>
  /\ CallUnchanged

RemoveCsum ==
  /\ pc = "rmCsum"
  /\ \/ csum' = Absent /\ kept' = kept \ {"csum"}
     \/ csum # Absent /\ UNCHANGED csum /\ kept' = kept \cup {"csum"}
  /\ crashes' = {} /\ fault' = (kept' # {})
  /\ Goto("idle")
  /\ UNCHANGED <<res, data, linked, backup, fd, status, csumBuf, readable, committed>>

OpenOriginal ==
  /\ pc = "openOrig" /\ linked
  /\ Register(data, PosixReadable)
  /\ UNCHANGED <<res, data, linked, backup, csum, csumBuf, kept, fault>>

(* open() or pclCreateFile fails: so does pclFileOpen.                     *)
OpenFails ==
  /\ pc = "openOrig"
  /\ Goto("idle")
  /\ FileUnchanged /\ CallUnchanged

(* ENOENT: pclCreateFile, then pclFileGetDefaultData, whose copy may fail. *)
CreateOriginal ==
  /\ pc = "openOrig" /\ ~ linked
  /\ data' = Empty /\ linked' = TRUE /\ committed' = Empty
  /\ Goto("defaultData")
  /\ UNCHANGED <<res, backup, csum, kept, fault>>
  /\ CallUnchanged

GetDefaultData ==
  /\ pc = "defaultData"
  /\ \/ data' = IF res.default = Absent THEN data ELSE res.default
     \/ res.default # Absent /\ data' \in FileContents
  /\ Register(data', TRUE)
  /\ UNCHANGED <<res, linked, backup, csum, csumBuf, kept, fault>>

-----------------------------------------------------------------------------
(* pclFileWriteData                                                        *)

WriteBegin ==
  /\ pc = "idle" /\ fd = "open"
  /\ ~ ReadOnlyFile
  /\ csumBuf' = IF BackupDue THEN DescriptorSum ELSE csumBuf
  /\ Goto(IF BackupDue THEN "backupCreate" ELSE "write")
  /\ FileUnchanged
  /\ UNCHANGED <<fd, status, readable, crashes>>

(* pclCreateBackup.  Each of its three system calls may fail (the backup   *)
(* partition is full or read-only); it goes on regardless, and so does     *)
(* pclFileWriteData, which ignores the result.                             *)
BackupCreateFile ==
  /\ pc = "backupCreate"
  /\ \/ /\ backup' = IF backup = Absent THEN Empty ELSE backup
        /\ UNCHANGED fault
     \/ backup = Absent /\ UNCHANGED backup /\ fault' = TRUE
  /\ Goto("csumTrunc")
  /\ UNCHANGED <<res, data, linked, csum, committed, kept>>
  /\ CallUnchanged

CsumTruncate ==
  /\ pc = "csumTrunc"
  /\ \/ csum' = NoSum /\ Goto("csumWrite") /\ UNCHANGED fault
     \/ UNCHANGED csum /\ Goto("backupTrunc") /\ fault' = TRUE
  /\ UNCHANGED <<res, data, linked, backup, committed, kept>>
  /\ CallUnchanged

CsumWrite ==
  /\ pc = "csumWrite"
  /\ \/ csum' = csumBuf /\ UNCHANGED fault
     \/ UNCHANGED csum /\ fault' = TRUE
  /\ Goto("backupTrunc")
  /\ UNCHANGED <<res, data, linked, backup, committed, kept>>
  /\ CallUnchanged

BackupTruncate ==
  /\ pc = "backupTrunc"
  /\ \/ /\ backup' = Empty /\ Goto("backupCopy")
        /\ UNCHANGED <<fault, status, csumBuf>>
     \/ /\ UNCHANGED backup /\ Goto("write") /\ fault' = TRUE
        /\ SetFileBackupStatus(1) /\ csumBuf' = NoSum
  /\ UNCHANGED <<res, data, linked, csum, fd, readable, committed, crashes, kept>>

(* Mutant: the backup status of the descriptor is not set.                 *)
BackupCopy_NoStatus ==
  /\ pc = "backupCopy"
  /\ \/ backup' = (IF readable THEN data ELSE backup) /\ UNCHANGED fault
     \/ backup' \in FileContents /\ fault' = TRUE
  /\ Goto("write") /\ csumBuf' = NoSum
  /\ UNCHANGED <<res, data, linked, csum, fd, status, readable, committed, crashes,
                 kept>>

(* sendfile from a O_WRONLY descriptor fails, whatever the medium.         *)
BackupCopy ==
  /\ pc = "backupCopy"
  /\ \/ /\ backup' = IF readable THEN data ELSE backup
        /\ UNCHANGED fault
     \/ /\ backup' \in FileContents
        /\ fault' = TRUE
  /\ SetFileBackupStatus(1) /\ csumBuf' = NoSum
  /\ Goto("write")
  /\ UNCHANGED <<res, data, linked, csum, fd, readable, committed, crashes, kept>>

WriteData ==
  /\ pc = "write"
  /\ data' \in FileContents
  /\ Goto("idle")
  /\ UNCHANGED <<res, linked, backup, csum, committed, kept, fault>>
  /\ CallUnchanged

-----------------------------------------------------------------------------
(* pclFileClose, also what process_prepare_shutdown does to the open files *)

(* Whatever a failing remove() has left in an earlier call, the original   *)
(* is now what the session has made of it.                                 *)
Closed ==
  /\ RemoveFileHandleData
  /\ data' = IF linked THEN data ELSE Absent
  /\ committed' = data'
  /\ crashes' = {} /\ fault' = (kept' # {})
  /\ Goto("idle")

CloseReadOnly ==
  /\ pc = "idle" /\ fd = "open" /\ ReadOnlyFile
  /\ kept' = kept \ {"orig"}
  /\ Closed
  /\ UNCHANGED <<res, linked, backup, csum, csumBuf>>

(* Mutant: only a session that has made a backup removes the backup files. *)
CloseBegin_Written ==
  /\ pc = "idle" /\ fd = "open" /\ ~ ReadOnlyFile
  /\ IF BackupDue
     THEN /\ kept' = kept \ {"orig"}
          /\ Closed
          /\ UNCHANGED <<res, linked, backup, csum, csumBuf>>
     ELSE /\ Goto("closeRmBackup")
          /\ FileUnchanged /\ CallUnchanged

CloseBegin ==
  /\ pc = "idle" /\ fd = "open" /\ ~ ReadOnlyFile
  /\ Goto("closeRmBackup")
  /\ FileUnchanged
  /\ CallUnchanged

CloseRemoveBackup ==
  /\ pc = "closeRmBackup"
  /\ \/ backup' = Absent /\ Removed("backup")
     \/ backup # Absent /\ UNCHANGED backup /\ RemoveFails("backup")
  /\ Goto("closeRmCsum")
  /\ UNCHANGED <<res, data, linked, csum, committed>>
  /\ CallUnchanged

CloseRemoveCsum ==
  /\ pc = "closeRmCsum"
  /\ \/ csum' = Absent /\ kept' = kept \ {"orig", "csum"}
     \/ csum # Absent /\ UNCHANGED csum /\ kept' = (kept \ {"orig"}) \cup {"csum"}
  /\ Closed
  /\ UNCHANGED <<res, linked, backup, csumBuf>>

-----------------------------------------------------------------------------
(* pclFileRemove: the path goes; an open descriptor keeps its content.     *)
FileRemove ==
  /\ pc = "idle" /\ linked /\ res.inRct
  /\ linked' = FALSE
  /\ data' = IF fd = "open" THEN data ELSE Absent
  /\ committed' = Absent
  /\ UNCHANGED <<res, backup, csum, pc, kept, fault>>
  /\ CallUnchanged

(* The process dies.  A copy or a write in progress may be incomplete, if  *)
(* there is something to copy.                                             *)
Crash ==
  /\ pc # "idle" \/ fd = "open"
  /\ \E torn \in FileContents :
       /\ data' = IF ~ linked THEN Absent
                  ELSE IF pc \in {"recoverCopy", "defaultData", "write"} THEN torn ELSE data
       /\ backup' = IF pc = "backupCopy" /\ DescriptorSum # NoSum THEN torn ELSE backup
       /\ committed' = IF pc = "defaultData" THEN torn ELSE committed
  /\ fd' = "closed" /\ status' = 0 /\ readable' = FALSE /\ csumBuf' = NoSum
  /\ crashes' = crashes \cup {pc}
  /\ Goto("idle")
  /\ UNCHANGED <<res, linked, csum, kept, fault>>

OpenStep ==
  \/ OpenBegin \/ OpenNotInRct
  \/ VerifyNothing \/ VerifyRecover \/ VerifyKeep \/ VerifyCorrupt \/ VerifyFails
  \/ RecoverTruncate \/ RecoverCopy
  \/ RemoveOriginal \/ RemoveBackup \/ RemoveCsum
  \/ OpenOriginal \/ OpenFails \/ CreateOriginal \/ GetDefaultData

WriteStep ==
  \/ WriteBegin \/ BackupCreateFile \/ CsumTruncate \/ CsumWrite
  \/ BackupTruncate \/ BackupCopy \/ WriteData

CloseStep ==
  \/ CloseReadOnly \/ CloseBegin \/ CloseRemoveBackup \/ CloseRemoveCsum

Next == OpenStep \/ WriteStep \/ CloseStep \/ FileRemove \/ Crash

Spec == Init /\ [][Next]_vars

-----------------------------------------------------------------------------
(* Properties                                                              *)

(* A file whose backups can work: in the table, not blacklisted, readable. *)
Protected == BackupWanted /\ res.permission = "ReadWrite"

(* Every session of a protected file starts from what the last completed   *)
(* session left: whatever pclFileWriteData did before the process died,    *)
(* and wherever pclCreateBackup or an earlier recovery was interrupted,    *)
(* the open that succeeds hands out the committed content.  There are two  *)
(* exceptions.  A system call on the files has failed since the last close *)
(* or fails in this open: a recovery whose copy fails hands out what was   *)
(* copied.  And a session that started from an empty file: its checksum    *)
(* file is empty, which pclVerifyConsistency takes for "nothing to do".    *)
OpenDeliversCommitted ==
  [][(Protected /\ ~ fault' /\ linked /\ fd = "closed" /\ fd' = "open")
        => (data' = committed \/ committed = Empty)]_vars

(* Copy on write: by the time pclFileWriteData changes the original, the   *)
(* committed content and its checksum are on disk, and they stay until     *)
(* pclFileClose starts to remove them.                                     *)
BackupBeforeWrite ==
  (Protected /\ ~ fault /\ linked /\ fd = "open" /\ data # committed)
     => /\ csum = Csum(committed)
        /\ backup = committed \/ pc = "closeRmCsum"

(* pclVerifyConsistency deletes an existing file only after a crash in one *)
(* of three windows: in pclCreateBackup after the backup was created and   *)
(* before the checksum file was; in pclFileClose between the two remove()  *)
(* calls; and, for a WriteOnly file, between the checksum and the end of   *)
(* the copy, because the next open cannot read the original to compare.    *)
LossOnlyInWindows ==
  (pc = "rmOrig" /\ linked /\ ~ fault)
     => \/ crashes \cap {"csumTrunc", "closeRmCsum"} # {}
        \/ /\ res.permission = "WriteOnly"
           /\ crashes \cap {"backupTrunc", "backupCopy"} # {}

(* A backup or checksum file that outlives a session that ended without a  *)
(* crash, recovered sessions included, is one that remove() refused to     *)
(* take away, in that session or in the ones since it was last removed: a  *)
(* stale pair would roll the next open back to an old content.             *)
NoStaleBackup ==
  (pc = "idle" /\ fd = "closed" /\ crashes = {})
     => /\ backup # Absent => "backup" \in kept
        /\ csum # Absent => "csum" \in kept

(* The three files, the status and the program counters implement a file   *)
(* whose sessions are atomic: what a descriptor shows when pclFileOpen     *)
(* returns is what pclFileClose left, and no write takes effect before     *)
(* that.  A file that is being created is not there yet.                   *)
Atomic == INSTANCE AtomicFile
          WITH content <- IF pc = "defaultData" THEN Absent ELSE committed,
               view    <- IF fd = "open" THEN data ELSE Absent,
               trusted <- Protected /\ ~ fault,
               None    <- Absent

ImplementsAtomicFile == Atomic!Spec

=============================================================================

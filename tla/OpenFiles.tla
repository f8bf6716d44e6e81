------------------------------ MODULE OpenFiles -----------------------------
(***************************************************************************)
(* The open files of an application, all of them together: gFileHandleTree *)
(* and the linked list gOpenFdList of persistence_client_library_handle.c, *)
(* pclFileOpen, pclFileWriteData and pclFileClose of                       *)
(* persistence_client_library_file.c, and process_prepare_shutdown, which  *)
(* walks the list on the main loop thread to sync or close the files.      *)
(*                                                                         *)
(* gFileAccessMtx makes each call of the application one step.  The loop   *)
(* walks the list without that mutex, and its callback pclFileClose, which *)
(* takes it, frees the item the loop stands on.  So the items are cells of *)
(* memory, which malloc() may hand out again.  A read of freed memory      *)
(* yields anything: the heap keeps what was in a freed cell only to tell   *)
(* whether the walk was misled.  Or the process dies, which it may do at   *)
(* any time.                                                               *)
(*                                                                         *)
(* Abstractions.  Backup and checksum file are one; module FileBackup cuts *)
(* their creation and the recovery into system calls.  A file is as its    *)
(* last complete session left it, or changed.  The kernel may hand out any *)
(* free descriptor.  The handshake with the loop is in module MainLoop,    *)
(* the gate in Lifecycle: any write may have passed it before it closed.   *)
(***************************************************************************)
EXTENDS Integers, FiniteSets

CONSTANTS
  Files, Configurations,   \* the resources, and how they may be configured
  Fds, Failed,    \* descriptors, and the result -1 of an open that failed
  Items, NULL,    \* cells of memory for items of the list: a bound
  Free, NoFile,
  MaxStale        \* bound on descriptors the application keeps that are not its own

Kinds == {"backup",      \* in the table, writable, with a backup
          "blacklisted", \* the same without a backup
          "readonly",
          "unlisted",    \* not in the table: a local cached file
          "default"}     \* opened as PCL_USER_DEFAULTDATA

ASSUME FileAssumption == /\ Configurations \subseteq [Files -> Kinds]
                         /\ IsFiniteSet(Items)
                         /\ Free \notin Files /\ NoFile \notin Files
                         /\ Failed \notin Fds /\ NULL \notin Items /\ MaxStale \in Nat

Keys == Fds \cup {Failed}

VARIABLES
  kind,           \* file -> its kind; never changes
  up,             \* gPclInitCounter > 0
  kernel,         \* descriptor -> file
  gFileHandleTree,   \* descriptor -> entry, or NULL
  gOpenFdList,    \* the first item
  heap,           \* item -> [fd, next]
  live,           \* items that were allocated and not freed
  backup,         \* files that have a backup
  changed,        \* files that differ from what their last session left
  loop, mode,     \* where the shutdown stands, and which one it is
  tmp,            \* its place in the list
  held,           \* the descriptors of the application, with their files
  stale,          \* descriptors it takes for its own that were closed under it
  \* history variables
  orphans,        \* descriptors that pclDeinitLibrary left open
  shared,         \* files that were opened while another session was open
  pending,        \* descriptors that this shutdown has still to reach
  raced           \* an open fell into a shutdown, or the shutdown was misled by
                  \* freed memory, and the effect lasts

disk   == <<backup, changed>>
list   == <<gOpenFdList, heap, live>>
main   == <<loop, mode, tmp, pending>>
vars   == <<kind, up, kernel, gFileHandleTree, list, disk, main, held, stale,
            orphans, shared, raced>>

Entries == [permission : {"ReadWrite", "ReadOnly", "LastEntry"},
            of : Files \cup {NoFile},   \* the file whose backup path it has
            backupCreated : {0, 1}]

(* Partial functions from keys to entries.                                 *)
Trees == UNION {[K -> Entries] : K \in SUBSET Keys}
ASSUME NullAssumption == NULL \notin Trees
Tree  == IF gFileHandleTree = NULL THEN {} ELSE DOMAIN gFileHandleTree

Blank == [fd |-> Failed, next |-> NULL]

TypeOK ==
  /\ kind \in Configurations
  /\ up \in BOOLEAN
  /\ kernel \in [Fds -> Files \cup {Free}]
  /\ gFileHandleTree = NULL \/ gFileHandleTree \in Trees
  /\ gOpenFdList \in Items \cup {NULL}
  /\ heap \in [Items -> [fd : Keys, next : Items \cup {NULL}]]
  /\ live \subseteq Items
  /\ backup \subseteq Files /\ changed \subseteq Files /\ shared \subseteq Files
  /\ loop \in {"idle", "iterate", "next", "destroy", "finish", "quit"}
  /\ mode \in {"none", "partial", "full", "deinit"}
  /\ tmp \in Items \cup {NULL}
  /\ held \subseteq Fds \X Files /\ stale \subseteq Fds
  /\ orphans \subseteq Fds /\ pending \subseteq Fds
  /\ raced \in {"no", "once", "lasting"}

Init ==
  /\ kind \in Configurations
  /\ up = FALSE
  /\ kernel = [d \in Fds |-> Free]
  /\ gFileHandleTree = NULL
  /\ gOpenFdList = NULL /\ heap = [c \in Items |-> Blank] /\ live = {}
  /\ backup = {} /\ changed = {}
  /\ loop = "idle" /\ mode = "none" /\ tmp = NULL
  /\ held = {} /\ stale = {} /\ orphans = {} /\ shared = {}
  /\ pending = {} /\ raced = "no"

-----------------------------------------------------------------------------
(* gOpenFdList                                                             *)

(* The items as tmp->next leads from one to the next.                      *)
Item[k \in 0 .. Cardinality(Items)] ==
  IF k = 0 THEN gOpenFdList
  ELSE IF Item[k - 1] = NULL THEN NULL ELSE heap[Item[k - 1]].next

Positions == {k \in 0 .. Cardinality(Items) : Item[k] # NULL}
Listed    == {heap[Item[k]].fd : k \in Positions}

list_item_insert(d) ==
  \E c \in Items \ live :
    /\ live' = live \cup {c}
    /\ IF gOpenFdList = NULL
         THEN /\ gOpenFdList' = c
              /\ heap' = [heap EXCEPT ![c] = [fd |-> d, next |-> NULL]]
         ELSE LET last == CHOOSE k \in Positions : heap[Item[k]].next = NULL
              IN  /\ heap' = [heap EXCEPT ![Item[last]].next = c,
                                          ![c] = [fd |-> d, next |-> NULL]]
                  /\ UNCHANGED gOpenFdList

(* Mutant: the items behind the first one are cut off with it.             *)
list_item_remove_CutOff(d) ==
  LET found == {k \in Positions : heap[Item[k]].fd = d}
      k == CHOOSE i \in found : \A j \in found : i <= j
  IN  IF found = {} THEN UNCHANGED list
      ELSE /\ Item[k] \in live /\ live' = live \ {Item[k]}
           /\ gOpenFdList' = IF k = 0 THEN NULL ELSE gOpenFdList
           /\ heap' = IF k = 0 THEN heap ELSE [heap EXCEPT ![Item[k - 1]].next = NULL]

(* The first item of this descriptor; freeing one that is free is the end  *)
(* of the process.  Once nobody can come across it any more, what the      *)
(* freed memory holds does not matter.                                     *)
list_item_remove(d) ==
  LET found == {k \in Positions : heap[Item[k]].fd = d}
      k == CHOOSE i \in found : \A j \in found : i <= j
      c == Item[k]
  IN  IF found = {} THEN UNCHANGED list
      ELSE /\ c \in live /\ live' = live \ {c}
           /\ gOpenFdList' = IF k = 0 THEN heap[c].next ELSE gOpenFdList
           /\ LET cut == IF k = 0 THEN heap
                         ELSE [heap EXCEPT ![Item[k - 1]].next = heap[c].next]
              IN  heap' = IF loop \in {"idle", "quit"} THEN [cut EXCEPT ![c] = Blank] ELSE cut

-----------------------------------------------------------------------------
(* gFileHandleTree                                                         *)

set_file_handle_data(d, e) ==
  gFileHandleTree' = [k \in Tree \cup {d} |-> IF k = d THEN e ELSE gFileHandleTree[k]]

(* An entry is made for a descriptor that has none; the status itself is   *)
(* not modelled.                                                           *)
set_file_cache_status(d) ==
  IF d \in Tree THEN UNCHANGED gFileHandleTree
  ELSE set_file_handle_data(d, [permission |-> "LastEntry", of |-> NoFile,
                                backupCreated |-> 0])

(* Mutant: the entry stays.                                                *)
remove_file_handle_data_Kept(d) == UNCHANGED gFileHandleTree

remove_file_handle_data(d) ==
  gFileHandleTree' = IF gFileHandleTree = NULL THEN NULL
                     ELSE [k \in Tree \ {d} |-> gFileHandleTree[k]]

(* -1 for a descriptor that is not in the tree, but PersistencePermission_ *)
(* LastEntry if there is no tree.                                          *)
get_file_permission(d) ==
  CASE gFileHandleTree = NULL -> "LastEntry"
    [] d \in Tree             -> gFileHandleTree[d].permission
    [] OTHER                  -> "none"

-----------------------------------------------------------------------------
(* pclFileOpen                                                             *)

Tracked(f)    == kind[f] \in {"backup", "blacklisted", "unlisted"}
BackupDue(f)  == kind[f] = "backup"
InUse(f)      == \/ \E d \in Fds : kernel[d] = f
                 \/ Failed \in Tree /\ gFileHandleTree[Failed].of = f

(* Mutant: wantBackup keeps its initial value.                             *)
Entry_NoBackup(f) ==
  [permission    |-> IF kind[f] = "readonly" THEN "ReadOnly" ELSE "ReadWrite",
   of            |-> IF kind[f] = "default" THEN NoFile ELSE f,
   backupCreated |-> 1]

(* set_file_handle_data, then set_file_backup_status for a writable file   *)
Entry(f) == [permission    |-> IF kind[f] = "readonly" THEN "ReadOnly" ELSE "ReadWrite",
             of            |-> IF kind[f] = "default" THEN NoFile ELSE f,
             backupCreated |-> IF kind[f] \in {"blacklisted", "unlisted"} THEN 1 ELSE 0]

(* Mutant: the path of the backup lacks the name of the file.              *)
Recover_AnyBackup(f) == changed' = IF BackupDue(f) THEN changed \ backup ELSE changed

(* pclVerifyConsistency: a file that has a backup is put back.             *)
Recover(f) == changed' = IF BackupDue(f) /\ f \in backup THEN changed \ {f} ELSE changed

(* What an open in the course of a shutdown, or a read of freed memory,    *)
(* may spoil.                                                              *)
Spoilt  == IF mode # "partial" THEN "lasting" ELSE IF raced = "no" THEN "once" ELSE raced
Overlap == raced' = IF loop = "idle" THEN raced ELSE Spoilt

(* A writable file is entered into the tree and the list, any other into   *)
(* the tree alone.                                                         *)
OpenSucceeds(f, d) ==
  /\ up /\ kernel[d] = Free
  /\ Recover(f)
  /\ kernel' = [kernel EXCEPT ![d] = f]
  /\ set_file_handle_data(d, Entry(f))
  /\ IF Tracked(f) THEN list_item_insert(d) ELSE UNCHANGED list
  /\ held' = held \cup {<<d, f>>} /\ UNCHANGED stale
  /\ shared' = IF InUse(f) THEN shared \cup {f} ELSE shared
  /\ Overlap
  /\ UNCHANGED <<up, backup, main, orphans>>

(* open() or creating the file fails.  A file of the table, or of default  *)
(* data, is entered all the same, under -1; of any other there is left     *)
(* what set_file_cache_status has made.                                    *)
OpenFails(f) ==
  /\ up /\ ~ (BackupDue(f) /\ f \in backup)
  /\ IF kind[f] = "unlisted"
       THEN set_file_cache_status(Failed) /\ UNCHANGED list
       ELSE /\ set_file_handle_data(Failed, Entry(f))
            /\ IF Tracked(f) THEN list_item_insert(Failed) ELSE UNCHANGED list
  /\ shared' = IF InUse(f) /\ kind[f] # "unlisted" THEN shared \cup {f} ELSE shared
  /\ Overlap
  /\ UNCHANGED <<up, kernel, disk, main, held, stale, orphans>>

(* The descriptor is beyond MaxPersHandle and closed at once; the file has *)
(* been put back by then.                                                  *)
OpenRefused(f) ==
  /\ up /\ BackupDue(f) /\ f \in backup
  /\ Recover(f)
  /\ shared' = IF InUse(f) THEN shared \cup {f} ELSE shared
  /\ UNCHANGED <<up, kernel, gFileHandleTree, list, backup, main, held, stale,
                 orphans, raced>>

-----------------------------------------------------------------------------
(* pclFileWriteData through a descriptor that the application holds, its   *)
(* own or not.                                                             *)
Write(d) ==
  /\ up /\ d \in stale \cup {h[1] : h \in held} /\ kernel[d] # Free
  /\ get_file_permission(d) \in {"ReadWrite", "LastEntry"}
  /\ kind[kernel[d]] # "readonly"     \* the kernel refuses it
  /\ IF d \in Tree /\ gFileHandleTree[d].backupCreated = 0
                   /\ gFileHandleTree[d].of # NoFile
       THEN /\ backup' = backup \cup {gFileHandleTree[d].of}
            /\ gFileHandleTree' = [gFileHandleTree EXCEPT ![d].backupCreated = 1]
       ELSE UNCHANGED <<backup, gFileHandleTree>>
  /\ changed' = IF BackupDue(kernel[d]) THEN changed \cup {kernel[d]} ELSE changed
  /\ UNCHANGED <<up, kernel, list, main, held, stale, orphans, shared, raced>>

-----------------------------------------------------------------------------
(* pclFileClose, by the application or as the callback of list_iterate.    *)

(* The session ends with the last descriptor of the file; what it wrote is *)
(* what the next one starts from.                                          *)
Ended(d) == {f \in Files : kernel[d] = f /\ \A e \in Fds \ {d} : kernel[e] # f}

(* Backup and checksum are removed for a descriptor that could write.      *)
Discarded(d) == IF get_file_permission(d) = "ReadWrite" THEN {gFileHandleTree[d].of} ELSE {}

Close(d) ==
  IF get_file_permission(d) = "none"
  THEN UNCHANGED <<kernel, gFileHandleTree, list, disk, orphans, shared>>
  ELSE /\ backup' = backup \ Discarded(d)
       /\ remove_file_handle_data(d)
       /\ list_item_remove(d)
       /\ IF d = Failed
            THEN UNCHANGED <<kernel, changed, orphans, shared>>
            ELSE /\ kernel' = [kernel EXCEPT ![d] = Free]
                 /\ changed' = changed \ Ended(d)
                 /\ shared' = shared \ Ended(d)
                 /\ orphans' = orphans \ {d}

(* Who holds a descriptor that is closed now.                              *)
Holders(d) == IF get_file_permission(d) = "none" THEN {} ELSE {h \in held : h[1] = d}

(* Those who hold the descriptors lose them.  The application does not     *)
(* know, and may go on using some.                                         *)
Revoke(lost) ==
  /\ held' = held \ lost
  /\ \E kept \in SUBSET (stale \cup {h[1] : h \in lost}) :
       /\ Cardinality(kept) <= MaxStale
       /\ stale' = kept

FileClose(h) ==
  /\ up /\ h \in held
  /\ Close(h[1])
  /\ held' = held \ {h} /\ UNCHANGED stale
  /\ pending' = pending \ {h[1]}
  /\ UNCHANGED <<up, loop, mode, tmp, raced>>

(* The descriptor may be another session's by now.                         *)
FileCloseStale(d) ==
  /\ up /\ d \in stale
  /\ Close(d)
  /\ held' = held \ Holders(d)
  /\ stale' \in {stale \ {d}} \cup (IF Holders(d) = {} THEN {} ELSE {stale})
  /\ pending' = IF get_file_permission(d) = "none" THEN pending ELSE pending \ {d}
  /\ UNCHANGED <<up, loop, mode, tmp, raced>>

(* The application closes the -1 it got from an open that failed.          *)
FileCloseFailed ==
  /\ up /\ Failed \in Tree
  /\ Close(Failed)
  /\ UNCHANGED <<up, main, held, stale, raced>>

-----------------------------------------------------------------------------
(* process_prepare_shutdown on the main loop thread                        *)

TrackedFds == {d \in Tree \cap Fds : Tracked(kernel[d])}

(* For an application (partial), for the node state manager (full) and for *)
(* pclDeinitLibrary.                                                       *)
PrepareShutdown(m) ==
  /\ up /\ loop = "idle"
  /\ loop' = "iterate" /\ mode' = m
  /\ tmp' = gOpenFdList
  /\ pending' = TrackedFds
  /\ raced' = IF raced = "once" THEN "no" ELSE raced
  /\ UNCHANGED <<up, kernel, gFileHandleTree, list, disk, held, stale, orphans, shared>>

(* tmp->fd and tmp->next: whatever there is in the memory of an item that  *)
(* has been freed by another thread or by the callback.                    *)
Read(value, stored) ==
  /\ value = stored \/ tmp \notin live
  /\ raced' = IF value = stored THEN raced ELSE Spoilt

(* list_iterate with fsync                                                 *)
IterateSync ==
  /\ loop = "iterate" /\ tmp # NULL /\ mode = "partial"
  /\ loop' = "next"
  /\ \E d \in Keys : Read(d, heap[tmp].fd) /\ pending' = pending \ {d}
  /\ UNCHANGED <<up, kernel, gFileHandleTree, list, disk, mode, tmp, held,
                 stale, orphans, shared>>

(* list_iterate with pclFileClose                                          *)
IterateClose ==
  /\ loop = "iterate" /\ tmp # NULL /\ mode # "partial"
  /\ \E d \in Keys :
       /\ Read(d, heap[tmp].fd)
       /\ Close(d)
       /\ Revoke(Holders(d))
       /\ pending' = IF get_file_permission(d) = "none" THEN pending ELSE pending \ {d}
  /\ loop' = "next"
  /\ UNCHANGED <<up, mode, tmp>>

(* Mutant: the iteration goes on from the list, one item further.          *)
IterateNext_Skip ==
  /\ loop = "next"
  /\ tmp' = IF gOpenFdList = NULL THEN NULL ELSE heap[gOpenFdList].next
  /\ loop' = "iterate"
  /\ UNCHANGED <<up, kernel, gFileHandleTree, list, disk, mode, pending, held,
                 stale, orphans, shared, raced>>

(* tmp = tmp->next, of an item that the callback has freed if it closed    *)
(* the file.                                                               *)
IterateNext ==
  /\ loop = "next"
  /\ \E c \in Items \cup {NULL} : Read(c, heap[tmp].next) /\ tmp' = c
  /\ loop' = "iterate"
  /\ UNCHANGED <<up, kernel, gFileHandleTree, list, disk, mode, pending, held,
                 stale, orphans, shared>>

IterateEnd ==
  /\ loop = "iterate" /\ tmp = NULL
  /\ IF mode = "partial" THEN loop' = "finish" /\ UNCHANGED tmp
                         ELSE loop' = "destroy" /\ tmp' = gOpenFdList
  /\ UNCHANGED <<up, kernel, gFileHandleTree, list, disk, mode, pending, held,
                 stale, orphans, shared, raced>>

(* close_all_persistence_handle: list_destroy, item by item.               *)
DestroyItem ==
  /\ loop = "destroy" /\ tmp # NULL /\ tmp \in live
  /\ tmp' = heap[tmp].next
  /\ live' = live \ {tmp}
  /\ UNCHANGED <<up, kernel, gFileHandleTree, gOpenFdList, heap, disk, loop, mode,
                 pending, held, stale, orphans, shared, raced>>

DestroyEnd ==
  /\ loop = "destroy" /\ tmp = NULL
  /\ gOpenFdList' = NULL
  /\ loop' = "finish"
  /\ UNCHANGED <<up, kernel, gFileHandleTree, heap, live, disk, mode, tmp,
                 pending, held, stale, orphans, shared, raced>>

(* The shutdown is done; after that of pclDeinitLibrary the loop ends.     *)
(* Items out of reach, freed or leaked, do not matter any more.            *)
ShutdownDone ==
  /\ loop = "finish"
  /\ IF mode = "deinit" THEN loop' = "quit" /\ UNCHANGED mode
                        ELSE loop' = "idle" /\ mode' = "none"
  /\ pending' = {}
  /\ live' = {Item[k] : k \in Positions}
  /\ heap' = [c \in Items |-> IF c \in live' THEN heap[c] ELSE Blank]
  /\ UNCHANGED <<up, kernel, gFileHandleTree, gOpenFdList, disk, tmp, held, stale,
                 orphans, shared, raced>>

(* pclDeinitLibrary: deleteHandleTrees when the loop has ended.  What is   *)
(* still open stays open, without an entry.                                *)
DeinitLibrary ==
  /\ loop = "quit"
  /\ up' = FALSE /\ loop' = "idle" /\ mode' = "none"
  /\ gFileHandleTree' = NULL
  /\ Revoke(held)
  /\ orphans' = {d \in Fds : kernel[d] # Free}
  /\ shared' = {f \in Files : \E d \in Fds : kernel[d] = f}
  /\ UNCHANGED <<kernel, list, disk, tmp, pending, raced>>

InitLibrary ==
  /\ ~ up /\ up' = TRUE
  /\ UNCHANGED <<kernel, gFileHandleTree, list, disk, main, held, stale, orphans,
                 shared, raced>>

(* The process dies, and is started again.  A changed file without backup  *)
(* is taken as it is.                                                      *)
Die ==
  /\ up' = FALSE
  /\ kernel' = [d \in Fds |-> Free]
  /\ gFileHandleTree' = NULL
  /\ gOpenFdList' = NULL /\ heap' = [c \in Items |-> Blank] /\ live' = {}
  /\ changed' = changed \cap backup /\ UNCHANGED backup
  /\ loop' = "idle" /\ mode' = "none" /\ tmp' = NULL
  /\ held' = {} /\ stale' = {} /\ orphans' = {} /\ shared' = {}
  /\ pending' = {} /\ raced' = "no"

Step ==
  \/ \E f \in Files, d \in Fds : OpenSucceeds(f, d)
  \/ \E f \in Files : OpenFails(f) \/ OpenRefused(f)
  \/ \E d \in Fds : Write(d)
  \/ \E h \in held : FileClose(h)
  \/ \E d \in Fds : FileCloseStale(d)
  \/ FileCloseFailed
  \/ \E m \in {"partial", "full", "deinit"} : PrepareShutdown(m)
  \/ IterateSync \/ IterateClose \/ IterateNext \/ IterateEnd
  \/ DestroyItem \/ DestroyEnd \/ ShutdownDone
  \/ DeinitLibrary \/ InitLibrary \/ Die

Next == Step /\ UNCHANGED kind

Spec == Init /\ [][Next]_vars

-----------------------------------------------------------------------------
(* Properties                                                              *)

(* The tree knows the open descriptors and no others, each with the paths  *)
(* of the file it is open on, so that pclFileClose never removes the       *)
(* backup of a file that had the descriptor before, and never leaves a     *)
(* descriptor open; only a pclDeinitLibrary leaves some out.               *)
TreeNamesKernel ==
  \A d \in Fds :
    /\ d \in Tree <=> kernel[d] # Free /\ d \notin orphans
    /\ d \in Tree => gFileHandleTree[d].of \in {kernel[d], NoFile}

(* A descriptor that nobody else has closed names the file that it was     *)
(* opened for, to the kernel and in the tree.                              *)
HeldNamesItsFile ==
  \A h \in held :
    kernel[h[1]] = h[2] /\ h[1] \in Tree /\ gFileHandleTree[h[1]].of \in {h[2], NoFile}

(* The application, the tree and the kernel mean the same file by a        *)
(* descriptor.                                                             *)
DescriptorsAgree == TypeOK /\ TreeNamesKernel /\ HeldNamesItsFile

(* Between shutdowns the list has the writable files that are open, each   *)
(* once, unless an open fell into a full shutdown or the memory of a freed *)
(* item misled it: such a shutdown forgets files that stay open.           *)
ListTracks ==
  (loop = "idle" /\ raced # "lasting")
     => /\ Listed \ {Failed} = TrackedFds
        /\ \A i, j \in Positions : heap[Item[i]].fd = heap[Item[j]].fd
                                      => i = j \/ heap[Item[i]].fd = Failed

(* A shutdown syncs or closes every writable file that was open when it    *)
(* began, although other threads close files meanwhile, provided that the  *)
(* freed items it reads, its own after every file it closes and those that *)
(* other threads free, still hold what they held (raced).                  *)
ShutdownReachesAll ==
  (loop = "finish" /\ raced = "no") => pending = {}

(* At any moment a file that its session has changed has a backup to       *)
(* recover from, whatever happens to other files and descriptors; two      *)
(* sessions of the same file take each other's backup away.                *)
ChangedHasBackup ==
  \A f \in changed \ shared : f \in backup

(* What was written stays as long as a descriptor of the file stays open,  *)
(* unless a second open of the file rolls it back.                         *)
WritesStay ==
  [][\A f \in changed \ shared' :
       (\E d \in Fds : kernel[d] = f /\ kernel'[d] = f) => f \in changed']_vars

=============================================================================

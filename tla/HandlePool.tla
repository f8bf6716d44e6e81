----------------------------- MODULE HandlePool -----------------------------
(***************************************************************************)
(* The pool of handle indices of persistence_client_library_handle.c and   *)
(* its two clients: key handles (pclKeyHandleOpen, pclKeyHandleClose) and  *)
(* path handles (pclFileCreatePath, pclFileReleasePath).                   *)
(*                                                                         *)
(* gMtx protects the pool; gKeyAPIHandleAccessMtx serialises the calls on  *)
(* key handles and gFileAccessMtx those on path handles.  So at most one   *)
(* call of each kind is in progress, they interleave, and each is two      *)
(* steps: one on the pool, one on the tree that stores what the handle     *)
(* stands for.  close_all_persistence_handle runs on the main loop thread  *)
(* and takes neither API mutex.                                            *)
(*                                                                         *)
(* Abstractions.  What a handle stands for is an opaque key or path.  A    *)
(* tree is a total function; NoKey and NoPath stand for "not in the tree". *)
(* Callers never pass a negative handle.                                   *)
(***************************************************************************)
EXTENDS Integers

CONSTANTS
  MaxPersHandle,  \* size of gFreeHandleArray
  Keys, NoKey,    \* resources addressed by key handles
  Paths, NoPath,  \* resources addressed by path handles
  MaxDisturbed    \* bound: how often the pool is disturbed

ASSUME MaxAssumption    == MaxPersHandle \in Nat /\ MaxPersHandle > 2
ASSUME KeyAssumption    == NoKey \notin Keys /\ NoPath \notin Paths
ASSUME BoundAssumption  == MaxDisturbed \in Nat

EPERS_MAXHANDLE == -4

VARIABLES
  initialized,          \* gPclInitCounter > 0
  gHandleIdx,           \* next index never handed out
  gFreeHandleArray,     \* stack of indices handed back
  gFreeHandleIdxHead,   \* its height
  gKeyHandleTree,       \* key handle -> key
  gOssFileHandleTree,   \* path handle -> path
  ossTreeExists,        \* gOssFileHandleTree # NULL
  keyPc, keyIdx, keyId, \* call on key handles in progress
  pathPc, pathIdx, pathId,   \* call on path handles in progress
  \* history variables: what the application believes its handles mean
  heldKey, heldPath,
  dropped,              \* an index was handed back to a full free array since
                        \* the pool was last reset
  disturbed             \* how often since the last init a full shutdown has
                        \* reset a pool in use or a handle was released that
                        \* was no path's

pool  == <<gHandleIdx, gFreeHandleArray, gFreeHandleIdxHead, dropped>>
key   == <<keyPc, keyIdx, keyId, gKeyHandleTree, heldKey>>
path  == <<pathPc, pathIdx, pathId, gOssFileHandleTree, ossTreeExists, heldPath>>
vars  == <<initialized, pool, key, path, disturbed>>

Handles == 1 .. MaxPersHandle - 1
Indices == Handles \cup {EPERS_MAXHANDLE}
Slots   == 0 .. MaxPersHandle - 1

TypeOK ==
  /\ initialized \in BOOLEAN
  /\ gHandleIdx \in Handles
  /\ gFreeHandleArray \in [Slots -> Handles \cup {0}]
  /\ gFreeHandleIdxHead \in 0 .. MaxPersHandle
  /\ gKeyHandleTree \in [Indices -> Keys \cup {NoKey}]
  /\ gOssFileHandleTree \in [Indices -> Paths \cup {NoPath}]
  /\ ossTreeExists \in BOOLEAN
  /\ keyPc \in {"idle", "insert", "clear"}
  /\ keyIdx \in Indices
  /\ keyId \in Keys \cup {NoKey}
  /\ pathPc \in {"idle", "insert", "remove"}
  /\ pathIdx \in Indices
  /\ pathId \in Paths \cup {NoPath}
  /\ heldKey \in [Handles -> Keys \cup {NoKey}]
  /\ heldPath \in [Handles -> Paths \cup {NoPath}]
  /\ dropped \in BOOLEAN
  /\ disturbed \in 0 .. MaxDisturbed

-----------------------------------------------------------------------------
(* The pool                                                                *)

FreeSpot == gFreeHandleIdxHead > 0 /\ gFreeHandleIdxHead < MaxPersHandle

(* Mutant: the bound of the fresh indices is off by one.                   *)
GetPersistenceHandleIdx_OffByOne(h) ==
  /\ ~ FreeSpot /\ gHandleIdx <= MaxPersHandle - 1
  /\ h = gHandleIdx
  /\ gHandleIdx' = gHandleIdx + 1
  /\ UNCHANGED <<gFreeHandleArray, gFreeHandleIdxHead, dropped>>

(* Mutant: the index taken from the free array stays in it.                *)
GetPersistenceHandleIdx_NoPop(h) ==
  \/ /\ FreeSpot
     /\ h = gFreeHandleArray[gFreeHandleIdxHead - 1]
     /\ UNCHANGED pool
  \/ /\ ~ FreeSpot /\ gHandleIdx < MaxPersHandle - 1
     /\ h = gHandleIdx
     /\ gHandleIdx' = gHandleIdx + 1
     /\ UNCHANGED <<gFreeHandleArray, gFreeHandleIdxHead, dropped>>

(* get_persistence_handle_idx returns h.                                   *)
GetPersistenceHandleIdx(h) ==
  \/ /\ FreeSpot
     /\ h = gFreeHandleArray[gFreeHandleIdxHead - 1]
     /\ gFreeHandleIdxHead' = gFreeHandleIdxHead - 1
     /\ UNCHANGED <<gHandleIdx, gFreeHandleArray, dropped>>
  \/ /\ ~ FreeSpot
     /\ gHandleIdx < MaxPersHandle - 1
     /\ h = gHandleIdx
     /\ gHandleIdx' = gHandleIdx + 1
     /\ UNCHANGED <<gFreeHandleArray, gFreeHandleIdxHead, dropped>>
  \/ /\ ~ FreeSpot
     /\ gHandleIdx >= MaxPersHandle - 1
     /\ h = EPERS_MAXHANDLE
     /\ UNCHANGED pool

(* Mutant: the head is incremented before the store.                       *)
SetPersistenceHandleCloseIdx_PreIncrement(h) ==
  /\ gFreeHandleIdxHead < MaxPersHandle - 1
  /\ gFreeHandleArray' = [gFreeHandleArray EXCEPT ![gFreeHandleIdxHead + 1] = h]
  /\ gFreeHandleIdxHead' = gFreeHandleIdxHead + 1
  /\ UNCHANGED <<gHandleIdx, dropped>>

(* set_persistence_handle_close_idx: a full array drops the index.         *)
SetPersistenceHandleCloseIdx(h) ==
  /\ UNCHANGED gHandleIdx
  /\ \/ /\ gFreeHandleIdxHead < MaxPersHandle
        /\ gFreeHandleArray' = [gFreeHandleArray EXCEPT ![gFreeHandleIdxHead] = h]
        /\ gFreeHandleIdxHead' = gFreeHandleIdxHead + 1
        /\ UNCHANGED dropped
     \/ /\ gFreeHandleIdxHead >= MaxPersHandle
        /\ dropped' = TRUE
        /\ UNCHANGED <<gFreeHandleArray, gFreeHandleIdxHead>>

(* close_all_persistence_handle: the trees are left alone.                 *)
CloseAllPersistenceHandle ==
  /\ gFreeHandleArray' = [i \in Slots |-> 0]
  /\ gHandleIdx' = 1
  /\ gFreeHandleIdxHead' = 0
  /\ dropped' = FALSE

(* The application holds a handle, or a call has drawn one.                *)
InUse == \/ \E h \in Handles : heldKey[h] # NoKey \/ heldPath[h] # NoPath
         \/ keyPc = "insert" \/ pathPc = "insert"

Disturb(yes) ==
  IF yes THEN disturbed < MaxDisturbed /\ disturbed' = disturbed + 1
         ELSE UNCHANGED disturbed

Init ==
  /\ initialized = TRUE
  /\ gHandleIdx = 1
  /\ gFreeHandleArray = [i \in Slots |-> 0]
  /\ gFreeHandleIdxHead = 0
  /\ gKeyHandleTree = [h \in Indices |-> NoKey]
  /\ gOssFileHandleTree = [h \in Indices |-> NoPath]
  /\ ossTreeExists = FALSE
  /\ keyPc = "idle" /\ keyIdx = EPERS_MAXHANDLE /\ keyId = NoKey
  /\ pathPc = "idle" /\ pathIdx = EPERS_MAXHANDLE /\ pathId = NoPath
  /\ heldKey = [h \in Handles |-> NoKey]
  /\ heldPath = [h \in Handles |-> NoPath]
  /\ dropped = FALSE /\ disturbed = 0

-----------------------------------------------------------------------------
(* Key handles                                                             *)

(* The key call in progress ends; the locals are dead.                     *)
KeyCallEnds ==
  keyPc' = "idle" /\ keyIdx' = EPERS_MAXHANDLE /\ keyId' = NoKey

KeyHandleOpenGet(k) ==
  /\ initialized /\ keyPc = "idle"
  /\ \E h \in Indices : GetPersistenceHandleIdx(h) /\ keyIdx' = h
  /\ keyId' = k /\ keyPc' = "insert"
  /\ UNCHANGED <<initialized, disturbed, path, gKeyHandleTree, heldKey>>

(* Mutant: the key is stored under the last fresh index.                   *)
KeyHandleOpenInsert_LastIdx ==
  /\ keyPc = "insert"
  /\ gKeyHandleTree' = [gKeyHandleTree EXCEPT
                          ![gHandleIdx - 1] = IF @ = NoKey THEN keyId ELSE @]
  /\ heldKey' = IF keyIdx \in Handles
                  THEN [heldKey EXCEPT ![keyIdx] = keyId] ELSE heldKey
  /\ KeyCallEnds
  /\ UNCHANGED <<initialized, disturbed, pool, path>>

(* set_key_handle_data: jsw_rbinsert keeps an entry that already has the   *)
(* index.  The index, an error code included, is what the caller gets.     *)
KeyHandleOpenInsert ==
  /\ keyPc = "insert"
  /\ gKeyHandleTree' = [gKeyHandleTree EXCEPT
                          ![keyIdx] = IF @ = NoKey THEN keyId ELSE @]
  /\ heldKey' = IF keyIdx \in Handles
                  THEN [heldKey EXCEPT ![keyIdx] = keyId] ELSE heldKey
  /\ KeyCallEnds
  /\ UNCHANGED <<initialized, disturbed, pool, path>>

(* get_key_handle_data, which every call on a key handle starts with.      *)
GetKeyHandleData(h) == gKeyHandleTree[h]

(* A handle that is not in the tree is refused.                            *)
KeyHandleClosePush(h) ==
  /\ initialized /\ keyPc = "idle"
  /\ GetKeyHandleData(h) # NoKey
  /\ SetPersistenceHandleCloseIdx(h)
  /\ keyIdx' = h /\ keyPc' = "clear"
  /\ heldKey' = [heldKey EXCEPT ![h] = NoKey]
  /\ UNCHANGED <<initialized, disturbed, path, gKeyHandleTree, keyId>>

KeyHandleCloseClear ==
  /\ keyPc = "clear"
  /\ gKeyHandleTree' = [gKeyHandleTree EXCEPT ![keyIdx] = NoKey]
  /\ KeyCallEnds
  /\ UNCHANGED <<initialized, disturbed, pool, path, heldKey>>

-----------------------------------------------------------------------------
(* Path handles                                                            *)

PathCallEnds ==
  pathPc' = "idle" /\ pathIdx' = EPERS_MAXHANDLE /\ pathId' = NoPath

FileCreatePathGet(p) ==
  /\ initialized /\ pathPc = "idle"
  /\ \E h \in Indices : GetPersistenceHandleIdx(h) /\ pathIdx' = h
  /\ pathId' = p /\ pathPc' = "insert"
  /\ UNCHANGED <<initialized, disturbed, key, gOssFileHandleTree, ossTreeExists,
                 heldPath>>

(* set_ossfile_handle_data replaces an entry that already has the index.   *)
FileCreatePathInsert ==
  /\ pathPc = "insert"
  /\ gOssFileHandleTree' = [gOssFileHandleTree EXCEPT ![pathIdx] = pathId]
  /\ ossTreeExists' = TRUE
  /\ heldPath' = IF pathIdx \in Handles
                   THEN [heldPath EXCEPT ![pathIdx] = pathId] ELSE heldPath
  /\ PathCallEnds
  /\ UNCHANGED <<initialized, disturbed, pool, key>>

(* get_ossfile_permission, the range check, refuses a handle that is not   *)
(* in the tree but lets every handle pass while there is no tree.          *)
GetOssfilePermission(h) ==
  \/ gOssFileHandleTree[h] # NoPath
  \/ ~ ossTreeExists

FileReleasePathPush(h) ==
  /\ initialized /\ pathPc = "idle"
  /\ GetOssfilePermission(h)
  /\ SetPersistenceHandleCloseIdx(h)
  /\ pathIdx' = h /\ pathPc' = "remove"
  /\ heldPath' = [heldPath EXCEPT ![h] = NoPath]
  /\ Disturb(gOssFileHandleTree[h] = NoPath)
  /\ UNCHANGED <<initialized, key, gOssFileHandleTree, ossTreeExists, pathId>>

(* set_ossfile_file_path creates the tree if there is none, and an entry   *)
(* that remove_ossfile_handle_data takes out.                              *)
SetOssfileFilePath      == ossTreeExists' = TRUE
RemoveOssfileHandleData ==
  gOssFileHandleTree' = [gOssFileHandleTree EXCEPT ![pathIdx] = NoPath]

FileReleasePathRemove ==
  /\ pathPc = "remove"
  /\ SetOssfileFilePath /\ RemoveOssfileHandleData
  /\ PathCallEnds
  /\ UNCHANGED <<initialized, disturbed, pool, key, heldPath>>

-----------------------------------------------------------------------------
(* process_prepare_shutdown(Shutdown_Full) for a NSM request.              *)
ExternalShutdown ==
  /\ initialized
  /\ CloseAllPersistenceHandle
  /\ Disturb(InUse)
  /\ UNCHANGED <<initialized, key, path>>

(* The last pclDeinitLibrary: the same on the main loop, then              *)
(* deleteHandleTrees.  No call on a handle is in progress.                 *)
DeinitLibrary ==
  /\ initialized /\ keyPc = "idle" /\ pathPc = "idle"
  /\ initialized' = FALSE
  /\ CloseAllPersistenceHandle
  /\ gKeyHandleTree' = [h \in Indices |-> NoKey]
  /\ gOssFileHandleTree' = [h \in Indices |-> NoPath]
  /\ ossTreeExists' = FALSE
  /\ heldKey' = [h \in Handles |-> NoKey]
  /\ heldPath' = [h \in Handles |-> NoPath]
  /\ disturbed' = 0
  /\ UNCHANGED <<keyPc, keyIdx, keyId, pathPc, pathIdx, pathId>>

(* The first pclInitLibrary: init_key_handle_array.                        *)
InitLibrary ==
  /\ ~ initialized
  /\ initialized' = TRUE
  /\ gKeyHandleTree' = [h \in Indices |-> NoKey]
  /\ UNCHANGED <<disturbed, pool, path, keyPc, keyIdx, keyId, heldKey>>

KeyStep ==
  \/ \E k \in Keys : KeyHandleOpenGet(k)
  \/ KeyHandleOpenInsert
  \/ \E h \in Handles : KeyHandleClosePush(h)
  \/ KeyHandleCloseClear

PathStep ==
  \/ \E p \in Paths : FileCreatePathGet(p)
  \/ FileCreatePathInsert
  \/ \E h \in Handles : FileReleasePathPush(h)
  \/ FileReleasePathRemove

Next == KeyStep \/ PathStep \/ ExternalShutdown \/ DeinitLibrary \/ InitLibrary

Spec == Init /\ [][Next]_vars

-----------------------------------------------------------------------------
(* Properties                                                              *)

FreeHandles == {gFreeHandleArray[i] : i \in 0 .. gFreeHandleIdxHead - 1}

(* A key handle means the key it was opened for as long as the application *)
(* holds it: no other open, close or path call redirects it, until a full  *)
(* shutdown resets the pool under it.                                      *)
HandleNamesItsKey ==
  disturbed = 0 =>
    \A h \in Handles : heldKey[h] # NoKey => GetKeyHandleData(h) = heldKey[h]

(* An index has one owner: what the application holds is neither free, nor *)
(* about to be handed out, nor held twice (as a key and as a path).        *)
OneOwner ==
  disturbed = 0 =>
    \A h \in Handles :
      (heldKey[h] # NoKey \/ heldPath[h] # NoPath) =>
         /\ h \notin FreeHandles
         /\ h < gHandleIdx
         /\ ~ (keyPc = "insert" /\ keyIdx = h)
         /\ ~ (pathPc = "insert" /\ pathIdx = h)
         /\ heldKey[h] = NoKey \/ heldPath[h] = NoPath

(* No index leaks, shutdowns and releases of foreign handles included:     *)
(* below gHandleIdx every index is free, held, or in the hands of an open  *)
(* that has drawn it, unless an index came back to a full free array,      *)
(* which takes the duplicates of a disturbed pool.  EPERS_MAXHANDLE is     *)
(* otherwise returned only when MaxPersHandle - 2 handles are in use.      *)
NoLeak ==
  /\ disturbed = 0 => ~ dropped
  /\ ~ dropped =>
       \A h \in 1 .. gHandleIdx - 1 :
          \/ h \in FreeHandles
          \/ heldKey[h] # NoKey
          \/ heldPath[h] # NoPath
          \/ keyPc = "insert" /\ keyIdx = h
          \/ pathPc = "insert" /\ pathIdx = h

(* The free array is a set: no index is in it twice, whatever order of     *)
(* closes led to it, and it has room for every handle that is still out,   *)
(* so that set_persistence_handle_close_idx never drops one.               *)
FreeArrayIsASet ==
  disturbed = 0 =>
    /\ gFreeHandleIdxHead < MaxPersHandle - 1
    /\ \A i, j \in 0 .. gFreeHandleIdxHead - 1 :
          gFreeHandleArray[i] = gFreeHandleArray[j] => i = j

=============================================================================

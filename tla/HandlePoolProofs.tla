-------------------------- MODULE HandlePoolProofs --------------------------
(***************************************************************************)
(* Ownership of handle indices, proved for every size of the pool and      *)
(* every interleaving of key and path calls, as long as the pool is not    *)
(* disturbed: by a full shutdown of the node state manager while handles   *)
(* are in use, or by the release of a handle that pclFileCreatePath did    *)
(* not return.  A pclDeinitLibrary ends the disturbance.                   *)
(***************************************************************************)
EXTENDS HandlePool, FiniteSetTheorems, TLAPS

(* The error code is no handle.                                            *)
LEMMA IndexFacts ==
  /\ EPERS_MAXHANDLE \notin Handles /\ EPERS_MAXHANDLE \in Indices
  /\ Handles \subseteq Indices /\ 1 \in Handles
  BY MaxAssumption DEF EPERS_MAXHANDLE, Handles, Indices

-----------------------------------------------------------------------------
(* The empty pool, the empty trees and an application without handles.     *)
LEMMA EmptyFacts ==
  /\ [i \in Slots |-> 0] \in [Slots -> Handles \cup {0}]
  /\ [h \in Indices |-> NoKey] \in [Indices -> Keys \cup {NoKey}]
  /\ [h \in Indices |-> NoPath] \in [Indices -> Paths \cup {NoPath}]
  /\ [h \in Handles |-> NoKey] \in [Handles -> Keys \cup {NoKey}]
  /\ [h \in Handles |-> NoPath] \in [Handles -> Paths \cup {NoPath}]
  /\ 0 \in 0 .. MaxPersHandle
<1>1. 0 \in 0 .. MaxPersHandle
  BY MaxAssumption
<1> QED
  BY <1>1, Zenon

(* The initial states are well typed.                                      *)
LEMMA TypeInit == Init => TypeOK
<1>1. 0 \in 0 .. MaxDisturbed
  BY BoundAssumption
<1> QED
  BY <1>1, EmptyFacts, IndexFacts, Zenon DEF Init, TypeOK

(* Drawing an index keeps the types of the pool.                           *)
LEMMA TypeGet ==
  ASSUME TypeOK, NEW h \in Indices, GetPersistenceHandleIdx(h)
  PROVE  /\ gHandleIdx' \in Handles
         /\ gFreeHandleArray' \in [Slots -> Handles \cup {0}]
         /\ gFreeHandleIdxHead' \in 0 .. MaxPersHandle
         /\ dropped' \in BOOLEAN
  BY MaxAssumption
  DEF TypeOK, GetPersistenceHandleIdx, FreeSpot, Handles, pool

(* Handing an index back keeps the types of the pool.                      *)
LEMMA TypeClose ==
  ASSUME TypeOK, NEW h \in Handles, SetPersistenceHandleCloseIdx(h)
  PROVE  /\ gHandleIdx' \in Handles
         /\ gFreeHandleArray' \in [Slots -> Handles \cup {0}]
         /\ gFreeHandleIdxHead' \in 0 .. MaxPersHandle
         /\ dropped' \in BOOLEAN
<1>1. dropped' \in BOOLEAN
  BY Zenon DEF TypeOK, SetPersistenceHandleCloseIdx
<1> QED
  BY <1>1, MaxAssumption DEF TypeOK, SetPersistenceHandleCloseIdx, Slots

(* Every step keeps the types.                                             *)
LEMMA TypeStep == TypeOK /\ [Next]_vars => TypeOK'
<1> SUFFICES ASSUME TypeOK, [Next]_vars PROVE TypeOK'
  OBVIOUS
<1> USE IndexFacts
<1>1. ASSUME NEW k \in Keys, KeyHandleOpenGet(k) PROVE TypeOK'
  BY <1>1, TypeGet DEF KeyHandleOpenGet, TypeOK, path
<1>2. CASE KeyHandleOpenInsert
  BY <1>2 DEF KeyHandleOpenInsert, KeyCallEnds, TypeOK, pool, path
<1>3. ASSUME NEW h \in Handles, KeyHandleClosePush(h) PROVE TypeOK'
  BY <1>3, TypeClose DEF KeyHandleClosePush, TypeOK, path, GetKeyHandleData
<1>4. CASE KeyHandleCloseClear
  BY <1>4 DEF KeyHandleCloseClear, KeyCallEnds, TypeOK, pool, path
<1>5. ASSUME NEW p \in Paths, FileCreatePathGet(p) PROVE TypeOK'
  BY <1>5, TypeGet DEF FileCreatePathGet, TypeOK, key
<1>6. CASE FileCreatePathInsert
  BY <1>6 DEF FileCreatePathInsert, PathCallEnds, TypeOK, pool, key
<1>7. ASSUME NEW h \in Handles, FileReleasePathPush(h) PROVE TypeOK'
  BY <1>7, TypeClose, BoundAssumption DEF FileReleasePathPush, TypeOK, key,
     GetOssfilePermission, Disturb
<1>8. CASE FileReleasePathRemove
  BY <1>8 DEF FileReleasePathRemove, PathCallEnds, TypeOK, pool, key,
              SetOssfileFilePath, RemoveOssfileHandleData
<1>9. CASE ExternalShutdown
  <2>1. disturbed' \in 0 .. MaxDisturbed
    BY <1>9, BoundAssumption DEF ExternalShutdown, TypeOK, Disturb
  <2> QED
    BY <1>9, <2>1, EmptyFacts, Zenon
    DEF ExternalShutdown, CloseAllPersistenceHandle, TypeOK, key, path
<1>10. CASE DeinitLibrary
  <2>1. 0 \in 0 .. MaxDisturbed
    BY BoundAssumption
  <2> QED
    BY <1>10, <2>1, EmptyFacts, Zenon DEF DeinitLibrary, CloseAllPersistenceHandle,
       TypeOK
<1>11. CASE InitLibrary
  BY <1>11 DEF InitLibrary, TypeOK, pool, path
<1>12. CASE UNCHANGED vars
  BY <1>12 DEF vars, pool, key, path, TypeOK
<1> QED
  BY <1>1, <1>2, <1>3, <1>4, <1>5, <1>6, <1>7, <1>8, <1>9, <1>10, <1>11, <1>12
  DEF Next, KeyStep, PathStep

(* The variables keep their types, EPERS_MAXHANDLE as an index included.   *)
THEOREM TypeCorrect == Spec => []TypeOK
  BY TypeInit, TypeStep, PTL DEF Spec

-----------------------------------------------------------------------------
(* The inductive invariant.  OneOwner and NoLeak are not inductive: they   *)
(* say nothing of an index that a call has handed back and still clears,   *)
(* nor that the entries of the trees are the handles that are out.         *)

(* The free array holds distinct indices that were handed out before, and  *)
(* nothing was dropped.                                                    *)
PoolInv ==
  /\ ~ dropped
  /\ \A i \in 0 .. gFreeHandleIdxHead - 1 :
        gFreeHandleArray[i] \in 1 .. gHandleIdx - 1
  /\ \A i, j \in 0 .. gFreeHandleIdxHead - 1 :
        gFreeHandleArray[i] = gFreeHandleArray[j] => i = j

KeyDrawn(h)  == keyPc = "insert" /\ keyIdx = h
PathDrawn(h) == pathPc = "insert" /\ pathIdx = h
KeyHeld(h)   == heldKey[h] # NoKey
PathHeld(h)  == heldPath[h] # NoPath

(* An index that was ever handed out has exactly one owner: the free       *)
(* array, the application, or the open that has drawn it.                  *)
OwnerInv ==
  \A h \in Handles :
    /\ h \in FreeHandles =>
          ~ KeyHeld(h) /\ ~ PathHeld(h) /\ ~ KeyDrawn(h) /\ ~ PathDrawn(h)
    /\ KeyHeld(h)  => ~ PathHeld(h) /\ ~ KeyDrawn(h) /\ ~ PathDrawn(h)
    /\ PathHeld(h) => ~ KeyDrawn(h) /\ ~ PathDrawn(h)
    /\ KeyDrawn(h) => ~ PathDrawn(h)
    /\ h < gHandleIdx <=> \/ h \in FreeHandles
                          \/ KeyHeld(h) \/ PathHeld(h)
                          \/ KeyDrawn(h) \/ PathDrawn(h)

(* The trees hold the handles that are out, and the one whose close has    *)
(* handed the index back and not yet cleared the entry.                    *)
TreeInv ==
  /\ \A h \in Handles : KeyHeld(h) => gKeyHandleTree[h] = heldKey[h]
  /\ \A h \in Handles :
        gKeyHandleTree[h] # NoKey => KeyHeld(h) \/ (keyPc = "clear" /\ keyIdx = h)
  /\ \A h \in Handles :
        gOssFileHandleTree[h] # NoPath
           => PathHeld(h) \/ (pathPc = "remove" /\ pathIdx = h)
  /\ keyPc = "insert" => keyId # NoKey
  /\ pathPc = "insert" => pathId # NoPath
  /\ keyPc = "clear" => keyIdx \in Handles /\ ~ KeyHeld(keyIdx)
  /\ pathPc = "remove" => pathIdx \in Handles /\ ~ PathHeld(pathIdx)
  /\ ~ initialized => /\ keyPc = "idle" /\ pathPc = "idle"
                      /\ \A h \in Handles : ~ KeyHeld(h)

IInv == TypeOK /\ PoolInv /\ OwnerInv /\ TreeInv

(* The free array holds fewer indices than were handed out: pigeonhole.    *)
LEMMA HeadBound ==
  ASSUME TypeOK, PoolInv PROVE gFreeHandleIdxHead <= gHandleIdx - 1
<1> DEFINE S == 0 .. gFreeHandleIdxHead - 1
           T == 1 .. gHandleIdx - 1
           f == [i \in S |-> gFreeHandleArray[i]]
<1>0. /\ gFreeHandleIdxHead \in Nat /\ gHandleIdx \in Nat /\ gHandleIdx >= 1
  BY MaxAssumption DEF TypeOK, Handles
<1>1. IsFiniteSet(S) /\ Cardinality(S) = gFreeHandleIdxHead
  BY <1>0, FS_Interval
<1>2. IsFiniteSet(T) /\ Cardinality(T) = gHandleIdx - 1
  BY <1>0, FS_Interval
<1>3. f \in [S -> T]
  BY DEF PoolInv
<1>4. \A i, j \in S : f[i] = f[j] => i = j
  BY DEF PoolInv
<1> HIDE DEF S, T, f
<1>5. ~ (Cardinality(T) < Cardinality(S))
  BY <1>1, <1>2, <1>3, <1>4, FS_PigeonHole
<1> QED
  BY <1>0, <1>1, <1>2, <1>5

(* What get_persistence_handle_idx does to the pool as a set.              *)
LEMMA GetFacts ==
  ASSUME TypeOK, PoolInv, NEW h \in Indices, GetPersistenceHandleIdx(h)
  PROVE  /\ PoolInv'
         /\ \/ /\ h \in FreeHandles /\ h \in 1 .. gHandleIdx - 1
               /\ FreeHandles' = FreeHandles \ {h}
               /\ gHandleIdx' = gHandleIdx
            \/ /\ h = gHandleIdx /\ h \in Handles
               /\ FreeHandles' = FreeHandles
               /\ gHandleIdx' = gHandleIdx + 1
            \/ /\ h = EPERS_MAXHANDLE
               /\ FreeHandles' = FreeHandles
               /\ gHandleIdx' = gHandleIdx
<1>0. /\ gFreeHandleIdxHead \in Nat /\ gHandleIdx \in Nat /\ gHandleIdx >= 1
      /\ MaxPersHandle \in Nat
  BY MaxAssumption DEF TypeOK, Handles
<1>1. CASE FreeSpot
  <2>1. /\ h = gFreeHandleArray[gFreeHandleIdxHead - 1]
        /\ gFreeHandleIdxHead' = gFreeHandleIdxHead - 1
        /\ UNCHANGED <<gHandleIdx, gFreeHandleArray, dropped>>
        /\ gFreeHandleIdxHead > 0
    BY <1>1 DEF GetPersistenceHandleIdx, FreeSpot
  <2>2. PoolInv'
    BY <1>0, <2>1 DEF PoolInv
  <2>3. h \in FreeHandles /\ h \in 1 .. gHandleIdx - 1
    BY <1>0, <2>1 DEF PoolInv, FreeHandles
  <2>4. FreeHandles' = FreeHandles \ {h}
    BY <1>0, <2>1 DEF PoolInv, FreeHandles
  <2> QED
    BY <2>1, <2>2, <2>3, <2>4
<1>2. CASE ~ FreeSpot
  BY <1>0, <1>2 DEF GetPersistenceHandleIdx, PoolInv, FreeHandles, pool, Handles
<1> QED
  BY <1>1, <1>2

(* What set_persistence_handle_close_idx does to it: the index it gets is  *)
(* never dropped.                                                          *)
LEMMA CloseFacts ==
  ASSUME TypeOK, PoolInv, NEW h \in Handles, SetPersistenceHandleCloseIdx(h),
         h < gHandleIdx, h \notin FreeHandles
  PROVE  /\ PoolInv'
         /\ FreeHandles' = FreeHandles \cup {h}
         /\ gHandleIdx' = gHandleIdx
<1>0. /\ gFreeHandleIdxHead \in Nat /\ gHandleIdx \in Nat /\ h \in 1 .. gHandleIdx - 1
      /\ MaxPersHandle \in Nat /\ gHandleIdx < MaxPersHandle
  BY MaxAssumption DEF TypeOK, Handles
<1>1. gFreeHandleIdxHead < MaxPersHandle - 1
  BY <1>0, HeadBound
<1>2. /\ gFreeHandleArray' = [gFreeHandleArray EXCEPT ![gFreeHandleIdxHead] = h]
      /\ gFreeHandleIdxHead' = gFreeHandleIdxHead + 1
      /\ gHandleIdx' = gHandleIdx /\ dropped' = dropped
      /\ gFreeHandleIdxHead \in Slots
  BY <1>0, <1>1 DEF SetPersistenceHandleCloseIdx, Slots
<1>3. /\ gFreeHandleArray'[gFreeHandleIdxHead] = h
      /\ \A i \in 0 .. gFreeHandleIdxHead - 1 :
            gFreeHandleArray'[i] = gFreeHandleArray[i] /\ gFreeHandleArray[i] # h
  BY <1>0, <1>1, <1>2 DEF TypeOK, Slots, FreeHandles
<1>4. PoolInv'
  BY <1>0, <1>2, <1>3 DEF PoolInv
<1>5. FreeHandles' = FreeHandles \cup {h}
  BY <1>0, <1>2, <1>3 DEF FreeHandles
<1> QED
  BY <1>2, <1>4, <1>5

-----------------------------------------------------------------------------
(* The initial states satisfy the invariant: nothing was handed out.       *)
LEMMA IInvInit == Init => IInv
<1> SUFFICES ASSUME Init PROVE IInv
  OBVIOUS
<1>1. TypeOK
  BY TypeInit
<1>2. FreeHandles = {} /\ PoolInv
  BY DEF Init, FreeHandles, PoolInv
<1>3. OwnerInv
  BY <1>2 DEF Init, OwnerInv, KeyHeld, PathHeld, KeyDrawn, PathDrawn, Handles
<1>4. TreeInv
  BY IndexFacts DEF Init, TreeInv, KeyHeld, PathHeld
<1> QED
  BY <1>1, <1>2, <1>3, <1>4 DEF IInv

(* Every step of a call on key handles preserves the invariant.            *)
LEMMA KeyInvStep == ASSUME IInv, KeyStep, TypeOK' PROVE IInv'
<1> USE IndexFacts, KeyAssumption
<1>t. TypeOK /\ PoolInv /\ OwnerInv /\ TreeInv /\ gHandleIdx \in Nat
  BY MaxAssumption DEF IInv, TypeOK, Handles
<1>h. Handles \subseteq Nat
  BY DEF Handles
<1>1. ASSUME NEW k \in Keys, KeyHandleOpenGet(k) PROVE IInv'
  <2>1. PICK h \in Indices : GetPersistenceHandleIdx(h) /\ keyIdx' = h
    BY <1>1 DEF KeyHandleOpenGet
  <2>a. /\ keyPc = "idle" /\ keyPc' = "insert" /\ keyIdx' = h
        /\ UNCHANGED <<heldKey, heldPath, pathPc, pathIdx>>
    BY <1>1, <2>1 DEF KeyHandleOpenGet, path
  <2>b. OwnerInv'
    <3> USE <1>t, <2>a DEF OwnerInv, KeyHeld, PathHeld, KeyDrawn, PathDrawn
    <3>1. CASE /\ h \in FreeHandles /\ h \in 1 .. gHandleIdx - 1
               /\ FreeHandles' = FreeHandles \ {h} /\ gHandleIdx' = gHandleIdx
      BY <3>1
    <3>2. CASE /\ h = gHandleIdx /\ h \in Handles
               /\ FreeHandles' = FreeHandles /\ gHandleIdx' = gHandleIdx + 1
      <4>1. \A x \in Handles : x < gHandleIdx' <=> (x < gHandleIdx \/ x = h)
        BY <1>h, <3>2
      <4> QED
        BY <1>h, <3>2, <4>1
    <3>3. CASE /\ h = EPERS_MAXHANDLE
               /\ FreeHandles' = FreeHandles /\ gHandleIdx' = gHandleIdx
      BY <3>3
    <3> QED
      BY <2>1, <3>1, <3>2, <3>3, GetFacts
  <2>3. TreeInv'
    BY <1>1, <1>t, <2>1 DEF KeyHandleOpenGet, TreeInv, KeyHeld, PathHeld, path
  <2> QED
    BY <1>t, <2>1, <2>b, <2>3, GetFacts DEF IInv
<1>2. CASE KeyHandleOpenInsert
  <2>1. PoolInv' /\ FreeHandles' = FreeHandles /\ gHandleIdx' = gHandleIdx
    BY <1>2, <1>t DEF KeyHandleOpenInsert, PoolInv, FreeHandles, pool
  <2>2. OwnerInv'
    BY <1>2, <1>t, <2>1
    DEF KeyHandleOpenInsert, KeyCallEnds, OwnerInv, TypeOK, TreeInv, KeyHeld,
        PathHeld, KeyDrawn, PathDrawn, path
  <2>3. TreeInv'
    BY <1>2, <1>t
    DEF KeyHandleOpenInsert, KeyCallEnds, OwnerInv, TypeOK, TreeInv, KeyHeld,
        PathHeld, KeyDrawn, PathDrawn, path
  <2> QED
    BY <2>1, <2>2, <2>3 DEF IInv
<1>3. ASSUME NEW h \in Handles, KeyHandleClosePush(h) PROVE IInv'
  <2>1. KeyHeld(h) /\ h < gHandleIdx /\ h \notin FreeHandles
    BY <1>3, <1>t DEF KeyHandleClosePush, TreeInv, OwnerInv, GetKeyHandleData
  <2>2. PoolInv' /\ FreeHandles' = FreeHandles \cup {h} /\ gHandleIdx' = gHandleIdx
    BY <1>3, <1>t, <2>1, CloseFacts DEF KeyHandleClosePush, GetKeyHandleData
  <2>3. OwnerInv'
    BY <1>3, <1>t, <2>1, <2>2
    DEF KeyHandleClosePush, OwnerInv, TypeOK, KeyHeld, PathHeld, KeyDrawn,
        PathDrawn, path, GetKeyHandleData
  <2>4. TreeInv'
    BY <1>3, <1>t DEF KeyHandleClosePush, TypeOK, TreeInv, KeyHeld, PathHeld,
                      path, GetKeyHandleData
  <2> QED
    BY <2>2, <2>3, <2>4 DEF IInv
<1>4. CASE KeyHandleCloseClear
  <2>1. PoolInv' /\ FreeHandles' = FreeHandles /\ gHandleIdx' = gHandleIdx
    BY <1>4, <1>t DEF KeyHandleCloseClear, PoolInv, FreeHandles, pool
  <2>2. OwnerInv'
    BY <1>4, <1>t, <2>1
    DEF KeyHandleCloseClear, KeyCallEnds, OwnerInv, KeyHeld, PathHeld, KeyDrawn,
        PathDrawn, path
  <2>3. TreeInv'
    BY <1>4, <1>t
    DEF KeyHandleCloseClear, KeyCallEnds, TypeOK, TreeInv, KeyHeld, PathHeld, path
  <2> QED
    BY <2>1, <2>2, <2>3 DEF IInv
<1> QED
  BY <1>1, <1>2, <1>3, <1>4 DEF KeyStep

(* Every step of a call on path handles does, if the application releases  *)
(* what it was given.                                                      *)
LEMMA PathInvStep == ASSUME disturbed' = 0, IInv, PathStep, TypeOK' PROVE IInv'
<1> USE IndexFacts, KeyAssumption
<1>t. TypeOK /\ PoolInv /\ OwnerInv /\ TreeInv /\ gHandleIdx \in Nat
  BY MaxAssumption DEF IInv, TypeOK, Handles
<1>h. Handles \subseteq Nat
  BY DEF Handles
<1>1. ASSUME NEW p \in Paths, FileCreatePathGet(p) PROVE IInv'
  <2>1. PICK h \in Indices : GetPersistenceHandleIdx(h) /\ pathIdx' = h
    BY <1>1 DEF FileCreatePathGet
  <2>a. /\ pathPc = "idle" /\ pathPc' = "insert" /\ pathIdx' = h
        /\ UNCHANGED <<heldKey, heldPath, keyPc, keyIdx>>
    BY <1>1, <2>1 DEF FileCreatePathGet, key
  <2>b. OwnerInv'
    <3> USE <1>t, <2>a DEF OwnerInv, KeyHeld, PathHeld, KeyDrawn, PathDrawn
    <3>1. CASE /\ h \in FreeHandles /\ h \in 1 .. gHandleIdx - 1
               /\ FreeHandles' = FreeHandles \ {h} /\ gHandleIdx' = gHandleIdx
      BY <3>1
    <3>2. CASE /\ h = gHandleIdx /\ h \in Handles
               /\ FreeHandles' = FreeHandles /\ gHandleIdx' = gHandleIdx + 1
      <4>1. \A x \in Handles : x < gHandleIdx' <=> (x < gHandleIdx \/ x = h)
        BY <1>h, <3>2
      <4> QED
        BY <1>h, <3>2, <4>1
    <3>3. CASE /\ h = EPERS_MAXHANDLE
               /\ FreeHandles' = FreeHandles /\ gHandleIdx' = gHandleIdx
      BY <3>3
    <3> QED
      BY <2>1, <3>1, <3>2, <3>3, GetFacts
  <2>3. TreeInv'
    BY <1>1, <1>t, <2>1 DEF FileCreatePathGet, TreeInv, KeyHeld, PathHeld, key
  <2> QED
    BY <1>t, <2>1, <2>b, <2>3, GetFacts DEF IInv
<1>2. CASE FileCreatePathInsert
  <2>1. PoolInv' /\ FreeHandles' = FreeHandles /\ gHandleIdx' = gHandleIdx
    BY <1>2, <1>t DEF FileCreatePathInsert, PoolInv, FreeHandles, pool
  <2>2. OwnerInv'
    BY <1>2, <1>t, <2>1
    DEF FileCreatePathInsert, PathCallEnds, OwnerInv, TypeOK, TreeInv, KeyHeld,
        PathHeld, KeyDrawn, PathDrawn, key
  <2>3. TreeInv'
    BY <1>2, <1>t
    DEF FileCreatePathInsert, PathCallEnds, OwnerInv, TypeOK, TreeInv, KeyHeld,
        PathHeld, KeyDrawn, PathDrawn, key
  <2> QED
    BY <2>1, <2>2, <2>3 DEF IInv
<1>3. ASSUME NEW h \in Handles, FileReleasePathPush(h) PROVE IInv'
  <2>0. gOssFileHandleTree[h] # NoPath
    BY <1>3, <1>t, BoundAssumption DEF FileReleasePathPush, Disturb, TypeOK
  <2>1. PathHeld(h) /\ h < gHandleIdx /\ h \notin FreeHandles
    BY <1>3, <1>t, <2>0 DEF FileReleasePathPush, TreeInv, OwnerInv
  <2>2. PoolInv' /\ FreeHandles' = FreeHandles \cup {h} /\ gHandleIdx' = gHandleIdx
    BY <1>3, <1>t, <2>1, CloseFacts DEF FileReleasePathPush,
                                        GetOssfilePermission
  <2>3. OwnerInv'
    BY <1>3, <1>t, <2>1, <2>2
    DEF FileReleasePathPush, OwnerInv, TypeOK, KeyHeld, PathHeld, KeyDrawn,
        PathDrawn, key, GetOssfilePermission
  <2>4. TreeInv'
    BY <1>3, <1>t DEF FileReleasePathPush, TypeOK, TreeInv, KeyHeld, PathHeld,
                      key, GetOssfilePermission
  <2> QED
    BY <2>2, <2>3, <2>4 DEF IInv
<1>4. CASE FileReleasePathRemove
  <2>1. PoolInv' /\ FreeHandles' = FreeHandles /\ gHandleIdx' = gHandleIdx
    BY <1>4, <1>t DEF FileReleasePathRemove, PoolInv, FreeHandles, pool,
                      SetOssfileFilePath, RemoveOssfileHandleData
  <2>2. OwnerInv'
    BY <1>4, <1>t, <2>1
    DEF FileReleasePathRemove, PathCallEnds, OwnerInv, KeyHeld, PathHeld,
        KeyDrawn, PathDrawn, key, SetOssfileFilePath, RemoveOssfileHandleData
  <2>3. TreeInv'
    BY <1>4, <1>t
    DEF FileReleasePathRemove, PathCallEnds, TypeOK, TreeInv, KeyHeld, PathHeld,
        key, SetOssfileFilePath, RemoveOssfileHandleData
  <2> QED
    BY <2>1, <2>2, <2>3 DEF IInv
<1> QED
  BY <1>1, <1>2, <1>3, <1>4 DEF PathStep

(* The first pclInitLibrary does.                                          *)
LEMMA InitLibraryInvStep == ASSUME IInv, InitLibrary, TypeOK' PROVE IInv'
<1> USE IndexFacts
<1>1. PoolInv' /\ FreeHandles' = FreeHandles /\ gHandleIdx' = gHandleIdx
  BY DEF InitLibrary, IInv, PoolInv, FreeHandles, pool
<1>2. OwnerInv'
  BY <1>1
  DEF InitLibrary, IInv, OwnerInv, KeyHeld, PathHeld, KeyDrawn, PathDrawn, path
<1>3. TreeInv'
  BY DEF InitLibrary, IInv, TypeOK, TreeInv, KeyHeld, PathHeld, path
<1> QED
  BY <1>1, <1>2, <1>3 DEF IInv

(* The last pclDeinitLibrary starts over, whatever state the pool is in.   *)
LEMMA DeinitLibraryInvStep == ASSUME DeinitLibrary, TypeOK' PROVE IInv'
<1> USE IndexFacts
<1>1. PoolInv' /\ FreeHandles' = {} /\ gHandleIdx' = 1
  BY DEF DeinitLibrary, CloseAllPersistenceHandle, PoolInv, FreeHandles
<1>2. OwnerInv'
  BY <1>1
  DEF DeinitLibrary, OwnerInv, KeyHeld, PathHeld, KeyDrawn, PathDrawn, Handles
<1>3. TreeInv'
  BY DEF DeinitLibrary, TreeInv, KeyHeld, PathHeld
<1> QED
  BY <1>1, <1>2, <1>3 DEF IInv

(* A full shutdown of an idle pool does no harm.                           *)
LEMMA ShutdownInvStep ==
  ASSUME disturbed' = 0, IInv, ExternalShutdown, TypeOK' PROVE IInv'
<1> USE IndexFacts
<1>0. TypeOK /\ TreeInv
  BY DEF IInv
<1>1. ~ InUse
  BY <1>0, BoundAssumption DEF ExternalShutdown, Disturb, TypeOK
<1>2. PoolInv' /\ FreeHandles' = {} /\ gHandleIdx' = 1
  BY DEF ExternalShutdown, CloseAllPersistenceHandle, PoolInv, FreeHandles
<1>3. OwnerInv'
  BY <1>1, <1>2
  DEF ExternalShutdown, InUse, OwnerInv, KeyHeld, PathHeld, KeyDrawn, PathDrawn,
      Handles, key, path
<1>4. TreeInv'
  BY <1>0 DEF ExternalShutdown, TreeInv, KeyHeld, PathHeld, key, path
<1> QED
  BY <1>2, <1>3, <1>4 DEF IInv

(* What every step preserves: the invariant while nothing has disturbed    *)
(* the pool.                                                               *)
UndisturbedInv == TypeOK /\ (disturbed = 0 => IInv)

(* Every step of the pool and of its users preserves it.                   *)
LEMMA UndisturbedStep == UndisturbedInv /\ [Next]_vars => UndisturbedInv'
<1> SUFFICES ASSUME UndisturbedInv, [Next]_vars, disturbed' = 0 PROVE IInv'
  BY TypeStep DEF UndisturbedInv
<1>1. TypeOK'
  BY TypeStep DEF UndisturbedInv
<1>2. CASE DeinitLibrary
  BY <1>1, <1>2, DeinitLibraryInvStep
<1>3. CASE UNCHANGED vars
  BY <1>3
  DEF UndisturbedInv, vars, pool, key, path, IInv, TypeOK, PoolInv, OwnerInv,
      TreeInv, FreeHandles, KeyHeld, PathHeld, KeyDrawn, PathDrawn
<1>4. CASE KeyStep
  <2>1. disturbed = 0
    BY <1>4 DEF KeyStep, KeyHandleOpenGet, KeyHandleOpenInsert,
                KeyHandleClosePush, KeyHandleCloseClear
  <2> QED
    BY <1>1, <1>4, <2>1, KeyInvStep DEF UndisturbedInv
<1>5. CASE PathStep
  <2>1. disturbed = 0
    BY <1>5, BoundAssumption
    DEF PathStep, FileCreatePathGet, FileCreatePathInsert, FileReleasePathPush,
        FileReleasePathRemove, Disturb, UndisturbedInv, TypeOK
  <2> QED
    BY <1>1, <1>5, <2>1, PathInvStep DEF UndisturbedInv
<1>6. CASE ExternalShutdown
  <2>1. disturbed = 0
    BY <1>6, BoundAssumption DEF ExternalShutdown, Disturb, UndisturbedInv, TypeOK
  <2> QED
    BY <1>1, <1>6, <2>1, ShutdownInvStep DEF UndisturbedInv
<1>7. CASE InitLibrary
  <2>1. disturbed = 0
    BY <1>7 DEF InitLibrary
  <2> QED
    BY <1>1, <1>7, <2>1, InitLibraryInvStep DEF UndisturbedInv
<1> QED
  BY <1>2, <1>3, <1>4, <1>5, <1>6, <1>7 DEF Next

(* The invariant holds in every state in which the pool is undisturbed.    *)
LEMMA UndisturbedCorrect == Spec => []UndisturbedInv
<1>1. Init => UndisturbedInv
  BY IInvInit DEF UndisturbedInv, IInv
<1> QED
  BY <1>1, UndisturbedStep, PTL DEF Spec

(* No index is free, about to be handed out or held twice while the        *)
(* application holds it.                                                   *)
THEOREM OneOwnerCorrect == Spec => []OneOwner
<1>1. UndisturbedInv => OneOwner
  BY DEF UndisturbedInv, IInv, OwnerInv, OneOwner, KeyHeld, PathHeld, KeyDrawn,
         PathDrawn
<1> QED
  BY <1>1, UndisturbedCorrect, PTL

(* A key handle means its key for as long as it is held.                   *)
THEOREM HandleNamesItsKeyCorrect == Spec => []HandleNamesItsKey
<1>1. UndisturbedInv => HandleNamesItsKey
  BY DEF UndisturbedInv, IInv, TreeInv, HandleNamesItsKey, KeyHeld, GetKeyHandleData
<1> QED
  BY <1>1, UndisturbedCorrect, PTL

(* What no step loses without dropping an index, in a disturbed pool too:  *)
(* an open that has drawn an index knows what it is for.                   *)
LeakInv ==
  /\ keyPc = "insert" => keyId # NoKey
  /\ pathPc = "insert" => pathId # NoPath
  /\ ~ dropped =>
       \A h \in Handles :
         h < gHandleIdx => \/ h \in FreeHandles \/ KeyHeld(h) \/ PathHeld(h)
                           \/ KeyDrawn(h) \/ PathDrawn(h)

(* Whatever the free array holds, an index drawn from the pool is the only *)
(* one that is missing from it.                                            *)
LEMMA DrawKeeps ==
  ASSUME TypeOK, NEW h \in Indices, GetPersistenceHandleIdx(h)
  PROVE  /\ dropped' = dropped
         /\ \A x \in Handles : x < gHandleIdx' => x < gHandleIdx \/ x = h
         /\ FreeHandles \subseteq FreeHandles' \cup {h}
<1>0. gFreeHandleIdxHead \in Nat /\ gHandleIdx \in Nat /\ Handles \subseteq Nat
  BY MaxAssumption DEF TypeOK, Handles
<1>1. CASE FreeSpot
  <2>1. /\ h = gFreeHandleArray[gFreeHandleIdxHead - 1]
        /\ gFreeHandleIdxHead' = gFreeHandleIdxHead - 1
        /\ UNCHANGED <<gHandleIdx, gFreeHandleArray, dropped>>
    BY <1>1 DEF GetPersistenceHandleIdx, FreeSpot
  <2>2. FreeHandles \subseteq FreeHandles' \cup {h}
    BY <1>0, <2>1 DEF FreeHandles
  <2> QED
    BY <2>1, <2>2
<1>2. CASE ~ FreeSpot
  BY <1>0, <1>2 DEF GetPersistenceHandleIdx, FreeHandles, pool
<1> QED
  BY <1>1, <1>2

(* An index handed back is free afterwards unless it is dropped.           *)
LEMMA CloseKeeps ==
  ASSUME TypeOK, NEW h \in Handles, SetPersistenceHandleCloseIdx(h), ~ dropped'
  PROVE  /\ ~ dropped /\ gHandleIdx' = gHandleIdx
         /\ FreeHandles \cup {h} \subseteq FreeHandles'
<1>0. gFreeHandleIdxHead \in Nat /\ MaxPersHandle \in Nat
  BY MaxAssumption DEF TypeOK
<1>1. /\ gFreeHandleIdxHead < MaxPersHandle
      /\ gFreeHandleArray' = [gFreeHandleArray EXCEPT ![gFreeHandleIdxHead] = h]
      /\ gFreeHandleIdxHead' = gFreeHandleIdxHead + 1
      /\ dropped' = dropped /\ gHandleIdx' = gHandleIdx
  BY DEF SetPersistenceHandleCloseIdx
<1>2. /\ gFreeHandleArray'[gFreeHandleIdxHead] = h
      /\ \A i \in 0 .. gFreeHandleIdxHead - 1 : gFreeHandleArray'[i] = gFreeHandleArray[i]
  BY <1>0, <1>1 DEF TypeOK, Slots
<1>3. FreeHandles \cup {h} \subseteq FreeHandles'
  BY <1>0, <1>1, <1>2 DEF FreeHandles
<1> QED
  BY <1>1, <1>3

(* Every step keeps track of the indices, those of a full shutdown in the  *)
(* middle of a call included.                                              *)
LEMMA LeakStep == ASSUME TypeOK, LeakInv, [Next]_vars PROVE LeakInv'
<1> USE IndexFacts, KeyAssumption DEF LeakInv, KeyHeld, PathHeld, KeyDrawn, PathDrawn
<1>1. ASSUME NEW k \in Keys, KeyHandleOpenGet(k) PROVE LeakInv'
  <2>1. PICK h \in Indices : GetPersistenceHandleIdx(h) /\ keyIdx' = h
    BY <1>1 DEF KeyHandleOpenGet
  <2> QED
    BY <1>1, <2>1, DrawKeeps DEF KeyHandleOpenGet, path
<1>2. CASE KeyHandleOpenInsert
  BY <1>2 DEF KeyHandleOpenInsert, KeyCallEnds, TypeOK, FreeHandles, pool, path
<1>3. ASSUME NEW h \in Handles, KeyHandleClosePush(h) PROVE LeakInv'
  BY <1>3, CloseKeeps DEF KeyHandleClosePush, TypeOK, path
<1>4. CASE KeyHandleCloseClear
  BY <1>4 DEF KeyHandleCloseClear, KeyCallEnds, FreeHandles, pool, path
<1>5. ASSUME NEW p \in Paths, FileCreatePathGet(p) PROVE LeakInv'
  <2>1. PICK h \in Indices : GetPersistenceHandleIdx(h) /\ pathIdx' = h
    BY <1>5 DEF FileCreatePathGet
  <2> QED
    BY <1>5, <2>1, DrawKeeps DEF FileCreatePathGet, key
<1>6. CASE FileCreatePathInsert
  BY <1>6 DEF FileCreatePathInsert, PathCallEnds, TypeOK, FreeHandles, pool, key
<1>7. ASSUME NEW h \in Handles, FileReleasePathPush(h) PROVE LeakInv'
  BY <1>7, CloseKeeps DEF FileReleasePathPush, TypeOK, key
<1>8. CASE FileReleasePathRemove
  BY <1>8 DEF FileReleasePathRemove, PathCallEnds, FreeHandles, pool, key
<1>9. CASE ExternalShutdown
  BY <1>9 DEF ExternalShutdown, CloseAllPersistenceHandle, Handles, key, path
<1>10. CASE DeinitLibrary
  BY <1>10 DEF DeinitLibrary, CloseAllPersistenceHandle, Handles
<1>11. CASE InitLibrary
  BY <1>11 DEF InitLibrary, FreeHandles, pool, path
<1>12. CASE UNCHANGED vars
  BY <1>12 DEF vars, pool, key, path, FreeHandles
<1> QED
  BY <1>1, <1>2, <1>3, <1>4, <1>5, <1>6, <1>7, <1>8, <1>9, <1>10, <1>11, <1>12
  DEF Next, KeyStep, PathStep

(* No index is lost, however closes, shutdowns and foreign releases        *)
(* interleave, unless the free array overflows, and it does not in an      *)
(* undisturbed pool.                                                       *)
THEOREM NoLeakCorrect == Spec => []NoLeak
<1>1. Init => LeakInv
  BY DEF Init, LeakInv, Handles
<1>2. UndisturbedInv /\ LeakInv /\ [Next]_vars => LeakInv'
  BY LeakStep DEF UndisturbedInv
<1>3. UndisturbedInv /\ LeakInv => NoLeak
  <2> SUFFICES ASSUME UndisturbedInv, LeakInv PROVE NoLeak
    OBVIOUS
  <2>1. disturbed = 0 => ~ dropped
    BY DEF UndisturbedInv, IInv, PoolInv
  <2>2. \A h \in 1 .. gHandleIdx - 1 : h \in Handles /\ h < gHandleIdx
    BY MaxAssumption DEF UndisturbedInv, TypeOK, Handles
  <2> QED
    BY <2>1, <2>2 DEF LeakInv, NoLeak, KeyHeld, PathHeld, KeyDrawn, PathDrawn
<1> QED
  BY <1>1, <1>2, <1>3, UndisturbedCorrect, PTL DEF Spec

(* The free array has no duplicate and never overflows.                    *)
THEOREM FreeArrayCorrect == Spec => []FreeArrayIsASet
<1>1. UndisturbedInv => FreeArrayIsASet
  BY HeadBound, MaxAssumption
  DEF UndisturbedInv, IInv, TypeOK, Handles, PoolInv, FreeArrayIsASet
<1> QED
  BY <1>1, UndisturbedCorrect, PTL

=============================================================================

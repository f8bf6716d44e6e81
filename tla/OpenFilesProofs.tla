--------------------------- MODULE OpenFilesProofs --------------------------
(***************************************************************************)
(* The open files of an application, proved for any number of files,       *)
(* descriptors and items, and any number of closes behind its back.        *)
(***************************************************************************)
EXTENDS OpenFiles, FiniteSetTheorems, WellFoundedInduction, TLAPS

-----------------------------------------------------------------------------
(* The list                                                                *)

(* Every set of natural numbers that is not empty has a least element.     *)
LEMMA LeastElement ==
  ASSUME NEW T \in SUBSET Nat, T # {}
  PROVE  \E x \in T : \A y \in T : x <= y
<1> DEFINE R == OpToRel(<, Nat)
<1>1. \A x, y \in Nat : <<x, y>> \in R <=> x < y
  BY DEF OpToRel
<1>2. IsWellFoundedOn(R, Nat)
  BY NatLessThanWellFounded
<1>3. T \subseteq Nat
  OBVIOUS
<1> HIDE DEF R
<1>4. PICK x \in T : \A y \in T : ~ (<<y, x>> \in R)
  BY <1>2, <1>3, WFMin
<1>5. \A y \in T : ~ (y < x)
  BY <1>1, <1>3, <1>4
<1>6. \A y \in T : x <= y
  BY <1>3, <1>5
<1> QED
  BY <1>6

(* So a set that has 0 and the successor of each of its elements is Nat.   *)
LEMMA Induction ==
  ASSUME NEW S, 0 \in S, \A n \in Nat : n \in S => n + 1 \in S
  PROVE  Nat \subseteq S
<1> DEFINE T == Nat \ S
<1> SUFFICES ASSUME T # {} PROVE FALSE
  OBVIOUS
<1>1. PICK x \in T : \A y \in T : x <= y
  BY LeastElement
<1>2. x # 0 /\ x - 1 \in Nat /\ x - 1 \notin T
  BY <1>1
<1> QED
  BY <1>2

(* How many items there may be.                                            *)
N == Cardinality(Items)

(* It is a number.                                                         *)
LEMMA NType == N \in Nat
  BY FileAssumption, FS_CardinalityType DEF N

(* What follows an item x in the list: the end is followed by the end.     *)
After(x) == IF x = NULL THEN NULL ELSE heap[x].next

(* The definition of Item is a function, and it computes what it says.     *)
LEMMA ItemDef ==
  /\ Item[0] = gOpenFdList
  /\ \A k \in 1 .. N : Item[k] = After(Item[k - 1])
<1> DEFINE Unfold(f, n) == [k \in 0 .. n |-> IF k = 0 THEN gOpenFdList
                                             ELSE IF f[k - 1] = NULL THEN NULL
                                             ELSE heap[f[k - 1]].next]
           S == {n \in Nat : \E f : f = Unfold(f, n)}
<1>1. 0 \in S
  <2> DEFINE f == [k \in 0 .. 0 |-> gOpenFdList]
  <2>1. f = Unfold(f, 0)
    OBVIOUS
  <2> QED
    BY <2>1
<1>2. ASSUME NEW n \in Nat, n \in S PROVE n + 1 \in S
  <2>1. PICK f : f = Unfold(f, n)
    BY <1>2
  <2> DEFINE g == [k \in 0 .. n + 1 |-> IF k = n + 1 THEN After(f[n]) ELSE f[k]]
  <2>2. \A k \in 0 .. n : g[k] = f[k]
    OBVIOUS
  <2>3. ASSUME NEW k \in 0 .. n + 1 PROVE g[k] = Unfold(g, n + 1)[k]
    <3>1. CASE k = n + 1
      BY <2>2, <3>1 DEF After
    <3>2. CASE k # n + 1
      <4>1. k \in 0 .. n /\ g[k] = f[k] /\ (k # 0 => k - 1 \in 0 .. n /\ g[k - 1] = f[k - 1])
        BY <2>2, <3>2
      <4>2. f[k] = Unfold(f, n)[k]
        BY <2>1
      <4> QED
        BY <4>1, <4>2
    <3> QED
      BY <3>1, <3>2
  <2>4. g = Unfold(g, n + 1)
    BY <2>3
  <2> HIDE DEF g
  <2> QED
    BY <2>4
<1>3. N \in S
  BY <1>1, <1>2, NType, Induction
<1>4. \E f : f = Unfold(f, N)
  BY <1>3
<1>5. Item = Unfold(Item, N)
  BY <1>4 DEF Item, N
<1> QED
  BY <1>5, NType DEF After

(* The list leads from items to items.                                     *)
LEMMA ItemType ==
  ASSUME TypeOK PROVE \A k \in 0 .. N : Item[k] \in Items \cup {NULL}
<1> DEFINE S == {n \in Nat : n <= N => Item[n] \in Items \cup {NULL}}
<1>1. 0 \in S
  BY ItemDef DEF TypeOK
<1>2. ASSUME NEW n \in Nat, n \in S PROVE n + 1 \in S
  <2>1. CASE n + 1 <= N
    <3>1. Item[n + 1] = After(Item[n]) /\ Item[n] \in Items \cup {NULL}
      BY <1>2, <2>1, ItemDef, NType
    <3> QED
      BY <3>1 DEF After, TypeOK
  <2> QED
    BY <2>1
<1> HIDE DEF S
<1>3. Nat \subseteq S
  BY <1>1, <1>2, Induction
<1> QED
  BY <1>3, NType DEF S

(* list_item_insert keeps the list well typed.                             *)
LEMMA InsertType ==
  ASSUME TypeOK, NEW d \in Keys, list_item_insert(d)
  PROVE  /\ gOpenFdList' \in Items \cup {NULL} /\ live' \subseteq Items
         /\ heap' \in [Items -> [fd : Keys, next : Items \cup {NULL}]]
<1>1. PICK c \in Items \ live :
        /\ live' = live \cup {c}
        /\ \/ /\ gOpenFdList' = c
              /\ heap' = [heap EXCEPT ![c] = [fd |-> d, next |-> NULL]]
           \/ \E x : /\ heap' = [heap EXCEPT ![x].next = c, ![c] = [fd |-> d, next |-> NULL]]
                     /\ UNCHANGED gOpenFdList
  BY DEF list_item_insert
<1> QED
  BY <1>1 DEF TypeOK

(* So does list_item_remove, whichever item it finds.                      *)
LEMMA RemoveType ==
  ASSUME TypeOK, NEW d \in Keys, list_item_remove(d)
  PROVE  /\ gOpenFdList' \in Items \cup {NULL} /\ live' \subseteq Items
         /\ heap' \in [Items -> [fd : Keys, next : Items \cup {NULL}]]
<1>1. CASE UNCHANGED list
  BY <1>1 DEF list, TypeOK
<1>2. CASE \E c, k : /\ c \in live /\ live' = live \ {c}
                     /\ gOpenFdList' = IF k = 0 THEN heap[c].next ELSE gOpenFdList
                     /\ LET cut == IF k = 0 THEN heap
                                   ELSE [heap EXCEPT ![Item[k - 1]].next = heap[c].next]
                        IN  heap' = IF loop \in {"idle", "quit"} THEN [cut EXCEPT ![c] = Blank]
                                    ELSE cut
  <2>1. PICK c, k : /\ c \in live /\ live' = live \ {c}
                    /\ gOpenFdList' = IF k = 0 THEN heap[c].next ELSE gOpenFdList
                    /\ LET cut == IF k = 0 THEN heap
                                  ELSE [heap EXCEPT ![Item[k - 1]].next = heap[c].next]
                       IN  heap' = IF loop \in {"idle", "quit"} THEN [cut EXCEPT ![c] = Blank]
                                   ELSE cut
    BY <1>2
  <2>2. heap[c].next \in Items \cup {NULL} /\ Blank \in [fd : Keys, next : Items \cup {NULL}]
    BY <2>1 DEF TypeOK, Blank, Keys
  <2> QED
    BY <2>1, <2>2 DEF TypeOK
<1> QED
  BY <1>1, <1>2 DEF list_item_remove

-----------------------------------------------------------------------------
(* The tree                                                                *)

(* A tree that is there maps its keys to entries.                          *)
LEMMA TreeFacts ==
  ASSUME TypeOK
  PROVE  /\ Tree \subseteq Keys
         /\ \A k \in Tree : gFileHandleTree[k] \in Entries
         /\ Tree # {} => gFileHandleTree # NULL
  BY DEF TypeOK, Trees, Tree

(* Any function from keys to entries is a tree, and none of them is NULL.  *)
LEMMA IsTree ==
  ASSUME NEW K \in SUBSET Keys, NEW g \in [K -> Entries]
  PROVE  g \in Trees /\ g # NULL
  BY NullAssumption DEF Trees

(* set_file_handle_data adds or replaces one entry.                        *)
LEMMA SetFacts ==
  ASSUME TypeOK, NEW d \in Keys, NEW e \in Entries, set_file_handle_data(d, e)
  PROVE  /\ gFileHandleTree' \in Trees /\ Tree' = Tree \cup {d}
         /\ gFileHandleTree'[d] = e
         /\ \A k \in Tree \ {d} : gFileHandleTree'[k] = gFileHandleTree[k]
<1>1. gFileHandleTree' \in [Tree \cup {d} -> Entries] /\ Tree \cup {d} \in SUBSET Keys
  BY TreeFacts DEF set_file_handle_data
<1>2. gFileHandleTree' \in Trees /\ gFileHandleTree' # NULL
  BY <1>1, IsTree
<1> QED
  BY <1>1, <1>2 DEF set_file_handle_data, Tree

(* remove_file_handle_data removes one entry.                              *)
LEMMA DropFacts ==
  ASSUME TypeOK, NEW d \in Keys, remove_file_handle_data(d)
  PROVE  /\ gFileHandleTree' = NULL \/ gFileHandleTree' \in Trees
         /\ gFileHandleTree' = NULL <=> gFileHandleTree = NULL
         /\ Tree' = Tree \ {d}
         /\ \A k \in Tree \ {d} : gFileHandleTree'[k] = gFileHandleTree[k]
<1>1. CASE gFileHandleTree = NULL
  BY <1>1 DEF remove_file_handle_data, Tree
<1>2. CASE gFileHandleTree # NULL
  <2>1. gFileHandleTree' \in [Tree \ {d} -> Entries] /\ Tree \ {d} \in SUBSET Keys
    BY <1>2, TreeFacts DEF remove_file_handle_data
  <2>2. gFileHandleTree' \in Trees /\ gFileHandleTree' # NULL
    BY <2>1, IsTree
  <2> QED
    BY <1>2, <2>1, <2>2 DEF remove_file_handle_data, Tree
<1> QED
  BY <1>1, <1>2

(* What pclFileOpen enters is an entry of the tree.                        *)
LEMMA EntryType ==
  ASSUME TypeOK, NEW f \in Files
  PROVE  /\ Entry(f) \in Entries
         /\ Entry(f).of = IF kind[f] = "default" THEN NoFile ELSE f
         /\ Entry(f).backupCreated = 1 => kind[f] \in {"blacklisted", "unlisted"}
         /\ Entry(f).permission \in {"ReadWrite", "ReadOnly"}
  BY DEF Entry, Entries

(* pclFileWriteData notes in the entry that the backup is made.            *)
Mark(d) == gFileHandleTree' = [gFileHandleTree EXCEPT ![d].backupCreated = 1]

(* It changes nothing else in the tree.                                    *)
LEMMA MarkFacts ==
  ASSUME TypeOK, NEW d \in Tree, Mark(d)
  PROVE  /\ gFileHandleTree' \in Trees /\ Tree' = Tree
         /\ \A k \in Tree : /\ gFileHandleTree'[k].of = gFileHandleTree[k].of
                            /\ gFileHandleTree'[k].permission = gFileHandleTree[k].permission
                            /\ k # d => gFileHandleTree'[k] = gFileHandleTree[k]
<1>1. gFileHandleTree # NULL /\ gFileHandleTree \in [Tree -> Entries] /\ Tree \in SUBSET Keys
  BY TreeFacts DEF TypeOK, Trees, Tree
<1>2. gFileHandleTree' \in [Tree -> Entries]
  BY <1>1 DEF Mark, Entries
<1>3. gFileHandleTree' \in Trees /\ gFileHandleTree' # NULL
  BY <1>1, <1>2, IsTree
<1>4. Tree' = Tree
  BY <1>2, <1>3 DEF Tree
<1> QED
  BY <1>1, <1>3, <1>4 DEF Mark, Entries

-----------------------------------------------------------------------------
(* Types                                                                   *)

(* The initial states are well typed.                                      *)
LEMMA TypeInit == Init => TypeOK
<1> SUFFICES ASSUME Init PROVE TypeOK
  OBVIOUS
<1>1. heap \in [Items -> [fd : Keys, next : Items \cup {NULL}]]
  BY DEF Init, Blank, Keys
<1> QED
  BY <1>1 DEF Init, TypeOK

(* pclFileClose keeps the types of what it changes.                        *)
LEMMA CloseType ==
  ASSUME TypeOK, NEW d \in Keys, Close(d)
  PROVE  /\ kernel' \in [Fds -> Files \cup {Free}]
         /\ gFileHandleTree' = NULL \/ gFileHandleTree' \in Trees
         /\ gOpenFdList' \in Items \cup {NULL} /\ live' \subseteq Items
         /\ heap' \in [Items -> [fd : Keys, next : Items \cup {NULL}]]
         /\ backup' \subseteq Files /\ changed' \subseteq Files /\ shared' \subseteq Files
         /\ orphans' \subseteq Fds
<1>1. CASE UNCHANGED <<kernel, gFileHandleTree, list, disk, orphans, shared>>
  BY <1>1 DEF TypeOK, list, disk
<1>2. CASE backup' = backup \ Discarded(d) /\ remove_file_handle_data(d) /\ list_item_remove(d)
  <2>1. /\ kernel' \in [Fds -> Files \cup {Free}]
        /\ changed' \subseteq Files /\ shared' \subseteq Files /\ orphans' \subseteq Fds
    BY DEF Close, TypeOK, list, disk, Ended, Keys
  <2> QED
    BY <1>2, <2>1, DropFacts, RemoveType DEF TypeOK
<1> QED
  BY <1>1, <1>2 DEF Close

(* Taking descriptors away keeps the types of what the application has.    *)
LEMMA RevokeType ==
  ASSUME TypeOK, NEW lost \in SUBSET held, Revoke(lost)
  PROVE  held' \subseteq Fds \X Files /\ stale' \subseteq Fds
<1>1. held' = held \ lost /\ stale' \in SUBSET (stale \cup {h[1] : h \in lost})
  BY DEF Revoke
<1>2. {h[1] : h \in lost} \subseteq Fds
  BY DEF TypeOK
<1> QED
  BY <1>1, <1>2 DEF TypeOK

(* list_iterate reads tmp->next only of an item.                           *)
PlaceInv == loop = "next" => tmp # NULL

(* The callback of list_iterate leaves tmp alone.                          *)
LEMMA PlaceStep == PlaceInv /\ [Next]_vars => PlaceInv'
  BY DEF PlaceInv, Next, Step, vars, main, OpenSucceeds, OpenFails, OpenRefused, Write,
         FileClose, FileCloseStale, FileCloseFailed, PrepareShutdown, IterateSync,
         IterateClose, IterateNext, IterateEnd, DestroyItem, DestroyEnd, ShutdownDone,
         DeinitLibrary, InitLibrary, Die

(* A read of freed memory that misleads a full shutdown spoils the list    *)
(* for good, and one that misleads a partial one spoils that shutdown.     *)
LEMMA ReadFacts ==
  ASSUME TypeOK, NEW value, NEW stored, Read(value, stored)
  PROVE  /\ raced' \in {"no", "once", "lasting"}
         /\ raced' = raced \/ raced' = Spoilt
         /\ raced' = "no" => raced = "no" /\ value = stored
         /\ raced' # "lasting" => raced # "lasting" /\ (value = stored \/ mode = "partial")
  BY DEF Read, Spoilt, TypeOK

(* Every step keeps the types.                                             *)
LEMMA TypeStep == TypeOK /\ PlaceInv /\ [Next]_vars => TypeOK'
<1> SUFFICES ASSUME TypeOK, PlaceInv, [Next]_vars PROVE TypeOK'
  OBVIOUS
<1>1. CASE UNCHANGED vars
  BY <1>1 DEF TypeOK, vars, list, disk, main
<1>2. ASSUME NEW f \in Files, NEW d \in Fds, OpenSucceeds(f, d), UNCHANGED kind PROVE TypeOK'
  <2>1. gFileHandleTree' \in Trees
    BY <1>2, SetFacts, EntryType DEF OpenSucceeds, Keys
  <2>2. /\ gOpenFdList' \in Items \cup {NULL} /\ live' \subseteq Items
        /\ heap' \in [Items -> [fd : Keys, next : Items \cup {NULL}]]
    BY <1>2, InsertType DEF OpenSucceeds, TypeOK, list, Keys
  <2> QED
    BY <1>2, <2>1, <2>2 DEF OpenSucceeds, Recover, Overlap, Spoilt, TypeOK, main
<1>3. ASSUME NEW f \in Files, OpenFails(f), UNCHANGED kind PROVE TypeOK'
  <2>1. gFileHandleTree' = NULL \/ gFileHandleTree' \in Trees
    <3>1. [permission |-> "LastEntry", of |-> NoFile, backupCreated |-> 0] \in Entries
      BY DEF Entries
    <3> QED
      BY <1>3, <3>1, SetFacts, EntryType DEF OpenFails, set_file_cache_status, TypeOK, Keys
  <2>2. /\ gOpenFdList' \in Items \cup {NULL} /\ live' \subseteq Items
        /\ heap' \in [Items -> [fd : Keys, next : Items \cup {NULL}]]
    BY <1>3, InsertType DEF OpenFails, TypeOK, list, Keys
  <2> QED
    BY <1>3, <2>1, <2>2 DEF OpenFails, Overlap, Spoilt, TypeOK, main, disk
<1>4. ASSUME NEW f \in Files, OpenRefused(f), UNCHANGED kind PROVE TypeOK'
  BY <1>4 DEF OpenRefused, Recover, TypeOK, list, main
<1>5. ASSUME NEW d \in Fds, Write(d), UNCHANGED kind PROVE TypeOK'
  <2>1. /\ gFileHandleTree' = NULL \/ gFileHandleTree' \in Trees
        /\ backup' \subseteq Files
    <3>1. CASE UNCHANGED <<backup, gFileHandleTree>>
      BY <3>1 DEF TypeOK
    <3>2. CASE /\ d \in Tree /\ gFileHandleTree[d].of # NoFile /\ Mark(d)
               /\ backup' = backup \cup {gFileHandleTree[d].of}
      BY <3>2, MarkFacts, TreeFacts DEF TypeOK, Entries
    <3> QED
      BY <1>5, <3>1, <3>2 DEF Write, Mark
  <2>2. changed' \subseteq Files
    BY <1>5 DEF Write, TypeOK
  <2> QED
    BY <1>5, <2>1, <2>2 DEF Write, TypeOK, list, main
<1>6. ASSUME NEW h \in held, FileClose(h), UNCHANGED kind PROVE TypeOK'
  <2>1. h[1] \in Keys /\ Close(h[1])
    BY <1>6 DEF FileClose, TypeOK, Keys
  <2> QED
    BY <1>6, <2>1, CloseType DEF FileClose, TypeOK
<1>7. ASSUME NEW d \in Fds, FileCloseStale(d), UNCHANGED kind PROVE TypeOK'
  <2>1. d \in Keys /\ Close(d)
    BY <1>7 DEF FileCloseStale, Keys
  <2> QED
    BY <1>7, <2>1, CloseType DEF FileCloseStale, TypeOK
<1>8. CASE FileCloseFailed /\ UNCHANGED kind
  <2>1. Failed \in Keys /\ Close(Failed)
    BY <1>8 DEF FileCloseFailed, Keys
  <2> QED
    BY <1>8, <2>1, CloseType DEF FileCloseFailed, TypeOK, main
<1>9. ASSUME NEW m \in {"partial", "full", "deinit"}, PrepareShutdown(m), UNCHANGED kind
      PROVE  TypeOK'
  BY <1>9 DEF PrepareShutdown, TrackedFds, TypeOK, list, disk
<1>10. CASE IterateSync /\ UNCHANGED kind
  <2>1. raced' \in {"no", "once", "lasting"} /\ pending' \subseteq Fds
    BY <1>10, ReadFacts DEF IterateSync, TypeOK
  <2> QED
    BY <1>10, <2>1 DEF IterateSync, TypeOK, list, disk
<1>11. CASE IterateClose /\ UNCHANGED kind
  <2>1. PICK d \in Keys :
          /\ Read(d, heap[tmp].fd) /\ Close(d) /\ Revoke(Holders(d))
          /\ pending' = IF get_file_permission(d) = "none" THEN pending ELSE pending \ {d}
    BY <1>11 DEF IterateClose
  <2>2. held' \subseteq Fds \X Files /\ stale' \subseteq Fds /\ pending' \subseteq Fds
    <3>1. Holders(d) \in SUBSET held
      BY DEF Holders
    <3> QED
      BY <2>1, <3>1, RevokeType DEF TypeOK
  <2>3. raced' \in {"no", "once", "lasting"}
    BY <2>1, ReadFacts
  <2>4. /\ loop' = "next" /\ UNCHANGED <<up, mode, tmp, kind>>
    BY <1>11 DEF IterateClose
  <2> QED
    BY <2>1, <2>2, <2>3, <2>4, CloseType DEF TypeOK
<1>12. CASE (IterateNext \/ IterateEnd) /\ UNCHANGED kind
  <2>1. tmp' \in Items \cup {NULL} /\ raced' \in {"no", "once", "lasting"}
    BY <1>12, ReadFacts DEF IterateNext, IterateEnd, PlaceInv, TypeOK
  <2> QED
    BY <1>12, <2>1 DEF IterateNext, IterateEnd, TypeOK, list, disk
<1>13. CASE (DestroyItem \/ DestroyEnd) /\ UNCHANGED kind
  BY <1>13 DEF DestroyItem, DestroyEnd, TypeOK, disk
<1>14. CASE ShutdownDone /\ UNCHANGED kind
  <2>1. live' \subseteq Items
    BY <1>14, ItemType DEF ShutdownDone, Positions, N
  <2>2. heap' \in [Items -> [fd : Keys, next : Items \cup {NULL}]]
    BY <1>14 DEF ShutdownDone, TypeOK, Blank, Keys
  <2> QED
    BY <1>14, <2>1, <2>2 DEF ShutdownDone, TypeOK, disk
<1>15. CASE DeinitLibrary /\ UNCHANGED kind
  <2>1. held' \subseteq Fds \X Files /\ stale' \subseteq Fds
    BY <1>15, RevokeType DEF DeinitLibrary
  <2> QED
    BY <1>15, <2>1 DEF DeinitLibrary, TypeOK, list, disk
<1>16. CASE InitLibrary /\ UNCHANGED kind
  BY <1>16 DEF InitLibrary, TypeOK, list, disk, main
<1>17. CASE Die /\ UNCHANGED kind
  BY <1>17 DEF Die, TypeOK, Blank, Keys
<1> QED
  BY <1>1, <1>2, <1>3, <1>4, <1>5, <1>6, <1>7, <1>8, <1>9, <1>10, <1>11, <1>12,
     <1>13, <1>14, <1>15, <1>16, <1>17 DEF Next, Step

-----------------------------------------------------------------------------
(* The inductive invariant                                                 *)

IsOpen(f) == \E d \in Fds : kernel[d] = f

(* What DescriptorsAgree needs: a descriptor that pclDeinitLibrary left    *)
(* open is open until somebody closes it, so no open gets it.              *)
AgreeInv == /\ TreeNamesKernel /\ HeldNamesItsFile
            /\ \A d \in orphans : kernel[d] # Free

(* Whoever is not alone with a file is on record: two descriptors of it,   *)
(* one that has no entry any more, one next to the entry of an open that   *)
(* failed, which removes the backup of the file when -1 is closed.         *)
SharedInv ==
  /\ \A d, e \in Fds : (d # e /\ kernel[d] = kernel[e] /\ kernel[d] # Free)
                          => kernel[d] \in shared
  /\ \A d \in orphans : kernel[d] \in shared
  /\ \A f \in Files : (Failed \in Tree /\ gFileHandleTree[Failed].of = f)
                          => IF IsOpen(f) THEN f \in shared ELSE f \notin changed

(* A file in whose entry the backup is noted has one, and a file that is   *)
(* changed and closed, by a crash, has one too.                            *)
BackupInv ==
  /\ \A d \in Tree \cap Fds :
       /\ gFileHandleTree[d].of = NoFile => kind[kernel[d]] = "default"
       /\ (gFileHandleTree[d].backupCreated = 1 /\ BackupDue(kernel[d]))
             => kernel[d] \in backup \cup shared
  /\ \A f \in changed : BackupDue(f) /\ (IsOpen(f) \/ f \in backup)
  /\ ChangedHasBackup

IInv == TypeOK /\ PlaceInv /\ AgreeInv /\ SharedInv /\ BackupInv

(* What pclFileClose does: nothing, or it closes d and forgets its entry.  *)
LEMMA CloseFacts ==
  ASSUME TypeOK, NEW d \in Keys, Close(d)
  PROVE  \/ /\ UNCHANGED <<kernel, gFileHandleTree, backup, changed, orphans, shared>>
            /\ Tree' = Tree /\ d \notin Tree /\ get_file_permission(d) = "none"
         \/ /\ get_file_permission(d) # "none"
            /\ backup' = backup \ Discarded(d)
            /\ Tree' = Tree \ {d}
            /\ \A k \in Tree \ {d} : gFileHandleTree'[k] = gFileHandleTree[k]
            /\ \/ d = Failed /\ UNCHANGED <<kernel, changed, orphans, shared>>
               \/ /\ d \in Fds
                  /\ kernel' = [kernel EXCEPT ![d] = Free]
                  /\ changed' = changed \ Ended(d)
                  /\ shared' = shared \ Ended(d)
                  /\ orphans' = orphans \ {d}
<1>1. CASE get_file_permission(d) = "none"
  <2>1. d \notin Tree
    BY <1>1, TreeFacts DEF get_file_permission, Entries
  <2> QED
    BY <1>1, <2>1 DEF Close, Tree, disk
<1>2. CASE get_file_permission(d) # "none"
  <2>1. remove_file_handle_data(d)
    BY <1>2 DEF Close
  <2> QED
    BY <1>2, <2>1, DropFacts DEF Close, Keys
<1> QED
  BY <1>1, <1>2

(* Which backup it takes away: that of the file d is open on, or of the    *)
(* file whose open failed.                                                 *)
LEMMA DiscardFacts ==
  ASSUME TypeOK, AgreeInv, NEW d \in Keys, NEW f \in Files, f \in Discarded(d)
  PROVE  d \in Tree /\ gFileHandleTree[d].of = f /\ (d \in Fds => kernel[d] = f)
<1>1. d \in Tree /\ gFileHandleTree[d].of = f
  BY DEF Discarded, get_file_permission
<1> QED
  BY <1>1, FileAssumption DEF AgreeInv, TreeNamesKernel

(* What a pclFileOpen that succeeds does to the tree.                      *)
LEMMA OpenFacts ==
  ASSUME TypeOK, NEW f \in Files, NEW d \in Fds, OpenSucceeds(f, d)
  PROVE  /\ Tree' = Tree \cup {d} /\ gFileHandleTree'[d] = Entry(f)
         /\ \A k \in Tree \ {d} : gFileHandleTree'[k] = gFileHandleTree[k]
  BY SetFacts, EntryType DEF OpenSucceeds, Keys

(* One that fails touches the entry of -1 alone.                           *)
LEMMA FailFacts ==
  ASSUME TypeOK, NEW f \in Files, OpenFails(f)
  PROVE  /\ Tree' \ {Failed} = Tree \ {Failed}
         /\ \A k \in Tree \ {Failed} : gFileHandleTree'[k] = gFileHandleTree[k]
         /\ Failed \in Tree' =>
              \/ Failed \in Tree /\ gFileHandleTree'[Failed] = gFileHandleTree[Failed]
              \/ gFileHandleTree'[Failed].of = NoFile
              \/ gFileHandleTree'[Failed].of = f /\ kind[f] # "unlisted"
<1> DEFINE blank == [permission |-> "LastEntry", of |-> NoFile, backupCreated |-> 0]
<1>1. blank \in Entries /\ Failed \in Keys
  BY DEF Entries, Keys
<1>2. CASE UNCHANGED gFileHandleTree
  BY <1>2 DEF Tree
<1>3. CASE set_file_handle_data(Failed, blank)
  BY <1>1, <1>3, SetFacts
<1>4. CASE kind[f] # "unlisted" /\ set_file_handle_data(Failed, Entry(f))
  BY <1>1, <1>4, SetFacts, EntryType
<1> QED
  BY <1>2, <1>3, <1>4 DEF OpenFails, set_file_cache_status

(* pclFileWriteData makes the backup of the file in the entry, unless the  *)
(* entry says it is made or names no file.                                 *)
LEMMA WriteFacts ==
  ASSUME NEW d \in Fds, Write(d)
  PROVE  \/ /\ d \in Tree /\ gFileHandleTree[d].of # NoFile /\ Mark(d)
            /\ backup' = backup \cup {gFileHandleTree[d].of}
         \/ /\ d \in Tree => \/ gFileHandleTree[d].backupCreated # 0
                             \/ gFileHandleTree[d].of = NoFile
            /\ UNCHANGED <<backup, gFileHandleTree>>
  BY DEF Write, Mark

(* The tree keeps its keys, and every entry its paths.                     *)
LEMMA WriteTree ==
  ASSUME TypeOK, NEW d \in Fds, Write(d)
  PROVE  /\ Tree' = Tree
         /\ \A k \in Tree : /\ gFileHandleTree'[k].of = gFileHandleTree[k].of
                            /\ k # d => gFileHandleTree'[k] = gFileHandleTree[k]
<1>1. CASE d \in Tree /\ Mark(d)
  BY <1>1, MarkFacts
<1>2. CASE UNCHANGED gFileHandleTree
  BY <1>2 DEF Tree
<1> QED
  BY <1>1, <1>2, WriteFacts

(* After a close the tree still names what the kernel has, and the other   *)
(* holders are not affected.                                               *)
LEMMA CloseAgrees ==
  ASSUME TypeOK, AgreeInv, NEW d \in Keys, Close(d), held' \subseteq held,
         \A h \in held : (h[1] = d /\ get_file_permission(d) # "none") => h \notin held'
  PROVE  AgreeInv'
<1>t. /\ kernel \in [Fds -> Files \cup {Free}] /\ held \subseteq Fds \X Files
      /\ Failed \notin Fds /\ orphans \subseteq Fds
  BY FileAssumption DEF TypeOK
<1>1. TreeNamesKernel'
  BY <1>t, CloseFacts DEF AgreeInv, TreeNamesKernel
<1>2. HeldNamesItsFile'
  <2> SUFFICES ASSUME NEW h \in held'
               PROVE  /\ kernel'[h[1]] = h[2] /\ h[1] \in Tree'
                      /\ gFileHandleTree'[h[1]].of \in {h[2], NoFile}
    BY DEF HeldNamesItsFile
  <2>1. /\ h \in held /\ h[1] \in Fds /\ kernel[h[1]] = h[2] /\ h[1] \in Tree
        /\ gFileHandleTree[h[1]].of \in {h[2], NoFile}
    BY <1>t DEF AgreeInv, HeldNamesItsFile
  <2> QED
    BY <1>t, <2>1, CloseFacts
<1>3. \A e \in orphans' : kernel'[e] # Free
  BY <1>t, CloseFacts DEF AgreeInv
<1> QED
  BY <1>1, <1>2, <1>3 DEF AgreeInv

(* Every step keeps the descriptors of the application, of the tree and of *)
(* the kernel in agreement.                                                *)
LEMMA AgreeStep == TypeOK /\ PlaceInv /\ AgreeInv /\ [Next]_vars => AgreeInv'
<1> SUFFICES ASSUME TypeOK, PlaceInv, AgreeInv, [Next]_vars PROVE AgreeInv'
  OBVIOUS
<1>t. /\ kernel \in [Fds -> Files \cup {Free}] /\ held \subseteq Fds \X Files
      /\ Failed \notin Fds /\ orphans \subseteq Fds /\ Free \notin Files
  BY FileAssumption DEF TypeOK
<1>1. CASE UNCHANGED <<kernel, gFileHandleTree, held, orphans>>
  BY <1>1 DEF AgreeInv, TreeNamesKernel, HeldNamesItsFile, Tree
<1>2. ASSUME NEW f \in Files, NEW d \in Fds, OpenSucceeds(f, d) PROVE AgreeInv'
  <2>1. /\ kernel[d] = Free /\ kernel' = [kernel EXCEPT ![d] = f]
        /\ held' = held \cup {<<d, f>>} /\ UNCHANGED orphans
    BY <1>2 DEF OpenSucceeds
  <2> QED
    BY <1>2, <1>t, <2>1, OpenFacts, EntryType DEF AgreeInv, TreeNamesKernel, HeldNamesItsFile
<1>3. ASSUME NEW f \in Files, OpenFails(f) PROVE AgreeInv'
  <2>1. UNCHANGED <<kernel, held, orphans>>
    BY <1>3 DEF OpenFails
  <2> QED
    BY <1>3, <1>t, <2>1, FailFacts DEF AgreeInv, TreeNamesKernel, HeldNamesItsFile
<1>4. ASSUME NEW d \in Fds, Write(d) PROVE AgreeInv'
  <2>1. UNCHANGED <<kernel, held, orphans>>
    BY <1>4 DEF Write
  <2>2. Tree' = Tree /\ \A k \in Tree : gFileHandleTree'[k].of = gFileHandleTree[k].of
    BY <1>4, WriteTree
  <2> QED
    BY <1>t, <2>1, <2>2 DEF AgreeInv, TreeNamesKernel, HeldNamesItsFile
<1>5. ASSUME NEW h \in held, FileClose(h) PROVE AgreeInv'
  <2>1. h[1] \in Keys /\ Close(h[1]) /\ held' = held \ {h}
    BY <1>5, <1>t DEF FileClose, Keys
  <2>2. \A g \in held : g[1] = h[1] => g = h
    BY <1>t DEF AgreeInv, HeldNamesItsFile
  <2> QED
    BY <2>1, <2>2, CloseAgrees
<1>6. ASSUME NEW d \in Fds, FileCloseStale(d) PROVE AgreeInv'
  <2>1. d \in Keys /\ Close(d) /\ held' = held \ Holders(d)
    BY <1>6 DEF FileCloseStale, Keys
  <2> QED
    BY <2>1, CloseAgrees DEF Holders
<1>7. CASE FileCloseFailed
  <2>1. Failed \in Keys /\ Close(Failed) /\ held' = held
    BY <1>7 DEF FileCloseFailed, Keys
  <2> QED
    BY <1>t, <2>1, CloseAgrees
<1>8. CASE IterateClose
  <2>1. PICK d \in Keys : Close(d) /\ held' = held \ Holders(d)
    BY <1>8 DEF IterateClose, Revoke
  <2> QED
    BY <2>1, CloseAgrees DEF Holders
<1>9. CASE DeinitLibrary
  BY <1>9 DEF DeinitLibrary, Revoke, AgreeInv, TreeNamesKernel, HeldNamesItsFile, Tree
<1>10. CASE Die
  BY <1>10 DEF Die, AgreeInv, TreeNamesKernel, HeldNamesItsFile, Tree
<1> QED
  BY <1>1, <1>2, <1>3, <1>4, <1>5, <1>6, <1>7, <1>8, <1>9, <1>10
  DEF Next, Step, vars, OpenRefused, PrepareShutdown, IterateSync, IterateNext,
      IterateEnd, DestroyItem, DestroyEnd, ShutdownDone, InitLibrary

(* Everybody who is not alone with a file stays on record.                 *)
LEMMA SharedStep == IInv /\ [Next]_vars => SharedInv'
<1> SUFFICES ASSUME IInv, [Next]_vars PROVE SharedInv'
  OBVIOUS
<1>t. /\ kernel \in [Fds -> Files \cup {Free}] /\ orphans \subseteq Fds
      /\ Failed \notin Fds /\ Free \notin Files /\ NoFile \notin Files
  BY FileAssumption DEF IInv, TypeOK
<1>f. TypeOK /\ PlaceInv /\ AgreeInv /\ SharedInv /\ BackupInv
  BY DEF IInv
<1> USE DEF SharedInv, IsOpen
<1>1. ASSUME UNCHANGED <<kernel, gFileHandleTree, orphans>>,
             shared \subseteq shared', changed' \subseteq changed
      PROVE  SharedInv'
  BY <1>1, <1>f DEF Tree
<1>2. ASSUME NEW f \in Files, NEW d \in Fds, OpenSucceeds(f, d) PROVE SharedInv'
  <2>1. /\ kernel' = [kernel EXCEPT ![d] = f] /\ UNCHANGED orphans
        /\ shared \subseteq shared' /\ (InUse(f) => f \in shared')
        /\ changed' \subseteq changed /\ kernel[d] = Free
    BY <1>2 DEF OpenSucceeds, Recover
  <2>2. Failed \in Tree' => Failed \in Tree /\ gFileHandleTree'[Failed] = gFileHandleTree[Failed]
    BY <1>2, <1>f, <1>t, OpenFacts
  <2>3. \A g \in Files : IsOpen(g)' => IsOpen(g) \/ g = f
    BY <1>t, <2>1
  <2>4. \A e, u \in Fds : (e # u /\ kernel'[e] = kernel'[u] /\ kernel'[e] # Free)
                            => kernel'[e] \in shared'
    BY <1>t, <1>f, <2>1 DEF InUse
  <2>5. \A e \in orphans' : kernel'[e] \in shared'
    BY <1>t, <1>f, <2>1 DEF AgreeInv
  <2>6. \A g \in Files : (Failed \in Tree' /\ gFileHandleTree'[Failed].of = g)
                            => IF IsOpen(g)' THEN g \in shared' ELSE g \notin changed'
    <3> SUFFICES ASSUME NEW g \in Files, Failed \in Tree', gFileHandleTree'[Failed].of = g
                 PROVE  IF IsOpen(g)' THEN g \in shared' ELSE g \notin changed'
      OBVIOUS
    <3>1. Failed \in Tree /\ gFileHandleTree[Failed].of = g
      BY <2>2
    <3>2. g = f => g \in shared' /\ IsOpen(g)'
      BY <1>t, <2>1, <3>1 DEF InUse
    <3>3. g # f => (IsOpen(g)' <=> IsOpen(g))
      BY <1>t, <2>1
    <3> QED
      BY <1>f, <2>1, <3>1, <3>2, <3>3
  <2> QED
    BY <2>4, <2>5, <2>6
<1>3. ASSUME NEW f \in Files, OpenFails(f) PROVE SharedInv'
  <2>1. /\ UNCHANGED <<kernel, orphans, changed>>
        /\ shared \subseteq shared'
        /\ (InUse(f) /\ kind[f] # "unlisted") => f \in shared'
        /\ ~ (BackupDue(f) /\ f \in backup)
    BY <1>3 DEF OpenFails, disk
  <2>2. IF IsOpen(f) THEN InUse(f) ELSE f \notin changed
    BY <1>f, <2>1 DEF InUse, BackupInv
  <2>3. \A g \in Files : (Failed \in Tree' /\ gFileHandleTree'[Failed].of = g)
                            => IF IsOpen(g) THEN g \in shared' ELSE g \notin changed
    <3> SUFFICES ASSUME NEW g \in Files, Failed \in Tree', gFileHandleTree'[Failed].of = g
                 PROVE  IF IsOpen(g) THEN g \in shared' ELSE g \notin changed
      OBVIOUS
    <3>1. CASE Failed \in Tree /\ gFileHandleTree[Failed].of = g
      BY <1>f, <2>1, <3>1
    <3>2. CASE g = f /\ kind[f] # "unlisted"
      BY <2>1, <2>2, <3>2
    <3> QED
      BY <1>3, <1>t, <1>f, <3>1, <3>2, FailFacts
  <2>4. \A e, u \in Fds : (e # u /\ kernel'[e] = kernel'[u] /\ kernel'[e] # Free)
                            => kernel'[e] \in shared'
    BY <1>f, <2>1
  <2>5. \A e \in orphans' : kernel'[e] \in shared'
    BY <1>f, <2>1
  <2>6. \A g \in Files : IsOpen(g)' <=> IsOpen(g)
    BY <2>1
  <2> QED
    BY <2>1, <2>3, <2>4, <2>5, <2>6
<1>4. ASSUME NEW d \in Fds, Write(d) PROVE SharedInv'
  <2>1. /\ UNCHANGED <<kernel, orphans, shared>> /\ kernel[d] # Free
        /\ changed' \subseteq changed \cup {kernel[d]}
    BY <1>4 DEF Write
  <2>2. Tree' = Tree /\ \A k \in Tree : gFileHandleTree'[k].of = gFileHandleTree[k].of
    BY <1>4, <1>f, WriteTree
  <2>3. \A g \in Files : IsOpen(g)' <=> IsOpen(g)
    BY <2>1
  <2>4. \A g \in Files : g \in changed' => g \in changed \/ IsOpen(g)
    BY <1>4, <2>1
  <2> QED
    BY <1>f, <2>1, <2>2, <2>3, <2>4
<1>5. ASSUME NEW d \in Keys, Close(d) PROVE SharedInv'
  <2>1. CASE d \in Tree \/ get_file_permission(d) # "none"
    <3>1. CASE d = Failed
      BY <1>5, <1>t, <1>f, <3>1, CloseFacts
    <3>2. CASE d \in Fds
      <4>1. /\ kernel' = [kernel EXCEPT ![d] = Free] /\ orphans' = orphans \ {d}
            /\ shared' = shared \ Ended(d) /\ changed' = changed \ Ended(d)
            /\ Tree' = Tree \ {d}
            /\ \A k \in Tree \ {d} : gFileHandleTree'[k] = gFileHandleTree[k]
        BY <1>5, <1>t, <1>f, <2>1, <3>2, CloseFacts
      <4>2. \A e \in Fds \ {d} : kernel'[e] = kernel[e] /\ kernel[e] \notin Ended(d)
        BY <1>t, <4>1 DEF Ended
      <4>3. \A g \in Files : IsOpen(g) => IsOpen(g)' \/ g \in Ended(d)
        BY <1>t, <4>2 DEF Ended
      <4>4. kernel'[d] = Free
        BY <1>t, <3>2, <4>1
      <4>5. \A e, u \in Fds : (e # u /\ kernel'[e] = kernel'[u] /\ kernel'[e] # Free)
                                => kernel'[e] \in shared'
        BY <1>f, <4>1, <4>2, <4>4
      <4>6. \A e \in orphans' : kernel'[e] \in shared'
        BY <1>t, <1>f, <4>1, <4>2
      <4>7. \A g \in Files : (Failed \in Tree' /\ gFileHandleTree'[Failed].of = g)
                                => IF IsOpen(g)' THEN g \in shared' ELSE g \notin changed'
        BY <1>t, <1>f, <4>1, <4>2, <4>3, <4>4
      <4> QED
        BY <4>5, <4>6, <4>7
    <3> QED
      BY <3>1, <3>2 DEF Keys
  <2>2. CASE ~ (d \in Tree \/ get_file_permission(d) # "none")
    BY <1>1, <1>5, <1>f, <2>2, CloseFacts
  <2> QED
    BY <2>1, <2>2
<1>6. CASE DeinitLibrary
  BY <1>6, <1>t DEF DeinitLibrary, Tree
<1>7. CASE Die
  BY <1>7 DEF Die, Tree
<1>8. ASSUME NEW f \in Files, OpenRefused(f) PROVE SharedInv'
  BY <1>1, <1>8 DEF OpenRefused, Recover
<1>9. ASSUME (\E h \in held : FileClose(h)) \/ (\E d \in Fds : FileCloseStale(d))
               \/ FileCloseFailed \/ IterateClose
      PROVE  SharedInv'
  <2>1. \E d \in Keys : Close(d)
    BY <1>9, <1>f DEF FileClose, FileCloseStale, FileCloseFailed, IterateClose, TypeOK, Keys
  <2> QED
    BY <1>5, <2>1
<1> HIDE DEF SharedInv
<1> QED
  BY <1>1, <1>2, <1>3, <1>4, <1>6, <1>7, <1>8, <1>9
  DEF Next, Step, vars, disk, PrepareShutdown, IterateSync, IterateNext,
      IterateEnd, DestroyItem, DestroyEnd, ShutdownDone, InitLibrary

(* Every step keeps a backup for what it may have to be recovered from.    *)
LEMMA BackupStep == IInv /\ [Next]_vars => BackupInv'
<1> SUFFICES ASSUME IInv, [Next]_vars PROVE BackupInv'
  OBVIOUS
<1>t. /\ kernel \in [Fds -> Files \cup {Free}] /\ orphans \subseteq Fds
      /\ changed \subseteq Files
      /\ Failed \notin Fds /\ Free \notin Files /\ NoFile \notin Files
  BY FileAssumption DEF IInv, TypeOK
<1>f. TypeOK /\ PlaceInv /\ AgreeInv /\ SharedInv /\ BackupInv
  BY DEF IInv
<1>k. UNCHANGED kind
  BY DEF Next, vars
<1> USE <1>k DEF BackupInv, ChangedHasBackup, BackupDue
<1>1. ASSUME UNCHANGED <<kernel, gFileHandleTree, backup>>,
             shared \subseteq shared', changed' \subseteq changed
      PROVE  BackupInv'
  <2>1. Tree' = Tree /\ \A f : IsOpen(f)' <=> IsOpen(f)
    BY <1>1 DEF Tree, IsOpen
  <2> QED
    BY <1>1, <1>f, <2>1
<1>2. ASSUME NEW f \in Files, NEW d \in Fds, OpenSucceeds(f, d) PROVE BackupInv'
  <2>1. /\ kernel' = [kernel EXCEPT ![d] = f] /\ kernel[d] = Free
        /\ shared \subseteq shared' /\ changed' \subseteq changed /\ UNCHANGED backup
    BY <1>2 DEF OpenSucceeds, Recover
  <2>2. \A g \in Files : IsOpen(g) => IsOpen(g)'
    BY <1>t, <2>1 DEF IsOpen
  <2>3. d \notin Tree
    BY <1>f, <2>1 DEF AgreeInv, TreeNamesKernel
  <2>4. /\ gFileHandleTree'[d].of = NoFile => kind[f] = "default"
        /\ gFileHandleTree'[d].backupCreated = 1 => kind[f] # "backup"
    BY <1>2, <1>t, <1>f, OpenFacts, EntryType
  <2>5. \A e \in Tree' \cap Fds :
          /\ gFileHandleTree'[e].of = NoFile => kind[kernel'[e]] = "default"
          /\ (gFileHandleTree'[e].backupCreated = 1 /\ kind[kernel'[e]] = "backup")
                => kernel'[e] \in backup \cup shared'
    <3> SUFFICES ASSUME NEW e \in Tree' \cap Fds
                 PROVE  /\ gFileHandleTree'[e].of = NoFile => kind[kernel'[e]] = "default"
                        /\ (gFileHandleTree'[e].backupCreated = 1 /\ kind[kernel'[e]] = "backup")
                              => kernel'[e] \in backup \cup shared'
      OBVIOUS
    <3>1. CASE e = d
      BY <1>t, <2>1, <2>4, <3>1
    <3>2. CASE e # d
      <4>1. e \in Tree /\ gFileHandleTree'[e] = gFileHandleTree[e] /\ kernel'[e] = kernel[e]
        BY <1>2, <1>t, <1>f, <2>1, <3>2, OpenFacts
      <4> QED
        BY <1>f, <2>1, <4>1
    <3> QED
      BY <3>1, <3>2
  <2>6. \A g \in changed' : kind[g] = "backup" /\ (IsOpen(g)' \/ g \in backup)
    BY <1>t, <1>f, <2>1, <2>2
  <2> QED
    BY <1>f, <2>1, <2>5, <2>6
<1>3. ASSUME NEW f \in Files, OpenFails(f) PROVE BackupInv'
  <2>1. UNCHANGED <<kernel, backup, changed>> /\ shared \subseteq shared'
    BY <1>3 DEF OpenFails, disk
  <2>2. \A g : IsOpen(g)' <=> IsOpen(g)
    BY <2>1 DEF IsOpen
  <2>3. \A e \in Tree' \cap Fds : e \in Tree /\ gFileHandleTree'[e] = gFileHandleTree[e]
    BY <1>3, <1>t, <1>f, FailFacts
  <2> QED
    BY <1>f, <2>1, <2>2, <2>3
<1>4. ASSUME NEW d \in Fds, Write(d) PROVE BackupInv'
  <2>1. /\ UNCHANGED <<kernel, shared, orphans>> /\ kernel[d] # Free
        /\ changed' = IF kind[kernel[d]] = "backup" THEN changed \cup {kernel[d]} ELSE changed
        /\ get_file_permission(d) # "none"
    BY <1>4 DEF Write
  <2>2. \A g : IsOpen(g)' <=> IsOpen(g)
    BY <2>1 DEF IsOpen
  <2>3. IsOpen(kernel[d]) /\ backup \subseteq backup'
    BY <1>4, WriteFacts DEF IsOpen
  <2>4. CASE d \in Tree
    <3>1. gFileHandleTree[d].of \in {kernel[d], NoFile}
      BY <1>f, <2>4 DEF AgreeInv, TreeNamesKernel
    <3>2. kind[kernel[d]] = "backup" => kernel[d] \in backup' \cup shared
      <4>1. gFileHandleTree[d].backupCreated \in {0, 1}
        BY <1>f, <2>4, TreeFacts DEF Entries
      <4> QED
        BY <1>4, <1>f, <2>4, <3>1, <4>1, WriteFacts
    <3>3. \A e \in Tree' \cap Fds :
            /\ gFileHandleTree'[e].of = NoFile => kind[kernel[e]] = "default"
            /\ (gFileHandleTree'[e].backupCreated = 1 /\ kind[kernel[e]] = "backup")
                  => kernel[e] \in backup' \cup shared
      BY <1>4, <1>f, <2>3, <3>2, WriteTree
    <3> QED
      BY <1>f, <2>1, <2>2, <2>3, <3>2, <3>3
  <2>5. CASE d \notin Tree
    <3>1. kernel[d] \in shared
      BY <1>f, <2>1, <2>5 DEF AgreeInv, TreeNamesKernel, SharedInv
    <3>2. UNCHANGED <<backup, gFileHandleTree>> /\ Tree' = Tree
      BY <1>4, <1>f, <2>5, WriteFacts, WriteTree
    <3> QED
      BY <1>f, <2>1, <2>2, <2>3, <3>1, <3>2
  <2> QED
    BY <2>4, <2>5
<1>5. ASSUME NEW d \in Keys, Close(d) PROVE BackupInv'
  <2>1. CASE get_file_permission(d) = "none"
    BY <1>1, <1>5, <1>f, <2>1, CloseFacts
  <2>2. CASE get_file_permission(d) # "none" /\ d = Failed
    <3>1. /\ backup' = backup \ Discarded(Failed) /\ UNCHANGED <<kernel, changed, shared>>
          /\ Tree' = Tree \ {Failed}
          /\ \A e \in Tree' : gFileHandleTree'[e] = gFileHandleTree[e]
      BY <1>5, <1>t, <1>f, <2>2, CloseFacts
    <3>2. \A g \in Files : (IsOpen(g)' <=> IsOpen(g))
      BY <3>1 DEF IsOpen
    <3>3. \A g \in Files : g \in Discarded(Failed) =>
             IF IsOpen(g) THEN g \in shared ELSE g \notin changed
      BY <1>5, <1>f, <2>2, DiscardFacts DEF SharedInv
    <3>4. \A e \in Tree' \cap Fds : kernel[e] \in Files /\ IsOpen(kernel[e])
      BY <1>t, <1>f, <3>1 DEF AgreeInv, TreeNamesKernel, IsOpen
    <3> QED
      BY <1>f, <1>t, <3>1, <3>2, <3>3, <3>4
  <2>3. CASE get_file_permission(d) # "none" /\ d \in Fds
    <3>1. /\ backup' = backup \ Discarded(d) /\ kernel' = [kernel EXCEPT ![d] = Free]
          /\ shared' = shared \ Ended(d) /\ changed' = changed \ Ended(d)
          /\ Tree' = Tree \ {d}
          /\ \A e \in Tree' : gFileHandleTree'[e] = gFileHandleTree[e]
      BY <1>5, <1>t, <1>f, <2>3, CloseFacts
    <3>2. \A e \in Fds \ {d} : kernel'[e] = kernel[e] /\ kernel[e] \notin Ended(d)
      BY <1>t, <3>1 DEF Ended
    <3>3. \A g \in Files : IsOpen(g) => IsOpen(g)' \/ g \in Ended(d)
      BY <1>t, <3>2 DEF Ended, IsOpen
    <3>4. \A g \in Files : g \in Discarded(d) => kernel[d] = g
      BY <1>5, <1>f, <2>3, DiscardFacts
    <3>5. \A e \in Fds \ {d} : kernel[e] \in Files /\ kernel[e] = kernel[d]
                                => kernel[e] \in shared
      BY <1>f, <1>t, <2>3 DEF SharedInv
    <3>6. \A e \in Tree' \cap Fds :
            /\ gFileHandleTree'[e].of = NoFile => kind[kernel'[e]] = "default"
            /\ (gFileHandleTree'[e].backupCreated = 1 /\ kind[kernel'[e]] = "backup")
                  => kernel'[e] \in backup' \cup shared'
      <4> SUFFICES ASSUME NEW e \in Tree' \cap Fds
                   PROVE  /\ gFileHandleTree'[e].of = NoFile => kind[kernel'[e]] = "default"
                          /\ (gFileHandleTree'[e].backupCreated = 1
                                 /\ kind[kernel'[e]] = "backup")
                                => kernel'[e] \in backup' \cup shared'
        OBVIOUS
      <4>1. /\ e \in Tree \cap Fds /\ e # d /\ gFileHandleTree'[e] = gFileHandleTree[e]
            /\ kernel'[e] = kernel[e] /\ kernel[e] \in Files /\ kernel[e] \notin Ended(d)
        BY <1>t, <1>f, <3>1, <3>2 DEF AgreeInv, TreeNamesKernel
      <4> QED
        BY <1>f, <3>1, <3>4, <3>5, <4>1
    <3>7. \A g \in changed' : kind[g] = "backup" /\ (IsOpen(g)' \/ g \in backup')
      <4> SUFFICES ASSUME NEW g \in changed'
                   PROVE  kind[g] = "backup" /\ (IsOpen(g)' \/ g \in backup')
        OBVIOUS
      <4>1. g \in changed /\ g \in Files /\ g \notin Ended(d)
        BY <1>t, <3>1
      <4>2. CASE IsOpen(g)
        BY <1>f, <3>3, <4>1, <4>2
      <4>3. CASE ~ IsOpen(g)
        BY <1>f, <2>3, <3>1, <3>4, <4>1, <4>3 DEF IsOpen
      <4> QED
        BY <4>2, <4>3
    <3>8. \A g \in changed' \ shared' : g \in backup'
      <4> SUFFICES ASSUME NEW g \in changed' \ shared', g \notin backup' PROVE FALSE
        OBVIOUS
      <4>1. g \in changed /\ g \in Files /\ g \notin Ended(d) /\ g \notin shared /\ g \in backup
        BY <1>t, <1>f, <3>1
      <4>2. kernel[d] = g
        BY <3>1, <3>4, <4>1
      <4>3. \E e \in Fds \ {d} : kernel[e] = g
        BY <4>1, <4>2 DEF Ended
      <4> QED
        BY <3>5, <4>1, <4>2, <4>3
    <3> QED
      BY <3>6, <3>7, <3>8
  <2> QED
    BY <2>1, <2>2, <2>3 DEF Keys
<1>6. CASE DeinitLibrary
  <2>1. /\ Tree' = {} /\ UNCHANGED <<kernel, backup, changed>>
        /\ shared' = {f \in Files : IsOpen(f)}
    BY <1>6 DEF DeinitLibrary, Tree, disk, IsOpen
  <2>2. \A g : IsOpen(g)' <=> IsOpen(g)
    BY <2>1 DEF IsOpen
  <2> QED
    BY <1>f, <1>t, <2>1, <2>2
<1>7. CASE Die
  <2>1. Tree' = {} /\ changed' = changed \cap backup /\ backup' = backup
    BY <1>7 DEF Die, Tree
  <2> QED
    BY <1>f, <2>1
<1>8. ASSUME NEW f \in Files, OpenRefused(f) PROVE BackupInv'
  BY <1>1, <1>8 DEF OpenRefused, Recover
<1>9. ASSUME (\E h \in held : FileClose(h)) \/ (\E d \in Fds : FileCloseStale(d))
               \/ FileCloseFailed \/ IterateClose
      PROVE  BackupInv'
  <2>1. \E d \in Keys : Close(d)
    BY <1>9, <1>f DEF FileClose, FileCloseStale, FileCloseFailed, IterateClose, TypeOK, Keys
  <2> QED
    BY <1>5, <2>1
<1> HIDE DEF BackupInv
<1> QED
  BY <1>1, <1>2, <1>3, <1>4, <1>6, <1>7, <1>8, <1>9
  DEF Next, Step, vars, disk, PrepareShutdown, IterateSync, IterateNext,
      IterateEnd, DestroyItem, DestroyEnd, ShutdownDone, InitLibrary

(* The initial states satisfy the invariant: nothing is open.              *)
LEMMA IInvInit == Init => IInv
<1> SUFFICES ASSUME Init PROVE IInv
  OBVIOUS
<1>1. Tree = {} /\ held = {} /\ orphans = {} /\ changed = {} /\ \A d \in Fds : kernel[d] = Free
  BY DEF Init, Tree
<1>2. AgreeInv /\ SharedInv /\ BackupInv
  BY <1>1 DEF AgreeInv, TreeNamesKernel, HeldNamesItsFile, SharedInv, BackupInv,
              ChangedHasBackup
<1> QED
  BY <1>2, TypeInit DEF Init, IInv, PlaceInv

(* IInv is inductive.                                                      *)
LEMMA IInvStep == IInv /\ [Next]_vars => IInv'
  BY TypeStep, PlaceStep, AgreeStep, SharedStep, BackupStep DEF IInv

-----------------------------------------------------------------------------
(* Theorems                                                                *)

(* The application, gFileHandleTree and the kernel mean the same file by a *)
(* descriptor, whoever closes files behind the back of whom.               *)
THEOREM DescriptorsAgreeCorrect == Spec => []DescriptorsAgree
<1>1. IInv => DescriptorsAgree
  BY DEF IInv, AgreeInv, DescriptorsAgree
<1> QED
  BY <1>1, IInvInit, IInvStep, PTL DEF Spec

(* A file that only one session has in use never lacks the backup of what  *)
(* that session has changed.                                               *)
THEOREM ChangedHasBackupCorrect == Spec => []ChangedHasBackup
<1>1. IInv => ChangedHasBackup
  BY DEF IInv, BackupInv
<1> QED
  BY <1>1, IInvInit, IInvStep, PTL DEF Spec

(* Nothing rolls a file back while its only session is open.               *)
THEOREM WritesStayCorrect == Spec => WritesStay
<1> DEFINE Stays == \A f \in changed \ shared' :
                      (\E d \in Fds : kernel[d] = f /\ kernel'[d] = f) => f \in changed'
<1>1. IInv /\ [Next]_vars => [Stays]_vars
  <2> SUFFICES ASSUME IInv, Next, NEW f \in changed, f \notin shared',
                      NEW d \in Fds, kernel[d] = f, kernel'[d] = f
               PROVE  f \in changed'
    OBVIOUS
  <2>t. TypeOK /\ f \in Files /\ Free \notin Files
    BY FileAssumption DEF IInv, TypeOK
  <2>1. ASSUME NEW g \in Files, NEW e \in Fds, OpenSucceeds(g, e) PROVE f \in changed'
    BY <2>1 DEF OpenSucceeds, Recover, InUse
  <2>2. ASSUME NEW g \in Files, OpenRefused(g) PROVE f \in changed'
    BY <2>2 DEF OpenRefused, Recover, InUse
  <2>3. ASSUME NEW e \in Fds, Write(e) PROVE f \in changed'
    BY <2>3 DEF Write
  <2>4. ASSUME NEW e \in Keys, Close(e) PROVE f \in changed'
    <3>1. CASE e = d
      BY <2>4, <2>t, <3>1, CloseFacts DEF TypeOK, Keys, Ended
    <3>2. CASE e # d
      BY <2>4, <2>t, <3>2, CloseFacts DEF Ended
    <3> QED
      BY <3>1, <3>2
  <2>5. ASSUME (\E h \in held : FileClose(h)) \/ (\E e \in Fds : FileCloseStale(e))
                 \/ FileCloseFailed \/ IterateClose
        PROVE  f \in changed'
    <3>1. \E e \in Keys : Close(e)
      BY <2>5, <2>t DEF FileClose, FileCloseStale, FileCloseFailed, IterateClose, TypeOK,
         Keys, IInv
    <3> QED
      BY <2>4, <3>1
  <2>6. CASE Die
    BY <2>6, <2>t DEF Die
  <2> QED
    BY <2>1, <2>2, <2>3, <2>5, <2>6
    DEF Next, Step, disk, OpenFails, PrepareShutdown, IterateSync, IterateNext,
        IterateEnd, DestroyItem, DestroyEnd, ShutdownDone, DeinitLibrary, InitLibrary
<1> QED
  BY <1>1, IInvInit, IInvStep, PTL DEF Spec, WritesStay

-----------------------------------------------------------------------------
(* The list and the walk of the shutdown                                   *)

Ranks == [Items -> Nat]

(* n follows x, and nothing of L lies between the two.                     *)
Follows(L, r, x, n) ==
  IF n = NULL THEN \A y \in L : r[y] <= r[x]
  ELSE r[x] < r[n] /\ \A y \in L : r[y] <= r[x] \/ r[n] <= r[y]

(* The list starts at the first allocated item in the order r and leads to *)
(* the others in that order.                                               *)
Chain(r) ==
  /\ \A x, y \in live : r[x] = r[y] => x = y
  /\ IF gOpenFdList = NULL THEN live = {}
     ELSE gOpenFdList \in live /\ \A y \in live : r[gOpenFdList] <= r[y]
  /\ \A x \in live : heap[x].next \in live \cup {NULL} /\ Follows(live, r, x, heap[x].next)

(* The list has the descriptors it should have.                            *)
Tracks ==
  /\ \A x \in live : heap[x].fd \in TrackedFds \cup {Failed}
  /\ \A d \in TrackedFds : \E x \in live : heap[x].fd = d
  /\ \A x, y \in live : heap[x].fd = heap[y].fd => x = y \/ heap[x].fd = Failed

(* The phases of a shutdown.  The open that falls into a full one counts   *)
(* for ever.                                                               *)
PhaseInv ==
  /\ loop = "idle" <=> mode = "none"
  /\ loop = "destroy" => mode # "partial"
  /\ loop = "quit" => mode = "deinit"
  /\ mode \in {"full", "deinit"} => raced # "once"

Destroying == loop = "destroy" \/ (loop = "finish" /\ mode # "partial")

Sound == Tracks /\ \E r \in Ranks : Chain(r)

(* The list is sound until list_destroy takes it apart, and by then no     *)
(* writable file is open; nor is one when the loop has ended.              *)
ListInv ==
  raced # "lasting" =>
    IF Destroying
    THEN TrackedFds = {} /\ pending = {} /\ (loop = "finish" => gOpenFdList = NULL)
    ELSE Sound /\ (loop = "quit" => TrackedFds = {})

(* A freed item still leads to what came after it.  S is what was          *)
(* allocated when the shutdown began.                                      *)
Links(S, r) ==
  /\ live \subseteq S
  /\ \A x, y \in S : r[x] = r[y] => x = y
  /\ \A x \in S : heap[x].next \in S \cup {NULL} /\ Follows(live, r, x, heap[x].next)

(* So the walk may stand on an item that has been freed, and follow others *)
(* that have been freed: what is pending lies ahead.                       *)
Ahead(r) ==
  \A x \in live : heap[x].fd \in pending =>
    tmp # NULL /\ (IF loop = "next" THEN r[tmp] < r[x] ELSE r[tmp] <= r[x])

Walk(S, r) == Links(S, r) /\ tmp \in S \cup {NULL} /\ Ahead(r)

WalkInv ==
  raced = "no" =>
    /\ loop \in {"iterate", "next"} =>
         /\ pending \subseteq TrackedFds /\ (mode = "partial" \/ TrackedFds \subseteq pending)
         /\ \E S \in SUBSET Items, r \in Ranks : Walk(S, r)
    /\ loop = "finish" => pending = {}

(* The items of a sound list are allocated ones, in the order of r.        *)
LEMMA ChainOrder ==
  ASSUME TypeOK, NEW r \in Ranks, Chain(r)
  PROVE  /\ \A k \in 0 .. N : Item[k] \in live \cup {NULL}
         /\ \A k \in 0 .. N : \A i \in 0 .. k - 1 :
              Item[k] # NULL => Item[i] # NULL /\ r[Item[i]] < r[Item[k]]
<1>n. N \in Nat /\ live \subseteq Items /\ NULL \notin Items
  BY NType, FileAssumption DEF TypeOK
<1>1. \A k \in 0 .. N : Item[k] \in live \cup {NULL}
  <2> DEFINE S == {n \in Nat : n <= N => Item[n] \in live \cup {NULL}}
  <2>1. 0 \in S
    BY ItemDef DEF Chain
  <2>2. ASSUME NEW n \in Nat, n \in S PROVE n + 1 \in S
    <3>1. CASE n + 1 <= N
      <4>1. Item[n + 1] = After(Item[n]) /\ Item[n] \in live \cup {NULL}
        BY <1>n, <2>2, <3>1, ItemDef
      <4> QED
        BY <4>1 DEF After, Chain
    <3> QED
      BY <3>1
  <2> HIDE DEF S
  <2>3. Nat \subseteq S
    BY <2>1, <2>2, Induction
  <2> QED
    BY <1>n, <2>3 DEF S
<1>2. \A k \in 1 .. N : Item[k] # NULL => Item[k - 1] # NULL /\ r[Item[k - 1]] < r[Item[k]]
  <2> SUFFICES ASSUME NEW k \in 1 .. N, Item[k] # NULL
               PROVE  Item[k - 1] # NULL /\ r[Item[k - 1]] < r[Item[k]]
    OBVIOUS
  <2>1. Item[k] = After(Item[k - 1]) /\ Item[k - 1] \in live \cup {NULL}
    BY <1>n, <1>1, ItemDef
  <2>2. Item[k - 1] # NULL /\ Item[k - 1] \in live /\ Item[k] = heap[Item[k - 1]].next
    BY <2>1 DEF After
  <2>3. Follows(live, r, Item[k - 1], Item[k])
    BY <2>2 DEF Chain
  <2> QED
    BY <2>2, <2>3 DEF Follows
<1>3. \A k \in 0 .. N : Item[k] # NULL => r[Item[k]] \in Nat
  BY <1>n, <1>1 DEF Ranks
<1>4. \A k \in 0 .. N : \A i \in 0 .. k - 1 :
              Item[k] # NULL => Item[i] # NULL /\ r[Item[i]] < r[Item[k]]
  <2> DEFINE S == {n \in Nat : n <= N => \A i \in 0 .. n - 1 :
                     Item[n] # NULL => Item[i] # NULL /\ r[Item[i]] < r[Item[n]]}
  <2>1. 0 \in S
    OBVIOUS
  <2>2. ASSUME NEW n \in Nat, n \in S PROVE n + 1 \in S
    <3> SUFFICES ASSUME n + 1 <= N, NEW i \in 0 .. n, Item[n + 1] # NULL
                 PROVE  Item[i] # NULL /\ r[Item[i]] < r[Item[n + 1]]
      OBVIOUS
    <3>1. Item[n] # NULL /\ r[Item[n]] < r[Item[n + 1]]
      <4>1. n + 1 \in 1 .. N /\ (n + 1) - 1 = n
        BY <1>n
      <4> QED
        BY <1>2, <4>1
    <3>2. CASE i = n
      BY <3>1, <3>2
    <3>3. CASE i # n
      <4>1. n <= N /\ i \in 0 .. n - 1
        BY <1>n, <3>3
      <4>2. Item[i] # NULL /\ r[Item[i]] < r[Item[n]]
        BY <2>2, <3>1, <4>1
      <4>3. r[Item[i]] \in Nat /\ r[Item[n]] \in Nat /\ r[Item[n + 1]] \in Nat
        BY <1>n, <1>3, <3>1, <4>1, <4>2
      <4> QED
        BY <3>1, <4>2, <4>3
    <3> QED
      BY <3>2, <3>3
  <2> HIDE DEF S
  <2>3. Nat \subseteq S
    BY <2>1, <2>2, Induction
  <2> QED
    BY <1>n, <2>3 DEF S
<1> QED
  BY <1>1, <1>4

(* There are not enough items for it to go on for ever.                    *)
LEMMA ChainEnds ==
  ASSUME TypeOK, NEW r \in Ranks, Chain(r)
  PROVE  Item[N] = NULL
<1> SUFFICES ASSUME Item[N] # NULL PROVE FALSE
  OBVIOUS
<1>n. N \in Nat /\ live \subseteq Items
  BY NType DEF TypeOK
<1> DEFINE g == [k \in 0 .. N |-> Item[k]]
<1>1. \A k \in 0 .. N : Item[k] # NULL
  BY <1>n, ChainOrder
<1>2. \A k \in 0 .. N : Item[k] \in Items /\ r[Item[k]] \in Nat
  BY <1>n, <1>1, ChainOrder DEF Ranks
<1>3. g \in [0 .. N -> Items]
  BY <1>2
<1>4. IsFiniteSet(0 .. N) /\ Cardinality(0 .. N) = N + 1
  BY <1>n, FS_Interval
<1>5. IsFiniteSet(Items) /\ Cardinality(Items) < Cardinality(0 .. N)
  BY <1>n, <1>4, FileAssumption DEF N
<1> HIDE DEF g
<1>6. PICK x, y \in 0 .. N : x # y /\ g[x] = g[y]
  BY <1>3, <1>4, <1>5, FS_PigeonHole
<1>7. Item[x] = Item[y]
  BY <1>6 DEF g
<1>8. x \in 0 .. y - 1 \/ y \in 0 .. x - 1
  BY <1>n, <1>6
<1>9. r[Item[x]] < r[Item[y]] \/ r[Item[y]] < r[Item[x]]
  BY <1>1, <1>8, ChainOrder
<1> QED
  BY <1>2, <1>7, <1>9

(* It leads to every allocated item.                                       *)
LEMMA ChainReaches ==
  ASSUME TypeOK, NEW r \in Ranks, Chain(r)
  PROVE  {Item[k] : k \in Positions} = live
<1>n. N \in Nat /\ live \subseteq Items /\ NULL \notin live
  BY NType, FileAssumption DEF TypeOK
<1>1. {Item[k] : k \in Positions} \subseteq live
  BY ChainOrder DEF Positions, N
<1>2. ASSUME NEW y \in live, \A k \in 0 .. N : Item[k] # y PROVE FALSE
  <2> DEFINE S == {n \in Nat : n <= N => Item[n] \in live /\ r[Item[n]] < r[y]}
  <2>1. 0 \in S
    <3>1. gOpenFdList \in live /\ r[gOpenFdList] <= r[y] /\ gOpenFdList # y
      BY <1>n, <1>2, ItemDef DEF Chain
    <3>2. r[gOpenFdList] # r[y] /\ r[gOpenFdList] \in Nat /\ r[y] \in Nat
      BY <1>n, <3>1 DEF Chain, Ranks
    <3> QED
      BY <3>1, <3>2, ItemDef
  <2>2. ASSUME NEW n \in Nat, n \in S PROVE n + 1 \in S
    <3> SUFFICES ASSUME n + 1 <= N PROVE Item[n + 1] \in live /\ r[Item[n + 1]] < r[y]
      OBVIOUS
    <3>1. Item[n] \in live /\ r[Item[n]] < r[y] /\ Item[n + 1] = After(Item[n])
      BY <1>n, <2>2, ItemDef
    <3>2. Item[n + 1] = heap[Item[n]].next /\ Item[n + 1] # y
      BY <1>n, <1>2, <3>1 DEF After
    <3>3. Item[n + 1] \in live \cup {NULL} /\ Follows(live, r, Item[n], Item[n + 1])
      BY <3>1, <3>2 DEF Chain
    <3>4. r[Item[n]] \in Nat /\ r[y] \in Nat
      BY <1>n, <3>1 DEF Ranks
    <3>5. Item[n + 1] # NULL
      BY <3>1, <3>3, <3>4 DEF Follows
    <3>6. r[Item[n + 1]] \in Nat /\ r[Item[n + 1]] # r[y]
      BY <1>n, <3>2, <3>3, <3>5 DEF Ranks, Chain
    <3>7. r[Item[n + 1]] <= r[y]
      BY <3>1, <3>3, <3>4, <3>5, <3>6 DEF Follows
    <3> QED
      BY <3>3, <3>4, <3>5, <3>6, <3>7
  <2> HIDE DEF S
  <2>3. Nat \subseteq S
    BY <2>1, <2>2, Induction
  <2>4. Item[N] \in live
    BY <1>n, <2>3 DEF S
  <2> QED
    BY <1>n, <2>4, ChainEnds
<1>3. live \subseteq {Item[k] : k \in Positions}
  BY <1>n, <1>2 DEF Positions, N
<1> QED
  BY <1>1, <1>3

(* A list that is not empty has a last item.                               *)
LEMMA ChainLast ==
  ASSUME TypeOK, NEW r \in Ranks, Chain(r), gOpenFdList # NULL
  PROVE  \E k \in Positions : heap[Item[k]].next = NULL
<1>n. N \in Nat
  BY NType
<1> DEFINE T == {k \in 0 .. N : Item[k] = NULL}
<1>1. T \in SUBSET Nat /\ T # {}
  BY <1>n, ChainEnds
<1>2. PICK k \in T : \A j \in T : k <= j
  BY <1>1, LeastElement
<1>3. k # 0
  BY <1>2, ItemDef
<1>4. k \in 1 .. N /\ k - 1 \in 0 .. N /\ k - 1 \notin T
  BY <1>n, <1>2, <1>3
<1>5. Item[k - 1] # NULL /\ After(Item[k - 1]) = NULL
  BY <1>2, <1>4, ItemDef
<1> QED
  BY <1>4, <1>5 DEF Positions, N, After

(* list_item_insert on a sound list: c becomes its last item.              *)
LEMMA InsertSpec ==
  ASSUME TypeOK, NEW r \in Ranks, Chain(r), NEW d \in Keys, list_item_insert(d)
  PROVE  \E c \in Items \ live :
           /\ live' = live \cup {c}
           /\ heap'[c] = [fd |-> d, next |-> NULL]
           /\ \/ /\ live = {} /\ gOpenFdList' = c
                 /\ \A y \in Items \ {c} : heap'[y] = heap[y]
              \/ \E l \in live :
                   /\ gOpenFdList # NULL /\ gOpenFdList' = gOpenFdList
                   /\ heap[l].next = NULL
                   /\ heap'[l] = [fd |-> heap[l].fd, next |-> c]
                   /\ \A y \in Items \ {c, l} : heap'[y] = heap[y]
<1>t. /\ heap \in [Items -> [fd : Keys, next : Items \cup {NULL}]] /\ live \subseteq Items
      /\ NULL \notin Items
  BY FileAssumption DEF TypeOK
<1>1. CASE gOpenFdList = NULL
  BY <1>1, <1>t DEF list_item_insert, Chain
<1>2. CASE gOpenFdList # NULL
  <2> DEFINE last == CHOOSE k \in Positions : heap[Item[k]].next = NULL
  <2>1. last \in Positions /\ heap[Item[last]].next = NULL
    BY <1>2, ChainLast
  <2>2. Item[last] \in live
    BY <2>1, ChainOrder DEF Positions, N
  <2>3. PICK c \in Items \ live :
          /\ live' = live \cup {c}
          /\ heap' = [heap EXCEPT ![Item[last]].next = c, ![c] = [fd |-> d, next |-> NULL]]
          /\ UNCHANGED gOpenFdList
    BY <1>2 DEF list_item_insert
  <2> HIDE DEF last
  <2> DEFINE l == Item[last]
  <2>4. l \in live /\ l # c /\ l \in Items /\ heap[l].next = NULL
    BY <2>1, <2>2, <2>3, <1>t
  <2>5. /\ heap'[c] = [fd |-> d, next |-> NULL]
        /\ heap'[l] = [fd |-> heap[l].fd, next |-> c]
        /\ \A y \in Items \ {c, l} : heap'[y] = heap[y]
    BY <2>3, <2>4, <1>t
  <2> QED
    BY <1>2, <2>3, <2>4, <2>5
<1> QED
  BY <1>1, <1>2

(* list_item_remove on a sound list: an item of d leaves the list and is   *)
(* freed; if there is none, nothing happens.                               *)
LEMMA RemoveSpec ==
  ASSUME TypeOK, NEW r \in Ranks, Chain(r), NEW d \in Keys, list_item_remove(d)
  PROVE  \/ UNCHANGED list /\ \A x \in live : heap[x].fd # d
         \/ \E c \in live :
              /\ heap[c].fd = d /\ live' = live \ {c}
              /\ heap'[c] = heap[c] \/ loop \in {"idle", "quit"}
              /\ \/ /\ gOpenFdList = c /\ gOpenFdList' = heap[c].next
                    /\ \A y \in Items \ {c} : heap'[y] = heap[y]
                 \/ \E p \in live \ {c} :
                      /\ heap[p].next = c /\ gOpenFdList' = gOpenFdList
                      /\ heap'[p] = [fd |-> heap[p].fd, next |-> heap[c].next]
                      /\ \A y \in Items \ {c, p} : heap'[y] = heap[y]
<1>t. /\ heap \in [Items -> [fd : Keys, next : Items \cup {NULL}]] /\ live \subseteq Items
      /\ NULL \notin Items /\ N \in Nat
  BY FileAssumption, NType DEF TypeOK
<1> DEFINE found == {k \in Positions : heap[Item[k]].fd = d}
           k == CHOOSE i \in found : \A j \in found : i <= j
           c == Item[k]
           cut == IF k = 0 THEN heap ELSE [heap EXCEPT ![Item[k - 1]].next = heap[c].next]
<1>1. CASE found = {}
  <2>1. \A x \in live : heap[x].fd # d
    BY <1>1, ChainReaches
  <2> QED
    BY <1>1, <2>1 DEF list_item_remove
<1>2. CASE found # {}
  <2>1. k \in found
    <3>1. found \in SUBSET Nat
      BY <1>t DEF Positions, N
    <3>2. \E i \in found : \A j \in found : i <= j
      BY <1>2, <3>1, LeastElement
    <3> QED
      BY <3>2
  <2>2. /\ c \in live /\ live' = live \ {c}
        /\ gOpenFdList' = IF k = 0 THEN heap[c].next ELSE gOpenFdList
        /\ heap' = IF loop \in {"idle", "quit"} THEN [cut EXCEPT ![c] = Blank] ELSE cut
    BY <1>2 DEF list_item_remove
  <2>3. k \in 0 .. N /\ c # NULL /\ heap[c].fd = d
    BY <2>1 DEF Positions, N
  <2>4. CASE k = 0
    <3>1. gOpenFdList = c
      BY <2>4, ItemDef
    <3>2. heap'[c] = heap[c] \/ loop \in {"idle", "quit"}
      BY <1>t, <2>2, <2>4
    <3>3. \A y \in Items \ {c} : heap'[y] = heap[y]
      BY <1>t, <2>2, <2>4
    <3> QED
      BY <2>2, <2>3, <2>4, <3>1, <3>2, <3>3
  <2>5. CASE k # 0
    <3> DEFINE p == Item[k - 1]
    <3>1. k \in 1 .. N /\ k - 1 \in 0 .. N /\ k - 1 \in 0 .. k - 1
      BY SMTT(20), <2>3, <2>5, <1>t
    <3>2. p \in live /\ heap[p].next = c
      <4>1. c = After(p) /\ p \in live \cup {NULL}
        BY <3>1, ItemDef, ChainOrder
      <4> QED
        BY <2>3, <4>1 DEF After
    <3>3. p # c
      <4>1. r[p] < r[c] /\ r[p] \in Nat
        BY <1>t, <2>3, <3>1, <3>2, ChainOrder DEF Ranks
      <4> QED
        BY SMTT(20), <4>1
    <3>4. cut = [heap EXCEPT ![p].next = heap[c].next]
      BY <2>5
    <3> HIDE DEF p, cut, c
    <3>5. /\ cut[p] = [fd |-> heap[p].fd, next |-> heap[c].next]
          /\ \A y \in Items \ {p} : cut[y] = heap[y]
          /\ cut \in [Items -> [fd : Keys, next : Items \cup {NULL}]]
      BY <1>t, <2>2, <3>2, <3>4
    <3>6. /\ heap'[p] = [fd |-> heap[p].fd, next |-> heap[c].next]
          /\ \A y \in Items \ {c, p} : heap'[y] = heap[y]
          /\ heap'[c] = heap[c] \/ loop \in {"idle", "quit"}
      BY <1>t, <2>2, <3>2, <3>3, <3>5
    <3>7. gOpenFdList' = gOpenFdList
      BY <2>2, <2>5
    <3> QED
      BY <2>2, <2>3, <3>2, <3>3, <3>6, <3>7
  <2> QED
    BY <2>4, <2>5
<1> QED
  BY <1>1, <1>2

(* An item is freed: who followed another still does.                      *)
LEMMA FollowsLess ==
  ASSUME NEW L, NEW M \in SUBSET L, NEW r, NEW x, NEW n, Follows(L, r, x, n)
  PROVE  Follows(M, r, x, n)
  BY DEF Follows

(* Who followed the freed item c now follows the one before it.            *)
LEMMA FollowsCut ==
  ASSUME NEW S \in SUBSET Items, NEW L \in SUBSET S, NEW r \in Ranks,
         \A y, z \in S : r[y] = r[z] => y = z,
         NEW x \in S, NEW c \in S, NEW n \in S \cup {NULL},
         Follows(L, r, x, c), Follows(L, r, c, n)
  PROVE  Follows(L \ {c}, r, x, n)
<1>1. c # NULL /\ (n # NULL => n \in S) /\ \A y \in S : r[y] \in Nat
  BY FileAssumption DEF Ranks
<1>2. r[x] < r[c] /\ \A y \in L \ {c} : r[y] <= r[x] \/ r[c] < r[y]
  <2>1. r[x] < r[c] /\ \A y \in L : r[y] <= r[x] \/ r[c] <= r[y]
    BY <1>1 DEF Follows
  <2>2. \A y \in L \ {c} : y \in S /\ r[y] # r[c]
    OBVIOUS
  <2> QED
    BY <1>1, <2>1, <2>2
<1>3. CASE n = NULL
  <2>1. \A y \in L : r[y] <= r[c]
    BY <1>3 DEF Follows
  <2>2. \A y \in L \ {c} : r[y] <= r[x]
    BY <1>1, <1>2, <2>1
  <2> QED
    BY <1>3, <2>2 DEF Follows
<1>4. CASE n # NULL
  <2>1. r[c] < r[n] /\ \A y \in L : r[y] <= r[c] \/ r[n] <= r[y]
    BY <1>4 DEF Follows
  <2>2. r[x] < r[n]
    BY <1>1, <1>2, <1>4, <2>1
  <2>3. \A y \in L \ {c} : r[y] <= r[x] \/ r[n] <= r[y]
    BY <1>1, <1>2, <2>1
  <2> QED
    BY <1>4, <2>2, <2>3 DEF Follows
<1> QED
  BY <1>3, <1>4

(* Only one allocated item leads to c.                                     *)
LEMMA FollowsOnce ==
  ASSUME TypeOK, NEW r \in Ranks, Chain(r), NEW c \in live, NEW x \in live, NEW p \in live,
         heap[x].next = c, heap[p].next = c
  PROVE  x = p
<1>1. Follows(live, r, x, c) /\ Follows(live, r, p, c) /\ c # NULL
  BY FileAssumption DEF Chain, TypeOK
<1>2. r[x] \in Nat /\ r[p] \in Nat /\ r[c] \in Nat
  BY DEF TypeOK, Ranks
<1>3. r[x] = r[p]
  BY <1>1, <1>2 DEF Follows
<1> QED
  BY <1>3 DEF Chain

(* list_item_remove keeps a sound list sound.                              *)
LEMMA ChainRemove ==
  ASSUME TypeOK, NEW r \in Ranks, Chain(r), NEW d \in Keys, list_item_remove(d)
  PROVE  Chain(r)'
<1>t. live \subseteq Items /\ NULL \notin Items /\ \A x \in Items : r[x] \in Nat
  BY FileAssumption DEF TypeOK, Ranks
<1>c. /\ \A x, y \in live : r[x] = r[y] => x = y
      /\ IF gOpenFdList = NULL THEN live = {}
         ELSE gOpenFdList \in live /\ \A y \in live : r[gOpenFdList] <= r[y]
      /\ \A x \in live : heap[x].next \in live \cup {NULL} /\ Follows(live, r, x, heap[x].next)
  BY DEF Chain
<1>1. CASE UNCHANGED list
  BY <1>1 DEF Chain, list, Follows
<1>2. ASSUME NEW c \in live, live' = live \ {c}, gOpenFdList = c, gOpenFdList' = heap[c].next,
             \A y \in Items \ {c} : heap'[y] = heap[y]
      PROVE  Chain(r)'
  <2> DEFINE n == heap[c].next
  <2>1. n \in live \cup {NULL} /\ Follows(live, r, c, n) /\ c # NULL
    BY <1>t, <1>c
  <2>2. \A y \in live' : r[c] < r[y]
    BY <1>t, <1>c, <1>2, <2>1
  <2>3. IF n = NULL THEN live' = {} ELSE n \in live' /\ \A y \in live' : r[n] <= r[y]
    <3>1. CASE n = NULL
      BY <1>t, <1>2, <2>1, <2>2, <3>1 DEF Follows
    <3>2. CASE n # NULL
      <4>1. r[c] < r[n] /\ \A y \in live : r[y] <= r[c] \/ r[n] <= r[y]
        BY <2>1, <3>2 DEF Follows
      <4>2. \A y \in live' : r[n] <= r[y]
        BY <1>t, <1>2, <2>2, <4>1
      <4>3. n # c
        BY <1>t, <4>1
      <4> QED
        BY <1>2, <2>1, <3>2, <4>2, <4>3
    <3> QED
      BY <3>1, <3>2
  <2>4. ASSUME NEW x \in live'
        PROVE  heap'[x].next \in live' \cup {NULL} /\ Follows(live', r, x, heap'[x].next)
    <3> DEFINE m == heap[x].next
    <3>1. x \in live /\ heap'[x] = heap[x] /\ m \in live \cup {NULL} /\ Follows(live, r, x, m)
      BY <1>t, <1>c, <1>2
    <3>2. m # c
      BY <1>t, <2>2, <3>1 DEF Follows
    <3>3. Follows(live', r, x, m)
      BY <1>2, <3>1, FollowsLess
    <3> QED
      BY <1>2, <3>1, <3>2, <3>3
  <2> QED
    BY <1>c, <1>2, <2>3, <2>4 DEF Chain
<1>3. ASSUME NEW c \in live, live' = live \ {c}, NEW p \in live \ {c}, heap[p].next = c,
             gOpenFdList' = gOpenFdList,
             heap'[p] = [fd |-> heap[p].fd, next |-> heap[c].next],
             \A y \in Items \ {c, p} : heap'[y] = heap[y]
      PROVE  Chain(r)'
  <2> DEFINE n == heap[c].next
  <2>1. /\ n \in live \cup {NULL} /\ Follows(live, r, c, n) /\ Follows(live, r, p, c)
        /\ c # NULL /\ r[p] < r[c]
    BY <1>t, <1>c, <1>3 DEF Follows
  <2>2. gOpenFdList # NULL /\ gOpenFdList \in live /\ \A y \in live : r[gOpenFdList] <= r[y]
    BY <1>c, <1>3
  <2>3. gOpenFdList # c
    BY <1>t, <2>1, <2>2
  <2>4. n # c
    BY <1>t, <2>1 DEF Follows
  <2>5. ASSUME NEW x \in live'
        PROVE  heap'[x].next \in live' \cup {NULL} /\ Follows(live', r, x, heap'[x].next)
    <3>1. CASE x = p
      <4>1. Follows(live \ {c}, r, p, n)
        BY <1>t, <1>c, <2>1, FollowsCut
      <4> QED
        BY <1>3, <2>1, <2>4, <3>1, <4>1
    <3>2. CASE x # p
      <4> DEFINE m == heap[x].next
      <4>1. x \in live /\ heap'[x] = heap[x] /\ m \in live \cup {NULL} /\ Follows(live, r, x, m)
        BY <1>t, <1>c, <1>3, <3>2
      <4>2. m # c
        BY <1>3, <3>2, <4>1, FollowsOnce
      <4>3. Follows(live', r, x, m)
        BY <1>3, <4>1, FollowsLess
      <4> QED
        BY <1>3, <4>1, <4>2, <4>3
    <3> QED
      BY <3>1, <3>2
  <2> QED
    BY <1>c, <1>3, <2>2, <2>3, <2>5 DEF Chain
<1> QED
  BY <1>1, <1>2, <1>3, RemoveSpec

(* list_item_insert keeps it sound, with the new item as the greatest.     *)
LEMMA ChainInsert ==
  ASSUME TypeOK, NEW r \in Ranks, Chain(r), NEW d \in Keys, list_item_insert(d)
  PROVE  \E q \in Ranks : Chain(q)'
<1>t. live \subseteq Items /\ NULL \notin Items /\ \A x \in Items : r[x] \in Nat
  BY FileAssumption DEF TypeOK, Ranks
<1>c. /\ \A x, y \in live : r[x] = r[y] => x = y
      /\ IF gOpenFdList = NULL THEN live = {}
         ELSE gOpenFdList \in live /\ \A y \in live : r[gOpenFdList] <= r[y]
      /\ \A x \in live : heap[x].next \in live \cup {NULL} /\ Follows(live, r, x, heap[x].next)
  BY DEF Chain
<1>1. ASSUME NEW c \in Items \ live, live' = live \cup {c}, heap'[c].next = NULL,
             live = {}, gOpenFdList' = c
      PROVE  Chain(r)'
  <2>1. live' = {c} /\ c # NULL /\ r[c] \in Nat
    BY <1>1, <1>t
  <2> QED
    BY <1>1, <2>1 DEF Chain, Follows
<1>2. ASSUME NEW c \in Items \ live, live' = live \cup {c}, heap'[c].next = NULL,
             NEW l \in live, gOpenFdList # NULL, gOpenFdList' = gOpenFdList,
             heap[l].next = NULL, heap'[l].next = c,
             \A y \in Items \ {c, l} : heap'[y] = heap[y]
      PROVE  \E q \in Ranks : Chain(q)'
  <2> DEFINE q == [x \in Items |-> IF x = c THEN r[l] + 1 ELSE r[x]]
  <2>1. q \in Ranks /\ q[c] = r[l] + 1 /\ \A x \in live : q[x] = r[x] /\ x # c
    BY <1>t DEF Ranks
  <2>2. \A y \in live : r[y] <= r[l]
    BY <1>2, <1>c DEF Follows
  <2> HIDE DEF q
  <2>3. \A y \in live : q[y] < q[c] /\ q[y] <= q[l] /\ q[y] \in Nat
    BY <1>t, <2>1, <2>2
  <2>4. q[c] \in Nat /\ c # NULL
    BY <1>t, <2>1, <1>2
  <2>5. \A x, y \in live' : q[x] = q[y] => x = y
    BY <1>c, <1>2, <2>1, <2>3, <2>4
  <2>6. gOpenFdList \in live' /\ \A y \in live' : q[gOpenFdList] <= q[y]
    BY <1>c, <1>2, <2>1, <2>3, <2>4
  <2>7. ASSUME NEW x \in live'
        PROVE  heap'[x].next \in live' \cup {NULL} /\ Follows(live', q, x, heap'[x].next)
    <3>1. CASE x = c
      <4>1. \A y \in live' : q[y] <= q[c]
        BY <1>2, <2>3, <2>4
      <4> QED
        BY <1>2, <3>1, <4>1 DEF Follows
    <3>2. CASE x = l
      <4>1. q[l] < q[c] /\ \A y \in live' : q[y] <= q[l] \/ q[c] <= q[y]
        BY <1>2, <2>3, <2>4
      <4> QED
        BY <1>2, <2>4, <3>2, <4>1 DEF Follows
    <3>3. CASE x # c /\ x # l
      <4> DEFINE m == heap[x].next
      <4>1. x \in live /\ heap'[x] = heap[x] /\ m \in live \cup {NULL} /\ Follows(live, r, x, m)
        BY <1>t, <1>c, <1>2, <3>3
      <4>2. m # NULL
        <5>1. r[x] # r[l] /\ r[x] <= r[l] /\ r[x] \in Nat /\ r[l] \in Nat
          BY <1>c, <1>t, <2>2, <3>3, <4>1
        <5> QED
          BY <4>1, <5>1 DEF Follows
      <4>3. m \in live /\ r[x] < r[m] /\ \A y \in live : r[y] <= r[x] \/ r[m] <= r[y]
        BY <4>1, <4>2 DEF Follows
      <4> HIDE DEF m
      <4>4. q[x] < q[m] /\ q[m] <= q[c] /\ \A y \in live : q[y] <= q[x] \/ q[m] <= q[y]
        BY <2>1, <2>3, <2>4, <4>1, <4>3
      <4>5. Follows(live', q, x, m)
        BY <1>2, <4>2, <4>4 DEF Follows
      <4> QED
        BY <1>2, <4>1, <4>5 DEF m
    <3> QED
      BY <3>1, <3>2, <3>3
  <2>8. Chain(q)'
    BY <1>2, <2>5, <2>6, <2>7 DEF Chain
  <2> QED
    BY <2>1, <2>8
<1>3. PICK c \in Items \ live :
           /\ live' = live \cup {c}
           /\ heap'[c] = [fd |-> d, next |-> NULL]
           /\ \/ /\ live = {} /\ gOpenFdList' = c
                 /\ \A y \in Items \ {c} : heap'[y] = heap[y]
              \/ \E l \in live :
                   /\ gOpenFdList # NULL /\ gOpenFdList' = gOpenFdList
                   /\ heap[l].next = NULL
                   /\ heap'[l] = [fd |-> heap[l].fd, next |-> c]
                   /\ \A y \in Items \ {c, l} : heap'[y] = heap[y]
  BY InsertSpec
<1>4. heap'[c].next = NULL
  BY <1>3
<1>5. CASE live = {} /\ gOpenFdList' = c
  BY <1>1, <1>3, <1>4, <1>5
<1>6. CASE \E l \in live :
             /\ gOpenFdList # NULL /\ gOpenFdList' = gOpenFdList /\ heap[l].next = NULL
             /\ heap'[l] = [fd |-> heap[l].fd, next |-> c]
             /\ \A y \in Items \ {c, l} : heap'[y] = heap[y]
  <2>1. PICK l \in live :
             /\ gOpenFdList # NULL /\ gOpenFdList' = gOpenFdList /\ heap[l].next = NULL
             /\ heap'[l].next = c
             /\ \A y \in Items \ {c, l} : heap'[y] = heap[y]
    BY <1>6
  <2> QED
    BY <1>2, <1>3, <1>4, <2>1
<1> QED
  BY <1>3, <1>5, <1>6

(* list_item_remove in the course of a shutdown breaks no link.            *)
LEMMA LinksRemove ==
  ASSUME TypeOK, NEW r \in Ranks, Chain(r), NEW d \in Keys, list_item_remove(d),
         loop \notin {"idle", "quit"}, NEW S \in SUBSET Items, NEW q \in Ranks, Links(S, q)
  PROVE  /\ Links(S, q)'
         /\ \A x \in live' : x \in live /\ heap'[x].fd = heap[x].fd
<1>t. live \subseteq S /\ S \subseteq Items /\ NULL \notin Items
  BY FileAssumption DEF Links
<1>c. /\ \A x, y \in S : q[x] = q[y] => x = y
      /\ \A x \in S : heap[x].next \in S \cup {NULL} /\ Follows(live, q, x, heap[x].next)
  BY DEF Links
<1>1. CASE UNCHANGED list
  BY <1>1 DEF Links, list, Follows
<1>2. ASSUME NEW c \in live, live' = live \ {c}, \A y \in Items : heap'[y] = heap[y]
      PROVE  /\ Links(S, q)'
             /\ \A x \in live' : x \in live /\ heap'[x].fd = heap[x].fd
  <2>1. ASSUME NEW x \in S
        PROVE  heap'[x].next \in S \cup {NULL} /\ Follows(live', q, x, heap'[x].next)
    BY <1>t, <1>c, <1>2, FollowsLess
  <2> QED
    BY <1>t, <1>c, <1>2, <2>1 DEF Links
<1>3. ASSUME NEW c \in live, live' = live \ {c}, NEW p \in live, heap[p].next = c,
             heap'[p] = [fd |-> heap[p].fd, next |-> heap[c].next],
             \A y \in Items \ {p} : heap'[y] = heap[y]
      PROVE  /\ Links(S, q)'
             /\ \A x \in live' : x \in live /\ heap'[x].fd = heap[x].fd
  <2>1. ASSUME NEW x \in S
        PROVE  heap'[x].next \in S \cup {NULL} /\ Follows(live', q, x, heap'[x].next)
    <3>1. CASE x = p
      <4> DEFINE n == heap[c].next
      <4>1. n \in S \cup {NULL} /\ Follows(live, q, c, n) /\ Follows(live, q, p, c)
        BY <1>t, <1>c, <1>3
      <4> HIDE DEF n
      <4>2. Follows(live \ {c}, q, p, n)
        BY <1>t, <1>c, <4>1, FollowsCut
      <4> QED
        BY <1>3, <3>1, <4>1, <4>2 DEF n
    <3>2. CASE x # p
      BY <1>t, <1>c, <1>3, <3>2, FollowsLess
    <3> QED
      BY <3>1, <3>2
  <2>2. \A x \in live' : x \in live /\ heap'[x].fd = heap[x].fd
    BY <1>t, <1>3
  <2> QED
    BY <1>t, <1>c, <1>3, <2>1, <2>2 DEF Links
<1>4. ASSUME NEW c \in live, live' = live \ {c},
             heap'[c] = heap[c] \/ loop \in {"idle", "quit"},
             \/ \A y \in Items \ {c} : heap'[y] = heap[y]
             \/ \E p \in live \ {c} :
                  /\ heap[p].next = c
                  /\ heap'[p] = [fd |-> heap[p].fd, next |-> heap[c].next]
                  /\ \A y \in Items \ {c, p} : heap'[y] = heap[y]
      PROVE  /\ Links(S, q)'
             /\ \A x \in live' : x \in live /\ heap'[x].fd = heap[x].fd
  <2>1. heap'[c] = heap[c]
    BY <1>4
  <2>2. CASE \A y \in Items \ {c} : heap'[y] = heap[y]
    <3>1. \A y \in Items : heap'[y] = heap[y]
      BY <2>1, <2>2
    <3> QED
      BY <1>2, <1>4, <3>1
  <2>3. CASE \E p \in live \ {c} :
                  /\ heap[p].next = c
                  /\ heap'[p] = [fd |-> heap[p].fd, next |-> heap[c].next]
                  /\ \A y \in Items \ {c, p} : heap'[y] = heap[y]
    <3>1. PICK p \in live \ {c} :
                  /\ heap[p].next = c
                  /\ heap'[p] = [fd |-> heap[p].fd, next |-> heap[c].next]
                  /\ \A y \in Items \ {c, p} : heap'[y] = heap[y]
      BY <2>3
    <3>2. \A y \in Items \ {p} : heap'[y] = heap[y]
      BY <2>1, <3>1
    <3> QED
      BY <1>3, <1>4, <3>1, <3>2
  <2> QED
    BY <1>4, <2>2, <2>3
<1> QED
  BY <1>1, <1>4, RemoveSpec

(* pclFileClose takes d off the writable files that are open.              *)
LEMMA TrackedClose ==
  ASSUME TypeOK, NEW d \in Keys, Close(d), UNCHANGED kind
  PROVE  /\ TrackedFds' = TrackedFds \ {d}
         /\ get_file_permission(d) = "none" => d \notin Tree /\ UNCHANGED list
         /\ get_file_permission(d) # "none" => list_item_remove(d)
<1>t. Failed \notin Fds /\ kernel \in [Fds -> Files \cup {Free}]
  BY FileAssumption DEF TypeOK
<1>1. CASE get_file_permission(d) = "none"
  <2>1. d \notin Tree /\ Tree' = Tree /\ UNCHANGED <<kernel, list>>
    BY <1>1, CloseFacts DEF Close
  <2> QED
    BY <1>1, <2>1 DEF TrackedFds, Tracked
<1>2. CASE get_file_permission(d) # "none"
  <2>1. Tree' = Tree \ {d} /\ list_item_remove(d)
    BY <1>2, CloseFacts DEF Close
  <2>2. \A e \in Fds \ {d} : kernel'[e] = kernel[e]
    BY <1>t, <1>2, CloseFacts
  <2> QED
    BY <1>t, <1>2, <2>1, <2>2 DEF TrackedFds, Tracked
<1> QED
  BY <1>1, <1>2

(* list_item_remove takes the item of d off the list.                      *)
LEMMA TracksRemove ==
  ASSUME TypeOK, NEW r \in Ranks, Chain(r), Tracks, NEW d \in Keys, list_item_remove(d),
         TrackedFds' = TrackedFds \ {d}
  PROVE  Tracks'
<1>t. live \subseteq Items
  BY DEF TypeOK
<1>c. /\ \A x \in live : heap[x].fd \in TrackedFds \cup {Failed}
      /\ \A e \in TrackedFds : \E x \in live : heap[x].fd = e
      /\ \A x, y \in live : heap[x].fd = heap[y].fd => x = y \/ heap[x].fd = Failed
  BY DEF Tracks
<1>1. CASE UNCHANGED list /\ \A x \in live : heap[x].fd # d
  <2>1. TrackedFds' = TrackedFds
    BY <1>1, <1>c
  <2> QED
    BY <1>1, <1>c, <2>1 DEF Tracks, list
<1>2. ASSUME NEW c \in live, heap[c].fd = d, live' = live \ {c},
             \A x \in live' : heap'[x].fd = heap[x].fd
      PROVE  Tracks'
  <2>1. \A x \in live' : heap'[x].fd \in TrackedFds' \cup {Failed}
    BY <1>c, <1>2
  <2>2. \A e \in TrackedFds' : \E x \in live' : heap'[x].fd = e
    BY <1>c, <1>2
  <2>3. \A x, y \in live' : heap'[x].fd = heap'[y].fd => x = y \/ heap'[x].fd = Failed
    BY <1>c, <1>2
  <2> QED
    BY <2>1, <2>2, <2>3 DEF Tracks
<1>3. CASE \E c \in live :
              /\ heap[c].fd = d /\ live' = live \ {c}
              /\ \/ \A y \in Items \ {c} : heap'[y] = heap[y]
                 \/ \E p \in live \ {c} :
                      /\ heap'[p] = [fd |-> heap[p].fd, next |-> heap[c].next]
                      /\ \A y \in Items \ {c, p} : heap'[y] = heap[y]
  <2>1. PICK c \in live :
              /\ heap[c].fd = d /\ live' = live \ {c}
              /\ \/ \A y \in Items \ {c} : heap'[y] = heap[y]
                 \/ \E p \in live \ {c} :
                      /\ heap'[p] = [fd |-> heap[p].fd, next |-> heap[c].next]
                      /\ \A y \in Items \ {c, p} : heap'[y] = heap[y]
    BY <1>3
  <2>2. ASSUME NEW x \in live' PROVE heap'[x].fd = heap[x].fd
    <3>1. x \in Items \ {c}
      BY <1>t, <2>1
    <3>2. CASE \A y \in Items \ {c} : heap'[y] = heap[y]
      BY <3>1, <3>2
    <3>3. ASSUME NEW p \in live \ {c},
                 heap'[p] = [fd |-> heap[p].fd, next |-> heap[c].next],
                 \A y \in Items \ {c, p} : heap'[y] = heap[y]
          PROVE  heap'[x].fd = heap[x].fd
      <4>1. CASE x = p
        BY <3>3, <4>1
      <4>2. CASE x # p
        BY <3>1, <3>3, <4>2
      <4> QED
        BY <4>1, <4>2
    <3> QED
      BY <2>1, <3>2, <3>3
  <2> QED
    BY <1>2, <2>1, <2>2
<1> QED
  BY <1>1, <1>3, RemoveSpec

(* list_item_insert puts an item of d on the list.                         *)
LEMMA TracksInsert ==
  ASSUME TypeOK, NEW r \in Ranks, Chain(r), Tracks, NEW d \in Keys, list_item_insert(d),
         d \notin TrackedFds, TrackedFds' = TrackedFds \cup ({d} \ {Failed})
  PROVE  Tracks'
<1>t. live \subseteq Items
  BY DEF TypeOK
<1>c. /\ \A x \in live : heap[x].fd \in TrackedFds \cup {Failed}
      /\ \A e \in TrackedFds : \E x \in live : heap[x].fd = e
      /\ \A x, y \in live : heap[x].fd = heap[y].fd => x = y \/ heap[x].fd = Failed
  BY DEF Tracks
<1>1. PICK c \in Items \ live :
           /\ live' = live \cup {c}
           /\ heap'[c] = [fd |-> d, next |-> NULL]
           /\ \/ /\ live = {} /\ gOpenFdList' = c
                 /\ \A y \in Items \ {c} : heap'[y] = heap[y]
              \/ \E l \in live :
                   /\ gOpenFdList # NULL /\ gOpenFdList' = gOpenFdList
                   /\ heap[l].next = NULL
                   /\ heap'[l] = [fd |-> heap[l].fd, next |-> c]
                   /\ \A y \in Items \ {c, l} : heap'[y] = heap[y]
  BY InsertSpec
<1>2. heap'[c].fd = d /\ \A x \in live : heap'[x].fd = heap[x].fd
  <2>1. heap'[c].fd = d
    BY <1>1
  <2>2. ASSUME NEW x \in live PROVE heap'[x].fd = heap[x].fd
    <3>1. x \in Items \ {c}
      BY <1>t
    <3>2. ASSUME NEW l \in live, heap'[l] = [fd |-> heap[l].fd, next |-> c],
                 \A y \in Items \ {c, l} : heap'[y] = heap[y]
          PROVE  heap'[x].fd = heap[x].fd
      <4>1. CASE x = l
        BY <3>2, <4>1
      <4>2. CASE x # l
        BY <3>1, <3>2, <4>2
      <4> QED
        BY <4>1, <4>2
    <3> QED
      BY <1>1, <3>1, <3>2
  <2> QED
    BY <2>1, <2>2
<1>3. \A x \in live' : heap'[x].fd \in TrackedFds' \cup {Failed}
  BY <1>c, <1>1, <1>2
<1>4. \A e \in TrackedFds' : \E x \in live' : heap'[x].fd = e
  BY <1>c, <1>1, <1>2
<1>5. \A x, y \in live' : heap'[x].fd = heap'[y].fd => x = y \/ heap'[x].fd = Failed
  BY <1>c, <1>1, <1>2
<1> QED
  BY <1>3, <1>4, <1>5 DEF Tracks

(* A step that touches none of this keeps the list sound.                  *)
LEMMA SoundSame ==
  ASSUME Sound, UNCHANGED <<list, TrackedFds>>
  PROVE  Sound'
  BY DEF Sound, list, Tracks, Chain, Follows

(* pclFileClose keeps it sound, whoever calls it.                          *)
LEMMA SoundClose ==
  ASSUME TypeOK, Sound, NEW d \in Keys, Close(d), UNCHANGED kind
  PROVE  Sound'
<1>1. PICK r \in Ranks : Chain(r)
  BY DEF Sound
<1>2. CASE get_file_permission(d) = "none"
  <2>1. UNCHANGED list /\ TrackedFds' = TrackedFds
    BY <1>2, TrackedClose DEF TrackedFds
  <2> QED
    BY <2>1, SoundSame
<1>3. CASE get_file_permission(d) # "none"
  <2>1. list_item_remove(d) /\ TrackedFds' = TrackedFds \ {d}
    BY <1>3, TrackedClose
  <2>2. Chain(r)' /\ Tracks'
    BY <1>1, <2>1, ChainRemove, TracksRemove DEF Sound
  <2> QED
    BY <2>2 DEF Sound
<1> QED
  BY <1>2, <1>3

(* So does pclFileOpen, whether it succeeds ...                            *)
LEMMA SoundOpens ==
  ASSUME TypeOK, AgreeInv, Sound, NEW f \in Files, NEW d \in Fds, OpenSucceeds(f, d),
         UNCHANGED kind
  PROVE  Sound'
<1>t. Failed \notin Fds /\ Free \notin Files /\ kernel \in [Fds -> Files \cup {Free}]
  BY FileAssumption DEF TypeOK
<1>1. PICK r \in Ranks : Chain(r)
  BY DEF Sound
<1>2. kernel[d] = Free /\ kernel' = [kernel EXCEPT ![d] = f]
  BY DEF OpenSucceeds
<1>3. d \notin Tree /\ Tree' = Tree \cup {d}
  BY <1>2, OpenFacts DEF AgreeInv, TreeNamesKernel
<1>4. TrackedFds' = IF Tracked(f) THEN TrackedFds \cup {d} ELSE TrackedFds
  BY <1>t, <1>2, <1>3 DEF TrackedFds, Tracked
<1>5. CASE Tracked(f)
  <2>1. list_item_insert(d) /\ d \in Keys /\ d \notin TrackedFds
    BY <1>3, <1>5 DEF OpenSucceeds, Keys, TrackedFds
  <2>2. TrackedFds' = TrackedFds \cup ({d} \ {Failed})
    BY <1>t, <1>4, <1>5
  <2>3. Tracks'
    BY <1>1, <2>1, <2>2, TracksInsert DEF Sound
  <2>4. \E q \in Ranks : Chain(q)'
    BY <1>1, <2>1, ChainInsert
  <2> QED
    BY <2>3, <2>4 DEF Sound
<1>6. CASE ~ Tracked(f)
  BY <1>4, <1>6, SoundSame DEF OpenSucceeds
<1> QED
  BY <1>5, <1>6

(* ... or fails.                                                           *)
LEMMA SoundFails ==
  ASSUME TypeOK, Sound, NEW f \in Files, OpenFails(f), UNCHANGED kind
  PROVE  Sound'
<1>t. Failed \notin Fds /\ Failed \in Keys
  BY FileAssumption DEF Keys
<1>1. PICK r \in Ranks : Chain(r)
  BY DEF Sound
<1>2. TrackedFds' = TrackedFds
  BY <1>t, FailFacts DEF TrackedFds, Tracked, OpenFails
<1>3. CASE list_item_insert(Failed)
  <2>1. Failed \notin TrackedFds /\ TrackedFds' = TrackedFds \cup ({Failed} \ {Failed})
    BY <1>t, <1>2 DEF TrackedFds
  <2>2. Tracks'
    BY <1>t, <1>1, <1>3, <2>1, TracksInsert DEF Sound
  <2>3. \E q \in Ranks : Chain(q)'
    BY <1>t, <1>1, <1>3, ChainInsert
  <2> QED
    BY <2>2, <2>3 DEF Sound
<1>4. CASE UNCHANGED list
  BY <1>2, <1>4, SoundSame
<1> QED
  BY <1>3, <1>4 DEF OpenFails

(* A shutdown goes through its phases in order.                            *)
LEMMA PhaseStep == TypeOK /\ PhaseInv /\ [Next]_vars => PhaseInv'
<1> SUFFICES ASSUME TypeOK, PhaseInv, [Next]_vars PROVE PhaseInv'
  OBVIOUS
<1> USE DEF PhaseInv
<1>1. ASSUME UNCHANGED <<loop, mode, raced>> PROVE PhaseInv'
  BY <1>1
<1>2. ASSUME UNCHANGED <<loop, mode>>, Overlap PROVE PhaseInv'
  BY <1>2 DEF Overlap, Spoilt
<1>3. ASSUME NEW m \in {"partial", "full", "deinit"}, PrepareShutdown(m) PROVE PhaseInv'
  BY <1>3 DEF PrepareShutdown
<1>4. CASE IterateSync \/ IterateClose \/ IterateNext \/ IterateEnd
  <2>1. raced' = raced \/ raced' = Spoilt
    BY <1>4, ReadFacts DEF IterateSync, IterateClose, IterateNext, IterateEnd
  <2>2. /\ UNCHANGED mode /\ loop \in {"iterate", "next"}
        /\ loop' \in {"iterate", "next"} \/ loop' = IF mode = "partial" THEN "finish" ELSE "destroy"
    BY <1>4 DEF IterateSync, IterateClose, IterateNext, IterateEnd
  <2> QED
    BY <2>1, <2>2 DEF Spoilt, TypeOK
<1>5. CASE DestroyItem \/ DestroyEnd \/ ShutdownDone
  BY <1>5 DEF DestroyItem, DestroyEnd, ShutdownDone, TypeOK
<1>6. CASE DeinitLibrary \/ Die
  BY <1>6 DEF DeinitLibrary, Die
<1> HIDE DEF PhaseInv
<1> QED
  BY <1>1, <1>2, <1>3, <1>4, <1>5, <1>6
  DEF Next, Step, vars, main, OpenSucceeds, OpenFails, OpenRefused, Write, FileClose,
      FileCloseStale, FileCloseFailed, InitLibrary

(* An empty list is sound if no writable file is open.                     *)
LEMMA SoundEmpty ==
  ASSUME gOpenFdList = NULL, live = {}, TrackedFds = {}
  PROVE  Sound
<1>1. [x \in Items |-> 0] \in Ranks
  BY DEF Ranks
<1> QED
  BY <1>1 DEF Sound, Tracks, Chain

(* When the walk has come to its end, nothing is pending.                  *)
LEMMA WalkEnds ==
  ASSUME TypeOK, PhaseInv, ListInv, WalkInv, raced = "no", loop = "iterate", tmp = NULL
  PROVE  pending = {} /\ (mode # "partial" => TrackedFds = {})
<1>1. Sound
  BY DEF ListInv, Destroying
<1>2. pending \subseteq TrackedFds /\ (mode = "partial" \/ TrackedFds \subseteq pending)
  BY DEF WalkInv
<1>3. PICK S \in SUBSET Items, r \in Ranks : Walk(S, r)
  BY DEF WalkInv
<1>4. \A x \in live : heap[x].fd \notin pending
  BY <1>3 DEF Walk, Ahead
<1>5. \A d \in TrackedFds : \E x \in live : heap[x].fd = d
  BY <1>1 DEF Sound, Tracks
<1> QED
  BY <1>2, <1>4, <1>5

(* A list without a first item has no items.                               *)
LEMMA EmptyList == gOpenFdList = NULL => Positions = {}
<1> SUFFICES ASSUME gOpenFdList = NULL PROVE Positions = {}
  OBVIOUS
<1> DEFINE S == {n \in Nat : n <= N => Item[n] = NULL}
<1>1. 0 \in S
  BY ItemDef
<1>2. ASSUME NEW n \in Nat, n \in S PROVE n + 1 \in S
  BY <1>2, ItemDef, NType DEF After
<1> HIDE DEF S
<1>3. Nat \subseteq S
  BY <1>1, <1>2, Induction
<1>4. \A k \in 0 .. N : Item[k] = NULL
  BY <1>3, NType DEF S
<1> QED
  BY <1>4 DEF Positions, N

(* pclFileClose on a list that list_destroy has emptied.                   *)
LEMMA CloseEmpty ==
  ASSUME NEW d \in Keys, Close(d), gOpenFdList = NULL
  PROVE  gOpenFdList' = NULL
  BY EmptyList DEF Close, list_item_remove, list

(* The last steps of a shutdown keep the list sound, or leave it empty.    *)
LEMMA DoneSound ==
  ASSUME TypeOK, PhaseInv, ListInv, raced # "lasting", ShutdownDone, UNCHANGED kind
  PROVE  Sound' /\ (mode = "deinit" => TrackedFds' = {})
<1>1. /\ loop = "finish" /\ live' = {Item[k] : k \in Positions} /\ UNCHANGED gOpenFdList
      /\ heap' = [c \in Items |-> IF c \in live' THEN heap[c] ELSE Blank]
      /\ TrackedFds' = TrackedFds
  BY DEF ShutdownDone, TrackedFds, Tree, Tracked
<1>2. CASE mode = "partial"
  <2>1. Sound /\ live \subseteq Items
    BY <1>1, <1>2 DEF ListInv, Destroying, TypeOK
  <2>2. PICK r \in Ranks : Chain(r)
    BY <2>1 DEF Sound
  <2>3. live' = live
    BY <1>1, <2>2, ChainReaches
  <2>4. \A x \in live : heap'[x] = heap[x]
    BY <1>1, <2>1, <2>3
  <2>5. Chain(r)'
    BY <1>1, <2>2, <2>3, <2>4 DEF Chain, Follows
  <2>6. Tracks'
    BY <1>1, <2>1, <2>3, <2>4 DEF Sound, Tracks
  <2> QED
    BY <1>2, <2>5, <2>6 DEF Sound
<1>3. CASE mode # "partial"
  <2>1. TrackedFds' = {} /\ gOpenFdList' = NULL
    BY <1>1, <1>3 DEF ListInv, Destroying
  <2>2. live' = {}
    BY <1>1, <2>1, EmptyList
  <2>3. Sound'
    <3>1. [x \in Items |-> 0] \in Ranks
      BY DEF Ranks
    <3> QED
      BY <2>1, <2>2, <3>1 DEF Sound, Tracks, Chain
  <2> QED
    BY <2>1, <2>3
<1> QED
  BY <1>2, <1>3

(* No step breaks the list.                                                *)
LEMMA ListStep ==
  IInv /\ PhaseInv /\ ListInv /\ WalkInv /\ [Next]_vars => ListInv'
<1> SUFFICES ASSUME IInv, PhaseInv, ListInv, WalkInv, [Next]_vars, raced' # "lasting"
             PROVE  IF Destroying'
                    THEN /\ TrackedFds' = {} /\ pending' = {}
                         /\ loop' = "finish" => gOpenFdList' = NULL
                    ELSE Sound' /\ (loop' = "quit" => TrackedFds' = {})
  BY DEF ListInv
<1> DEFINE Goal == IF Destroying'
                   THEN /\ TrackedFds' = {} /\ pending' = {}
                        /\ loop' = "finish" => gOpenFdList' = NULL
                   ELSE Sound' /\ (loop' = "quit" => TrackedFds' = {})
<1>k. UNCHANGED kind
  BY DEF Next, vars
<1>f. TypeOK /\ AgreeInv
  BY DEF IInv
<1>i. raced # "lasting" =>
        IF Destroying
        THEN TrackedFds = {} /\ pending = {} /\ (loop = "finish" => gOpenFdList = NULL)
        ELSE Sound /\ (loop = "quit" => TrackedFds = {})
  BY DEF ListInv
<1>1. ASSUME UNCHANGED <<TrackedFds, list, loop, mode, pending, raced>> PROVE Goal
  <2>1. (Destroying' <=> Destroying) /\ UNCHANGED gOpenFdList
    BY <1>1 DEF Destroying, list
  <2> QED
    BY <1>i, <1>1, <2>1, SoundSame
<1>2. ASSUME UNCHANGED <<loop, mode>>, Overlap, Sound /\ loop # "quit" => Sound' PROVE Goal
  <2>1. raced # "lasting" /\ (loop = "idle" \/ mode = "partial")
    BY <1>2, <1>f DEF Overlap, Spoilt, PhaseInv, TypeOK
  <2>2. ~ Destroying /\ ~ Destroying' /\ loop # "quit"
    BY <1>2, <2>1 DEF Destroying, PhaseInv
  <2> QED
    BY <1>2, <1>i, <2>1, <2>2
<1>3. ASSUME NEW d \in Keys, Close(d), UNCHANGED <<loop, mode, raced>>, pending' \subseteq pending
      PROVE  Goal
  <2>1. (Destroying' <=> Destroying) /\ TrackedFds' \subseteq TrackedFds
    BY <1>3, <1>f, <1>k, TrackedClose DEF Destroying
  <2>2. CASE Destroying
    BY <1>3, <1>i, <2>1, <2>2, CloseEmpty
  <2>3. CASE ~ Destroying
    BY <1>3, <1>i, <1>f, <1>k, <2>1, <2>3, SoundClose
  <2> QED
    BY <2>2, <2>3
<1>4. CASE IterateClose
  <2>1. Sound /\ ~ Destroying'
    BY <1>4, <1>f, <1>i, ReadFacts DEF IterateClose, Destroying
  <2>2. \E d \in Keys : Close(d)
    BY <1>4 DEF IterateClose
  <2> QED
    BY <1>4, <1>f, <1>k, <2>1, <2>2, SoundClose DEF IterateClose
<1>5. ASSUME UNCHANGED <<TrackedFds, list>>, loop \in {"idle", "iterate", "next"},
             loop' \in {"iterate", "next"}, raced # "lasting"
      PROVE  Goal
  BY <1>5, <1>i, SoundSame DEF Destroying
<1>6. CASE IterateEnd
  <2>1. /\ UNCHANGED <<TrackedFds, list, pending, raced, mode>>
        /\ loop = "iterate" /\ tmp = NULL
    BY <1>6, <1>k DEF IterateEnd, TrackedFds, Tree, Tracked
  <2>2. CASE mode = "partial"
    BY <1>6, <1>i, <2>1, <2>2, SoundSame DEF IterateEnd, Destroying
  <2>3. CASE mode # "partial"
    <3>1. raced = "no" /\ loop' = "destroy"
      BY <1>6, <1>f, <2>1, <2>3 DEF IterateEnd, PhaseInv, TypeOK
    <3>2. TrackedFds = {} /\ pending = {}
      BY <1>f, <2>1, <2>3, <3>1, WalkEnds
    <3> QED
      BY <2>1, <3>1, <3>2 DEF Destroying
  <2> QED
    BY <2>2, <2>3
<1>7. CASE DestroyItem \/ DestroyEnd
  BY <1>7, <1>i, <1>k DEF DestroyItem, DestroyEnd, TrackedFds, Tree, Tracked, Destroying,
     PhaseInv
<1>8. CASE ShutdownDone
  BY <1>8, <1>f, <1>k, DoneSound DEF ShutdownDone, Destroying
<1>9. CASE DeinitLibrary
  <2>1. /\ Sound /\ TrackedFds = {} /\ ~ Destroying' /\ loop' = "idle"
        /\ UNCHANGED list
    BY <1>9, <1>i DEF DeinitLibrary, Destroying
  <2>2. TrackedFds' = {}
    BY <1>9 DEF DeinitLibrary, TrackedFds, Tree
  <2> QED
    BY <2>1, <2>2, SoundSame
<1>10. CASE Die
  <2>1. gOpenFdList' = NULL /\ live' = {} /\ TrackedFds' = {} /\ loop' = "idle"
    BY <1>10 DEF Die, TrackedFds, Tree
  <2>2. [x \in Items |-> 0] \in Ranks
    BY DEF Ranks
  <2>3. Sound'
    BY <2>1, <2>2 DEF Sound, Tracks, Chain
  <2> QED
    BY <2>1, <2>3 DEF Destroying
<1>11. ASSUME NEW f \in Files, NEW d \in Fds, OpenSucceeds(f, d) PROVE Goal
  BY <1>2, <1>11, <1>f, <1>k, SoundOpens DEF OpenSucceeds, main
<1>12. ASSUME NEW f \in Files, OpenFails(f) PROVE Goal
  BY <1>2, <1>12, <1>f, <1>k, SoundFails DEF OpenFails, main
<1>13. ASSUME NEW d \in Fds, Write(d) PROVE Goal
  BY <1>1, <1>13, <1>f, <1>k, WriteTree DEF Write, main, TrackedFds, Tracked
<1>14. ASSUME (\E h \in held : FileClose(h)) \/ (\E d \in Fds : FileCloseStale(d))
                \/ FileCloseFailed
       PROVE  Goal
  <2>1. \E d \in Keys : /\ Close(d) /\ UNCHANGED <<loop, mode, raced>>
                        /\ pending' \subseteq pending
    BY <1>14, <1>f DEF FileClose, FileCloseStale, FileCloseFailed, TypeOK, Keys, main
  <2> QED
    BY <1>3, <2>1
<1>15. ASSUME NEW m \in {"partial", "full", "deinit"}, PrepareShutdown(m) PROVE Goal
  BY <1>5, <1>15, <1>k DEF PrepareShutdown, TrackedFds, Tree, Tracked
<1>16. CASE IterateSync \/ IterateNext
  <2>1. raced # "lasting"
    BY <1>16, <1>f, ReadFacts DEF IterateSync, IterateNext
  <2> QED
    BY <1>5, <1>16, <1>k, <2>1 DEF IterateSync, IterateNext, TrackedFds, Tree, Tracked
<1>17. ASSUME (\E f \in Files : OpenRefused(f)) \/ InitLibrary \/ UNCHANGED vars PROVE Goal
  BY <1>1, <1>17, <1>k DEF OpenRefused, InitLibrary, vars, main, TrackedFds, Tree, Tracked
<1> QED
  BY <1>4, <1>6, <1>7, <1>8, <1>9, <1>10, <1>11, <1>12, <1>13, <1>14, <1>15, <1>16, <1>17
  DEF Next, Step

(* A pclFileClose that falls into the walk leaves the pending files ahead. *)
LEMMA WalkClose ==
  ASSUME TypeOK, Sound, loop \in {"iterate", "next"}, NEW S \in SUBSET Items, NEW r \in Ranks,
         Walk(S, r), NEW d \in Keys, Close(d), UNCHANGED kind, UNCHANGED tmp,
         pending' \subseteq pending
  PROVE  /\ Links(S, r)'
         /\ \A x \in live' : /\ x \in live /\ heap'[x].fd = heap[x].fd
                             /\ heap'[x].fd \in pending' =>
                                  /\ tmp # NULL
                                  /\ IF loop = "next" THEN r[tmp] < r[x] ELSE r[tmp] <= r[x]
<1>1. PICK q \in Ranks : Chain(q)
  BY DEF Sound
<1>2. Links(S, r)' /\ \A x \in live' : x \in live /\ heap'[x].fd = heap[x].fd
  <2>1. CASE UNCHANGED list
    BY <2>1 DEF Walk, Links, list, Follows
  <2>2. CASE list_item_remove(d)
    BY <1>1, <2>2, LinksRemove DEF Walk
  <2> QED
    BY <2>1, <2>2, TrackedClose
<1> QED
  BY <1>2 DEF Walk, Ahead

(* No step makes the walk miss a file.                                     *)
LEMMA WalkStep ==
  IInv /\ PhaseInv /\ ListInv /\ WalkInv /\ [Next]_vars => WalkInv'
<1> SUFFICES ASSUME IInv, PhaseInv, ListInv, WalkInv, [Next]_vars, raced' = "no"
             PROVE  /\ loop' \in {"iterate", "next"} =>
                         /\ pending' \subseteq TrackedFds'
                         /\ mode' = "partial" \/ TrackedFds' \subseteq pending'
                         /\ \E S \in SUBSET Items, r \in Ranks : Walk(S, r)'
                    /\ loop' = "finish" => pending' = {}
  BY DEF WalkInv
<1> DEFINE Goal == /\ loop' \in {"iterate", "next"} =>
                         /\ pending' \subseteq TrackedFds'
                         /\ mode' = "partial" \/ TrackedFds' \subseteq pending'
                         /\ \E S \in SUBSET Items, r \in Ranks : Walk(S, r)'
                   /\ loop' = "finish" => pending' = {}
<1>k. UNCHANGED kind
  BY DEF Next, vars
<1>f. TypeOK /\ AgreeInv /\ PlaceInv
  BY DEF IInv
<1>i. raced = "no" =>
        /\ loop \in {"iterate", "next"} =>
             /\ pending \subseteq TrackedFds /\ (mode = "partial" \/ TrackedFds \subseteq pending)
             /\ \E S \in SUBSET Items, r \in Ranks : Walk(S, r)
        /\ loop = "finish" => pending = {}
  BY DEF WalkInv
<1>s. raced = "no" /\ loop \in {"idle", "iterate", "next"} => Sound
  BY DEF ListInv, Destroying
<1>1. ASSUME UNCHANGED <<TrackedFds, list, main, raced>> PROVE Goal
  BY SMTT(20), <1>i, <1>1 DEF Walk, Links, Ahead, Follows, list, main
<1>2. ASSUME UNCHANGED main, Overlap PROVE Goal
  BY <1>2, <1>f DEF Overlap, Spoilt, TypeOK, main
<1>3. ASSUME NEW d \in Keys, Close(d), UNCHANGED <<loop, mode, tmp, raced>>,
             pending' = IF get_file_permission(d) = "none" THEN pending ELSE pending \ {d}
      PROVE  Goal
  <2>1. CASE loop \in {"iterate", "next"}
    <3>1. TrackedFds' = TrackedFds \ {d} /\ (get_file_permission(d) = "none" => d \notin Tree)
      BY <1>3, <1>f, <1>k, TrackedClose
    <3>2. pending' \subseteq TrackedFds' /\ (mode' = "partial" \/ TrackedFds' \subseteq pending')
      BY <1>3, <1>i, <2>1, <3>1 DEF TrackedFds
    <3>3. PICK S \in SUBSET Items, r \in Ranks : Walk(S, r)
      BY <1>3, <1>i, <2>1
    <3>4. Walk(S, r)'
      <4>1. /\ Links(S, r)'
            /\ \A x \in live' : heap'[x].fd \in pending' =>
                  tmp # NULL /\ (IF loop = "next" THEN r[tmp] < r[x] ELSE r[tmp] <= r[x])
        BY <1>3, <1>f, <1>k, <1>s, <2>1, <3>3, WalkClose
      <4>2. Ahead(r)'
        BY <1>3, <4>1 DEF Ahead
      <4> QED
        BY <1>3, <3>3, <4>1, <4>2 DEF Walk
    <3> QED
      BY <1>3, <2>1, <3>2, <3>4
  <2>2. CASE loop \notin {"iterate", "next"}
    BY <1>3, <1>i, <2>2
  <2> QED
    BY <2>1, <2>2
<1>4. CASE FileCloseFailed
  <2>1. Close(Failed) /\ Failed \in Keys /\ UNCHANGED <<loop, mode, tmp, raced, pending>>
    BY <1>4 DEF FileCloseFailed, Keys, main
  <2>2. pending \ {Failed} = pending
    BY <1>f, FileAssumption DEF TypeOK
  <2> QED
    BY <1>3, <2>1, <2>2
<1>5. ASSUME NEW h \in held, FileClose(h) PROVE Goal
  <2>1. h[1] \in Fds /\ h[1] \in Tree
    BY <1>f DEF AgreeInv, HeldNamesItsFile, TypeOK
  <2>2. get_file_permission(h[1]) # "none"
    BY <1>f, <2>1, TreeFacts DEF get_file_permission, Entries
  <2> QED
    BY <1>3, <1>5, <2>1, <2>2 DEF FileClose, Keys
<1>6. ASSUME NEW d \in Fds, FileCloseStale(d) PROVE Goal
  BY <1>3, <1>6 DEF FileCloseStale, Keys
<1>7. CASE IterateClose
  <2> DEFINE d == heap[tmp].fd
  <2>1. /\ loop = "iterate" /\ loop' = "next" /\ tmp # NULL /\ tmp \in Items /\ Close(d)
        /\ UNCHANGED <<mode, tmp, raced>> /\ d \in Keys /\ pending' \subseteq pending
        /\ pending' = IF get_file_permission(d) = "none" THEN pending ELSE pending \ {d}
    <3>1. raced = "no" /\ \A e \in Keys : Read(e, d) => e = d
      BY <1>7, <1>f, ReadFacts DEF IterateClose
    <3> QED
      BY <1>7, <1>f, <3>1 DEF IterateClose, TypeOK
  <2> HIDE DEF d
  <2>2. TrackedFds' = TrackedFds \ {d} /\ (get_file_permission(d) = "none" => d \notin Tree)
    BY <1>f, <1>k, <2>1, TrackedClose
  <2>3. /\ pending' \subseteq TrackedFds' /\ (mode' = "partial" \/ TrackedFds' \subseteq pending')
        /\ d \notin pending'
    BY <1>i, <2>1, <2>2 DEF TrackedFds
  <2>4. PICK S \in SUBSET Items, r \in Ranks : Walk(S, r)
    BY <1>i, <2>1
  <2>5. /\ Links(S, r)'
        /\ \A x \in live' : /\ x \in live /\ heap'[x].fd = heap[x].fd
                            /\ heap'[x].fd \in pending' => r[tmp] <= r[x]
    BY <1>f, <1>k, <1>s, <2>1, <2>4, WalkClose
  <2>6. ASSUME NEW x \in live', heap'[x].fd \in pending' PROVE r[tmp] < r[x]
    <3>1. x # tmp /\ r[tmp] <= r[x] /\ x \in S /\ tmp \in S
      BY <2>1, <2>3, <2>4, <2>5, <2>6 DEF d, Walk, Links
    <3>2. r[tmp] # r[x] /\ r[tmp] \in Nat /\ r[x] \in Nat
      BY <2>4, <3>1 DEF Walk, Links, Ranks
    <3> QED
      BY <3>1, <3>2
  <2>7. Ahead(r)'
    BY <2>1, <2>6 DEF Ahead
  <2>8. Walk(S, r)'
    BY <2>1, <2>4, <2>5, <2>7 DEF Walk
  <2> QED
    BY <2>1, <2>3, <2>8
<1>8. ASSUME NEW m \in {"partial", "full", "deinit"}, PrepareShutdown(m) PROVE Goal
  <2>1. /\ loop = "idle" /\ loop' = "iterate" /\ tmp' = gOpenFdList /\ pending' = TrackedFds
        /\ UNCHANGED list /\ TrackedFds' = TrackedFds /\ raced # "lasting"
    BY <1>8, <1>k DEF PrepareShutdown, TrackedFds, Tree, Tracked
  <2>2. Sound /\ live \subseteq Items
    BY <1>f, <2>1 DEF ListInv, Destroying, TypeOK
  <2>3. PICK r \in Ranks : Chain(r)
    BY <2>2 DEF Sound
  <2>4. Links(live, r)
    BY <2>3 DEF Chain, Links
  <2>5. (gOpenFdList \in live \cup {NULL})
          /\ \A x \in live : gOpenFdList # NULL /\ r[gOpenFdList] <= r[x]
    BY <2>3 DEF Chain
  <2>6. ASSUME NEW S \in SUBSET Items, S = live PROVE Walk(S, r)'
    <3>1. Links(S, r)'
      BY <2>1, <2>4, <2>6 DEF Links, list, Follows
    <3>2. Ahead(r)'
      BY <2>1, <2>5 DEF Ahead, list
    <3> QED
      BY <2>1, <2>5, <2>6, <3>1, <3>2 DEF Walk
  <2>7. \E S \in SUBSET Items : S = live
    BY <2>2
  <2> QED
    BY <2>1, <2>6, <2>7
<1>9. CASE IterateSync
  <2>1. /\ loop = "iterate" /\ loop' = "next" /\ tmp # NULL /\ tmp \in Items
        /\ mode' = "partial" /\ UNCHANGED <<tmp, raced, list, TrackedFds>>
        /\ pending' = pending \ {heap[tmp].fd}
    <3>1. raced = "no" /\ \A e \in Keys : Read(e, heap[tmp].fd) => e = heap[tmp].fd
      BY <1>9, <1>f, ReadFacts DEF IterateSync
    <3> QED
      BY <1>9, <1>f, <1>k, <3>1 DEF IterateSync, TypeOK, TrackedFds, Tree, Tracked
  <2>2. PICK S \in SUBSET Items, r \in Ranks : Walk(S, r)
    BY <1>i, <2>1
  <2>3. ASSUME NEW x \in live, heap[x].fd \in pending' PROVE r[tmp] < r[x]
    <3>1. x # tmp /\ r[tmp] <= r[x] /\ x \in S /\ tmp \in S
      BY <2>1, <2>2, <2>3 DEF Walk, Links, Ahead
    <3>2. r[tmp] # r[x] /\ r[tmp] \in Nat /\ r[x] \in Nat
      BY <2>2, <3>1 DEF Walk, Links, Ranks
    <3> QED
      BY <3>1, <3>2
  <2>4. Links(S, r)'
    BY <2>1, <2>2 DEF Walk, Links, list, Follows
  <2>5. Ahead(r)'
    BY <2>1, <2>3 DEF Ahead, list
  <2>6. Walk(S, r)'
    BY <2>1, <2>2, <2>4, <2>5 DEF Walk
  <2> QED
    BY <1>i, <2>1, <2>6
<1>10. CASE IterateNext
  <2>1. /\ loop = "next" /\ loop' = "iterate" /\ tmp # NULL /\ tmp' = heap[tmp].next
        /\ UNCHANGED <<raced, list, mode, pending, TrackedFds>>
    <3>1. /\ raced = "no"
          /\ \A c \in Items \cup {NULL} : Read(c, heap[tmp].next) => c = heap[tmp].next
      BY <1>10, <1>f, ReadFacts DEF IterateNext
    <3> QED
      BY <1>10, <1>f, <1>k, <3>1 DEF IterateNext, PlaceInv, TrackedFds, Tree, Tracked
  <2>2. PICK S \in SUBSET Items, r \in Ranks : Walk(S, r)
    BY <1>i, <2>1
  <2>3. /\ tmp \in S /\ tmp' \in S \cup {NULL} /\ Follows(live, r, tmp, tmp')
        /\ live \subseteq S /\ \A x \in S : r[x] \in Nat
    BY <2>1, <2>2 DEF Walk, Links, Ranks
  <2>4. ASSUME NEW x \in live, heap[x].fd \in pending PROVE tmp' # NULL /\ r[tmp'] <= r[x]
    <3>1. r[tmp] < r[x] /\ r[x] \in Nat /\ r[tmp] \in Nat
      BY <2>1, <2>2, <2>3, <2>4 DEF Walk, Ahead
    <3>2. tmp' # NULL
      BY <2>3, <3>1 DEF Follows
    <3>3. r[x] <= r[tmp] \/ r[tmp'] <= r[x]
      BY <2>3, <3>2 DEF Follows
    <3> QED
      BY <2>3, <3>1, <3>2, <3>3
  <2>5. Links(S, r)'
    BY <2>1, <2>2 DEF Walk, Links, list, Follows
  <2>6. Ahead(r)'
    BY <2>1, <2>4 DEF Ahead, list
  <2>7. Walk(S, r)'
    BY <2>3, <2>5, <2>6 DEF Walk
  <2> QED
    BY <1>i, <2>1, <2>7
<1>11. CASE IterateEnd
  <2>1. pending' = {}
    BY <1>11, <1>f, WalkEnds DEF IterateEnd
  <2> QED
    BY <1>11, <2>1 DEF IterateEnd
<1>12. CASE DestroyItem \/ DestroyEnd \/ ShutdownDone \/ DeinitLibrary \/ Die
  <2>1. DestroyEnd => pending = {}
    BY DEF DestroyEnd, ListInv, Destroying
  <2> QED
    BY <1>12, <2>1 DEF DestroyItem, DestroyEnd, ShutdownDone, DeinitLibrary, Die
<1>13. ASSUME NEW f \in Files, NEW d \in Fds, OpenSucceeds(f, d) PROVE Goal
  BY <1>2, <1>13 DEF OpenSucceeds
<1>14. ASSUME NEW f \in Files, OpenFails(f) PROVE Goal
  BY <1>2, <1>14 DEF OpenFails
<1>15. ASSUME NEW d \in Fds, Write(d) PROVE Goal
  BY <1>1, <1>15, <1>f, <1>k, WriteTree DEF Write, TrackedFds, Tracked
<1>16. ASSUME (\E f \in Files : OpenRefused(f)) \/ InitLibrary \/ UNCHANGED vars PROVE Goal
  BY <1>1, <1>16, <1>k DEF OpenRefused, InitLibrary, vars, TrackedFds, Tree, Tracked
<1> QED
  BY <1>4, <1>5, <1>6, <1>7, <1>8, <1>9, <1>10, <1>11, <1>12, <1>13, <1>14, <1>15, <1>16
  DEF Next, Step

(* The list and the walk, on top of the descriptors.                       *)
ShutdownInv == IInv /\ PhaseInv /\ ListInv /\ WalkInv

(* The list of the initial states is empty.                                *)
LEMMA ShutdownInit == Init => ShutdownInv
<1> SUFFICES ASSUME Init PROVE ShutdownInv
  OBVIOUS
<1>1. TrackedFds = {}
  BY DEF Init, TrackedFds, Tree
<1>2. Sound
  BY <1>1, SoundEmpty DEF Init
<1> QED
  BY <1>2, IInvInit DEF Init, ShutdownInv, PhaseInv, ListInv, WalkInv, Destroying

(* ShutdownInv is inductive.                                               *)
LEMMA ShutdownStep == ShutdownInv /\ [Next]_vars => ShutdownInv'
<1>1. IInv => TypeOK
  BY DEF IInv
<1> QED
  BY <1>1, IInvStep, PhaseStep, ListStep, WalkStep DEF ShutdownInv

(* Between shutdowns gOpenFdList has exactly the writable files that are   *)
(* open, each once, whatever was opened and closed before, unless an open  *)
(* fell into a full shutdown or freed memory misled one.                   *)
THEOREM ListTracksCorrect == Spec => []ListTracks
<1>1. ShutdownInv => ListTracks
  <2> SUFFICES ASSUME ShutdownInv, loop = "idle", raced # "lasting"
               PROVE  /\ Listed \ {Failed} = TrackedFds
                      /\ \A i, j \in Positions : heap[Item[i]].fd = heap[Item[j]].fd
                                      => i = j \/ heap[Item[i]].fd = Failed
    BY DEF ListTracks
  <2>1. TypeOK /\ Sound
    BY DEF ShutdownInv, IInv, ListInv, Destroying
  <2>2. PICK r \in Ranks : Chain(r)
    BY <2>1 DEF Sound
  <2>3. Failed \notin TrackedFds
    BY FileAssumption DEF TrackedFds
  <2>4. \A k \in Positions : Item[k] \in live
    BY <2>1, <2>2, ChainReaches
  <2>5. Listed = {heap[x].fd : x \in live}
    BY <2>1, <2>2, ChainReaches DEF Listed
  <2>6. Listed \ {Failed} = TrackedFds
    BY <2>1, <2>3, <2>5 DEF Sound, Tracks
  <2>7. ASSUME NEW i \in Positions, NEW j \in Positions, Item[i] = Item[j] PROVE i = j
    <3>1. /\ i \in 0 .. N /\ j \in 0 .. N /\ N \in Nat /\ Item[i] # NULL
          /\ r[Item[i]] \in Nat
      BY <2>1, <2>4, NType DEF Positions, N, Ranks, TypeOK
    <3>2. ~ (i \in 0 .. j - 1) /\ ~ (j \in 0 .. i - 1)
      BY <2>1, <2>2, <2>7, <3>1, ChainOrder
    <3> QED
      BY <3>1, <3>2
  <2> QED
    BY <2>1, <2>4, <2>6, <2>7 DEF Sound, Tracks
<1> QED
  BY <1>1, ShutdownInit, ShutdownStep, PTL DEF Spec

(* A shutdown without an open in its course syncs or closes every writable *)
(* file that was open when it began, whatever other threads close, if the  *)
(* freed items that the walk reads still hold what they held.              *)
THEOREM ShutdownReachesAllCorrect == Spec => []ShutdownReachesAll
<1>1. ShutdownInv => ShutdownReachesAll
  BY DEF ShutdownInv, WalkInv, ShutdownReachesAll
<1> QED
  BY <1>1, ShutdownInit, ShutdownStep, PTL DEF Spec

=============================================================================

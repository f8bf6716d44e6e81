----------------------------- MODULE Lifecycle ------------------------------
(***************************************************************************)
(* The gate that shuts the application out of its data during a shutdown:  *)
(* gLockAccess of persistence_client_library_pas_interface.c, the writers  *)
(* that look at it (pclKeyWriteData, pclFileWriteData), the requests that  *)
(* move it (pclLifecycleSet, the node state manager, the persistence       *)
(* administration service, pclInitLibrary, pclDeinitLibrary) and           *)
(* process_prepare_shutdown, which closes it and writes back.              *)
(*                                                                         *)
(* The main loop thread takes its commands from the pipe in order; here a  *)
(* command is one kind of request and the handshake of module MainLoop is  *)
(* left out.  pers_lock_access is two steps, a store and an atomic         *)
(* increment, as in the code, a writer's look at the gate and its write    *)
(* are two more, and so are the look at gCancelCounter and the unlock of a *)
(* cancel: pclLifecycleSet takes no mutex.                                 *)
(*                                                                         *)
(* Abstractions.  A writer stands for the one call that the API mutex      *)
(* (gKeyAPIAccessMtx, gFileAccessMtx) lets through at a time.  Data is     *)
(* only "written and not yet written back".  gInitMutex makes the counting *)
(* of pclInitLibrary and pclDeinitLibrary atomic.                          *)
(***************************************************************************)
EXTENDS Integers, Sequences

CONSTANTS
  Writers,            \* the key API, the file API
  UsePas,             \* USE_PASINTERFACE, a build option
  Shutdown_MaxCount,
  MaxInit,            \* bound on gPclInitCounter
  MaxShutdowns,       \* bound on gCancelCounter
  MaxUnlocks,         \* gLockAccess stays above - MaxUnlocks
  PipeCapacity        \* bound on the commands in the pipe

ASSUME CountAssumption == /\ Shutdown_MaxCount \in Nat /\ MaxShutdowns \in Nat
                          /\ MaxInit \in Nat \ {0} /\ PipeCapacity \in Nat \ {0}
                          /\ MaxUnlocks \in Nat \ {0}
ASSUME BuildAssumption == UsePas \in BOOLEAN

VARIABLES
  gPclInitCounter,
  registers,        \* gShutdownMode # PCL_SHUTDOWN_TYPE_NONE
  deinit,           \* where the last pclDeinitLibrary stands
  gLockAccess,
  gCancelCounter,
  canceling,        \* a cancel has passed its check and will unlock
  pipe,             \* commands for the main loop
  mainPc,           \* where the main loop thread stands
  cmd,              \* the command it works on
  writer,           \* where each writer stands
  unsynced,         \* data was written and not written back
  nsmWaits,         \* requests the NSM was told "response pending" for
  \* history variables
  gate,             \* what the locks and unlocks so far add up to
  lastRequest,      \* last accepted pclLifecycleSet since pclInitLibrary
  barred            \* the gate was closed with the limit reached

lib  == <<gPclInitCounter, registers, deinit>>
lock == <<gLockAccess, gate>>
main == <<mainPc, cmd, nsmWaits>>
app  == <<writer, unsynced>>
set  == <<gCancelCounter, canceling, lastRequest>>
vars == <<lib, lock, main, app, set, pipe, barred>>

(* CMD_LC_PREPARE_SHUTDOWN comes in three kinds: Shutdown_Partial and      *)
(* Shutdown_Full from the library itself, and the external one.            *)
Commands == {"partial", "full", "external", "block", "quit"}

(* What the NSM asks of a client registered for both kinds of shutdown.    *)
NsmRequests == {"normal", "fast"}

TypeOK ==
  /\ gPclInitCounter \in 0 .. MaxInit
  /\ registers \in BOOLEAN
  /\ deinit \in {"no", "quit", "join"}
  /\ gLockAccess \in - MaxUnlocks .. 1
  /\ gCancelCounter \in 0 .. MaxShutdowns
  /\ pipe \in Seq(Commands) /\ Len(pipe) <= PipeCapacity
  /\ mainPc \in {"poll", "store", "add", "flush", "ended"}
  /\ cmd \in Commands \cup {"none"}
  /\ writer \in [Writers -> {"idle", "entered", "admitted"}]
  /\ unsynced \in BOOLEAN
  /\ nsmWaits \subseteq NsmRequests
  /\ gate \in {"open", "closing", "locked"}
  /\ lastRequest \in {"none", "shutdown", "cancel"}
  /\ canceling \in BOOLEAN /\ barred \in BOOLEAN

Init ==
  /\ gPclInitCounter = 0 /\ registers = FALSE /\ deinit = "no"
  /\ gLockAccess = 0 /\ gate = "open"
  /\ pipe = <<>> /\ mainPc = "ended" /\ cmd = "none" /\ nsmWaits = {}
  /\ writer = [w \in Writers |-> "idle"] /\ unsynced = FALSE
  /\ gCancelCounter = 0 /\ lastRequest = "none" /\ canceling = FALSE /\ barred = FALSE

-----------------------------------------------------------------------------
(* The gate                                                                *)

(* pers_unlock_access: an atomic decrement, unconditional.                 *)
UnlockAccess ==
  /\ gLockAccess > - MaxUnlocks
  /\ gLockAccess' = gLockAccess - 1
  /\ gate' = "open"

(* isAccessLocked() = 1 refuses the caller, any other value admits it.     *)
AccessLocked == gLockAccess = 1

(* deliverToMainloop_NM: the write fails when the loop has ended.          *)
Post(c) ==
  IF mainPc = "ended" THEN UNCHANGED pipe
                      ELSE Len(pipe) < PipeCapacity /\ pipe' = Append(pipe, c)

-----------------------------------------------------------------------------
(* Writers                                                                 *)

(* gPclInitCounter is looked at before the API mutex is taken.             *)
WriteEnter(w) ==
  /\ writer[w] = "idle" /\ gPclInitCounter > 0
  /\ writer' = [writer EXCEPT ![w] = "entered"]
  /\ UNCHANGED <<lib, lock, main, set, pipe, unsynced>>

(* The gate is looked at; a refused caller gets EPERS_LOCKFS.              *)
WriteCheck(w) ==
  /\ writer[w] = "entered"
  /\ writer' = [writer EXCEPT ![w] = IF AccessLocked THEN "idle" ELSE "admitted"]
  /\ UNCHANGED <<lib, lock, main, set, pipe, unsynced>>

Write(w) ==
  /\ writer[w] = "admitted"
  /\ writer' = [writer EXCEPT ![w] = "idle"]
  /\ unsynced' = TRUE
  /\ UNCHANGED <<lib, lock, main, set, pipe>>

-----------------------------------------------------------------------------
(* pclLifecycleSet, which looks at gShutdownMode only                      *)

LifecycleSetShutdown ==
  /\ ~ registers
  /\ gCancelCounter < MaxShutdowns
  /\ Post("partial")
  /\ gCancelCounter' = gCancelCounter + 1
  /\ lastRequest' = "shutdown"
  /\ UNCHANGED <<lib, lock, main, app, canceling>>

(* Mutant: one cancel too many.                                            *)
LifecycleSetCancel_OffByOne ==
  /\ ~ registers /\ ~ canceling
  /\ gCancelCounter <= Shutdown_MaxCount
  /\ canceling' = TRUE
  /\ UNCHANGED <<lib, lock, main, app, gCancelCounter, lastRequest, pipe>>

(* Refused with EPERS_SHUTDOWN_MAX_CANCEL once the counter has reached the *)
(* maximum.  One cancel at a time.                                         *)
LifecycleSetCancel ==
  /\ ~ registers /\ ~ canceling
  /\ gCancelCounter < Shutdown_MaxCount
  /\ canceling' = TRUE
  /\ UNCHANGED <<lib, lock, main, app, gCancelCounter, lastRequest, pipe>>

(* It unlocks at once, whatever is still in the pipe, and whatever other   *)
(* threads have asked for since it looked at the counter.                  *)
CancelUnlock ==
  /\ canceling /\ canceling' = FALSE
  /\ UnlockAccess
  /\ lastRequest' = "cancel"
  /\ UNCHANGED <<lib, main, app, gCancelCounter, pipe>>

-----------------------------------------------------------------------------
(* Requests over D-Bus, handled on the main loop thread                    *)

(* Mutant: the request is queued as one of the library itself.             *)
NsmShutdown_Internal(r) ==
  /\ mainPc = "poll" /\ registers
  /\ IF r = "normal" THEN Post("full") ELSE UNCHANGED pipe
  /\ nsmWaits' = nsmWaits \cup {r}
  /\ UNCHANGED <<lib, lock, mainPc, cmd, app, set>>

(* msg_lifecycleRequest sends "response pending" for every request; then   *)
(* check_lc_request queues the command for a normal shutdown only.         *)
NsmShutdown(r) ==
  /\ mainPc = "poll" /\ registers
  /\ IF r = "normal" THEN Post("external") ELSE UNCHANGED pipe
  /\ nsmWaits' = nsmWaits \cup {r}
  /\ UNCHANGED <<lib, lock, mainPc, cmd, app, set>>

(* check_pas_request                                                       *)
PasBlock ==
  /\ UsePas /\ mainPc = "poll"
  /\ Post("block")
  /\ UNCHANGED <<lib, lock, main, app, set>>

PasUnblock ==
  /\ UsePas /\ mainPc = "poll"
  /\ UnlockAccess
  /\ UNCHANGED <<lib, main, app, set, pipe>>

-----------------------------------------------------------------------------
(* dispatchInternalCommand                                                 *)

(* Mutant: a partial shutdown is dropped.                                  *)
MainTake_NoPartial ==
  /\ mainPc = "poll" /\ pipe # <<>>
  /\ cmd' = Head(pipe) /\ pipe' = Tail(pipe)
  /\ mainPc' = CASE Head(pipe) = "quit"    -> "ended"
                 [] Head(pipe) = "partial" -> "poll"
                 [] OTHER                  -> "store"
  /\ UNCHANGED <<lib, lock, nsmWaits, app, set>>

MainTake ==
  /\ mainPc = "poll" /\ pipe # <<>>
  /\ cmd' = Head(pipe) /\ pipe' = Tail(pipe)
  /\ mainPc' = IF Head(pipe) = "quit" THEN "ended" ELSE "store"
  /\ UNCHANGED <<lib, lock, nsmWaits, app, set>>

(* Mutant: pers_lock_access only increments.                               *)
LockStore_Missing ==
  /\ mainPc = "store"
  /\ gate' = IF gate = "locked" THEN "locked" ELSE "closing"
  /\ mainPc' = "add"
  /\ UNCHANGED <<lib, gLockAccess, cmd, nsmWaits, app, set, pipe>>

(* pers_lock_access, first half: gLockAccess = 0.                          *)
LockStore ==
  /\ mainPc = "store"
  /\ gLockAccess' = 0
  /\ gate' = IF gate = "locked" THEN "locked" ELSE "closing"
  /\ mainPc' = "add"
  /\ UNCHANGED <<lib, cmd, nsmWaits, app, set, pipe>>

(* Second half: __sync_fetch_and_add.  An unlock in between wins.          *)
LockAdd ==
  /\ mainPc = "add"
  /\ gLockAccess' = gLockAccess + 1
  /\ gate' = IF gate = "open" THEN "open" ELSE "locked"
  /\ mainPc' = "flush"
  /\ UNCHANGED <<lib, cmd, nsmWaits, app, set, pipe>>

(* process_send_lifecycle_request: the node state manager is answered.     *)
SendLifecycleRequest == nsmWaits' = nsmWaits \ {"normal"}

(* The rest of process_prepare_shutdown: files synced or closed, tables    *)
(* and databases closed; then the answer if the request was external.      *)
MainFlush ==
  /\ mainPc = "flush" /\ cmd # "block"
  /\ unsynced' = FALSE
  /\ IF cmd = "external" THEN SendLifecycleRequest ELSE UNCHANGED nsmWaits
  /\ mainPc' = "poll" /\ cmd' = "none"
  /\ UNCHANGED <<lib, lock, set, pipe, writer>>

(* A PAS block writes nothing back and is only answered:                   *)
(* process_send_pas_request.                                               *)
MainBlocked ==
  /\ mainPc = "flush" /\ cmd = "block"
  /\ mainPc' = "poll" /\ cmd' = "none"
  /\ UNCHANGED <<lib, lock, nsmWaits, app, set, pipe>>

-----------------------------------------------------------------------------
(* pclInitLibrary and pclDeinitLibrary                                     *)

(* The first pclInitLibrary ends with pers_unlock_access; if the custom    *)
(* plugins fail to load it stops before, with the loop running.            *)
InitLibrary(mode) ==
  /\ gPclInitCounter = 0
  /\ registers' = mode
  /\ mainPc' = IF mainPc = "ended" THEN "poll" ELSE mainPc
  /\ \/ UnlockAccess /\ gPclInitCounter' = 1
     \/ UNCHANGED <<lock, gPclInitCounter>>
  /\ lastRequest' = "none"
  /\ UNCHANGED <<deinit, cmd, nsmWaits, app, gCancelCounter, canceling, pipe>>

InitAgain ==
  /\ deinit = "no" /\ gPclInitCounter \in 1 .. MaxInit - 1
  /\ gPclInitCounter' = gPclInitCounter + 1
  /\ UNCHANGED <<registers, deinit, lock, main, app, set, pipe>>

DeinitAgain ==
  /\ gPclInitCounter > 1
  /\ gPclInitCounter' = gPclInitCounter - 1
  /\ UNCHANGED <<registers, deinit, lock, main, app, set, pipe>>

(* private_pclDeinitLibrary posts the full shutdown, then CMD_QUIT.        *)
DeinitBegin ==
  /\ deinit = "no" /\ gPclInitCounter = 1
  /\ Post("full")
  /\ deinit' = "quit"
  /\ UNCHANGED <<gPclInitCounter, registers, lock, main, app, set>>

DeinitQuit ==
  /\ deinit = "quit"
  /\ Post("quit")
  /\ deinit' = "join"
  /\ UNCHANGED <<gPclInitCounter, registers, lock, main, app, set>>

(* The loop thread has ended; what is left in its pipe is lost.            *)
DeinitJoin ==
  /\ deinit = "join" /\ mainPc = "ended"
  /\ deinit' = "no" /\ gPclInitCounter' = 0
  /\ pipe' = <<>> /\ cmd' = "none" /\ nsmWaits' = {}
  /\ UNCHANGED <<registers, lock, mainPc, app, set>>

(* The gate is closed, the limit is reached, and no cancel that was        *)
(* accepted before is still to unlock.                                     *)
Final == gCancelCounter >= Shutdown_MaxCount /\ ~ canceling /\ AccessLocked
Bar   == barred' = (barred \/ Final')

MainStep == (MainTake \/ LockStore \/ LockAdd \/ MainFlush \/ MainBlocked) /\ Bar

AppStep ==
  \/ \E w \in Writers : WriteEnter(w) \/ WriteCheck(w) \/ Write(w)
  \/ LifecycleSetShutdown \/ LifecycleSetCancel \/ CancelUnlock
  \/ \E r \in NsmRequests : NsmShutdown(r)
  \/ PasBlock
  \/ InitAgain \/ DeinitAgain \/ DeinitBegin \/ DeinitQuit \/ DeinitJoin

(* The administration service and a new session may open the gate again.   *)
OpenStep == PasUnblock \/ \E mode \in BOOLEAN : InitLibrary(mode)

Next == MainStep \/ (AppStep /\ Bar) \/ (OpenStep /\ barred' = FALSE)

(* The main loop thread runs; D-Bus traffic does not keep it from its pipe *)
(* for ever.                                                               *)
Spec == Init /\ [][Next]_vars /\ WF_vars(MainStep)

-----------------------------------------------------------------------------
(* Properties                                                              *)

(* gLockAccess means what was asked for.  It is decremented without        *)
(* looking and may be any number below 1, so a lock works only because     *)
(* pers_lock_access starts from a fixed value; the exception is the moment *)
(* between its two halves.                                                 *)
GateFollowsRequests ==
  /\ (gate = "locked" /\ mainPc # "add") => AccessLocked
  /\ AccessLocked => gate = "locked"

(* Once the gate was closed with Shutdown_MaxCount shutdowns requested, it *)
(* refuses every writer until the library is initialised anew or the       *)
(* administration service unblocks the access, whatever is asked for by    *)
(* pclLifecycleSet, the node state manager and further inits and deinits.  *)
(* Two exceptions: between the two halves of a further pers_lock_access it *)
(* is open, and a cancel that looked at the counter before still unlocks   *)
(* (such a gate is not yet barred).                                        *)
LimitIsFinal == barred => AccessLocked \/ mainPc = "add"

(* The write-back of each PCL_SHUTDOWN that is in the pipe happens, unless *)
(* pclDeinitLibrary ends the loop, after a write-back of its own.          *)
ShutdownWritesBack ==
  (mainPc # "ended" /\ \E i \in 1 .. Len(pipe) : pipe[i] = "partial")
     ~> ((mainPc = "flush" /\ cmd = "partial") \/ mainPc = "ended")

(* For a normal shutdown the node state manager gets the                   *)
(* LifecycleRequestComplete it was promised, unless the library is         *)
(* deinitialised meanwhile.                                                *)
NsmIsAnswered ==
  ("normal" \in nsmWaits) ~> ("normal" \notin nsmWaits \/ mainPc = "ended")

(* persistence_client_library.h: to access data again the application      *)
(* calls pclLifecycleSet(PCL_SHUTDOWN_CANCEL).  When that was the last     *)
(* call and it was accepted, access is open once the loop is idle.         *)
CancelReopens ==
  (/\ gPclInitCounter > 0 /\ deinit = "no"
   /\ lastRequest = "cancel" /\ mainPc = "poll" /\ pipe = <<>>)
     => ~ AccessLocked

(* persistence_client_library.h: on PCL_SHUTDOWN the library writes back   *)
(* the data and blocks any further access: when the gate is closed and the *)
(* loop idle again, nothing is left that was not written back.             *)
WrittenBackWhenLocked ==
  (lastRequest = "shutdown" /\ gate = "locked" /\ mainPc = "poll" /\ pipe = <<>>)
     => ~ unsynced

=============================================================================

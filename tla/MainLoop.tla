------------------------------ MODULE MainLoop ------------------------------
(***************************************************************************)
(* The D-Bus main loop thread of persistence_client_library_dbus_service.c *)
(* and the threads that send it commands through the pipe gPipeFd:         *)
(* deliverToMainloop (the caller waits on gMainLoopCond) and               *)
(* deliverToMainloop_NM (it does not), with pclInitLibrary and             *)
(* pclDeinitLibrary, which start the loop, end it and join it.             *)
(*                                                                         *)
(* One action is the stretch between two points where another thread can   *)
(* interfere: taking a mutex, writing or reading the pipe, entering or     *)
(* leaving pthread_cond_wait, the unprotected reset of gMainLoopCondValue. *)
(*                                                                         *)
(* Abstractions.  A command is who sent it and of which kind it is.  What  *)
(* a command does is not modelled here; dispatching takes gFileAccessMtx,  *)
(* whose holders never wait for the loop.  Notification callbacks, which   *)
(* run on the loop thread, make no call of the library.  The pipe holds    *)
(* PipeCapacity commands.                                                  *)
(***************************************************************************)
EXTENDS Naturals, Sequences

CONSTANTS
  Threads,        \* threads of the application
  NoThread,       \* nobody
  PipeCapacity,   \* commands the pipe holds
  MaxInit         \* bound on gPclInitCounter

ASSUME BoundAssumption  == PipeCapacity \in Nat \ {0} /\ MaxInit \in Nat \ {0}

VARIABLES
  gPclInitCounter,
  gDbusMainloopRunning,
  gInitMutex,           \* its holder
  registers,            \* gShutdownMode # PCL_SHUTDOWN_TYPE_NONE
  pipe,                 \* commands written and not yet read
  pipeOpen,
  gDeliverpMtx,         \* its holder
  gMainCondMtx,         \* its holder
  gMainLoopCondValue,
  pc,                   \* where a thread stands in its call
  ret,                  \* where it goes on after deliverToMainloop
  mainPc,               \* where the loop thread stands
  hand,                 \* the command the loop has read
  \* history variables
  nmDispatched,         \* a command without waiting sender was dispatched
  raced                 \* a call has overlapped an init or deinit of another thread

lib  == <<gPclInitCounter, gDbusMainloopRunning, gInitMutex, registers>>
sync == <<gDeliverpMtx, gMainCondMtx, gMainLoopCondValue>>
loop == <<mainPc, hand, nmDispatched>>
vars == <<lib, pipe, pipeOpen, sync, pc, ret, loop, raced>>

Main == "main"    \* the loop thread as a sender or a holder

ASSUME ThreadAssumption == NoThread \notin Threads /\ Main \notin Threads \cup {NoThread}

(* "call" stands for the notification and registration commands that are   *)
(* sent with deliverToMainloop; "prepare" and "quit" are sent with _NM.    *)
Commands == [cmd : {"call"}, from : Threads]
              \cup [cmd : {"prepare", "quit"}, from : Threads]
              \cup [cmd : {"prepare"}, from : {Main}]
NoCommand == [cmd |-> "none", from |-> NoThread]

DeliverPcs == {"lockDeliver", "write", "lockCond", "check", "wait", "reset",
               "unlockDeliver"}
DeinitPcs  == {"prepare", "quit", "join"}
Pcs        == {"idle", "initEnd"} \cup DeliverPcs \cup DeinitPcs

TypeOK ==
  /\ gPclInitCounter \in 0 .. MaxInit
  /\ gDbusMainloopRunning \in {0, 1}
  /\ gInitMutex \in Threads \cup {NoThread}
  /\ registers \in BOOLEAN
  /\ pipe \in Seq(Commands) /\ Len(pipe) <= PipeCapacity
  /\ pipeOpen \in BOOLEAN
  /\ gDeliverpMtx \in Threads \cup {NoThread}
  /\ gMainCondMtx \in Threads \cup {Main, NoThread}
  /\ gMainLoopCondValue \in {0, 1}
  /\ pc \in [Threads -> Pcs]
  /\ ret \in [Threads -> {"idle", "initEnd", "prepare"}]
  /\ mainPc \in {"poll", "lock", "dispatch", "stuck", "exit", "ended"}
  /\ hand \in Commands \cup {NoCommand}
  /\ nmDispatched \in BOOLEAN /\ raced \in BOOLEAN

Init ==
  /\ gPclInitCounter = 0 /\ gDbusMainloopRunning = 0
  /\ gInitMutex = NoThread /\ registers = FALSE
  /\ pipe = <<>> /\ pipeOpen = FALSE
  /\ gDeliverpMtx = NoThread /\ gMainCondMtx = NoThread
  /\ gMainLoopCondValue = 0
  /\ pc = [t \in Threads |-> "idle"]
  /\ ret = [t \in Threads |-> "idle"]
  /\ mainPc = "ended" /\ hand = NoCommand
  /\ nmDispatched = FALSE /\ raced = FALSE

Goto(t, label) == pc' = [pc EXCEPT ![t] = label]

(* Nothing keeps a call from overlapping an init or deinit.                *)
Overlap == \E t, u \in Threads : t # u /\ gInitMutex = t /\ pc[u] # "idle"
History == raced' = (raced \/ Overlap')

-----------------------------------------------------------------------------
(* The pipe                                                                *)

(* write(gPipeFd[1]): blocks while the pipe is full, fails once the loop   *)
(* has closed it.                                                          *)
WritePipe(c) ==
  \/ pipeOpen /\ Len(pipe) < PipeCapacity /\ pipe' = Append(pipe, c)
  \/ ~ pipeOpen /\ UNCHANGED pipe

(* pclLifecycleSet(PCL_SHUTDOWN), one deliverToMainloop_NM.  It does not   *)
(* look at gPclInitCounter.                                                *)
LifecycleSet(t) ==
  /\ pc[t] = "idle"
  /\ ~ registers
  /\ WritePipe([cmd |-> "prepare", from |-> t])
  /\ UNCHANGED <<lib, pipeOpen, sync, pc, ret, loop>>

-----------------------------------------------------------------------------
(* deliverToMainloop                                                       *)

EnterDeliver(t, then) ==
  /\ Goto(t, "lockDeliver")
  /\ ret' = [ret EXCEPT ![t] = then]

(* A call of the key API that notifies or registers.                       *)
DeliverToMainloop(t) ==
  /\ pc[t] = "idle" /\ gPclInitCounter > 0
  /\ EnterDeliver(t, "idle")
  /\ UNCHANGED <<lib, pipe, pipeOpen, sync, loop>>

LockDeliver(t) ==
  /\ pc[t] = "lockDeliver" /\ gDeliverpMtx = NoThread
  /\ gDeliverpMtx' = t
  /\ Goto(t, "write")
  /\ UNCHANGED <<lib, pipe, pipeOpen, gMainCondMtx, gMainLoopCondValue, ret, loop>>

(* The caller goes on to wait even if the write failed.                    *)
DeliverWrite(t) ==
  /\ pc[t] = "write"
  /\ WritePipe([cmd |-> "call", from |-> t])
  /\ Goto(t, "lockCond")
  /\ UNCHANGED <<lib, pipeOpen, sync, ret, loop>>

LockCond(t) ==
  /\ pc[t] = "lockCond" /\ gMainCondMtx = NoThread
  /\ gMainCondMtx' = t
  /\ Goto(t, "check")
  /\ UNCHANGED <<lib, pipe, pipeOpen, gDeliverpMtx, gMainLoopCondValue, ret, loop>>

(* while(0 == gMainLoopCondValue) pthread_cond_wait(...), which gives the  *)
(* mutex back, as the unlock after the loop does.                          *)
CheckCond(t) ==
  /\ pc[t] = "check"
  /\ Goto(t, IF gMainLoopCondValue = 0 THEN "wait" ELSE "reset")
  /\ gMainCondMtx' = NoThread
  /\ UNCHANGED <<lib, pipe, pipeOpen, gDeliverpMtx, gMainLoopCondValue, ret, loop>>

(* pthread_cond_wait may return without a signal.                          *)
SpuriousWakeup(t) ==
  /\ pc[t] = "wait"
  /\ Goto(t, "lockCond")
  /\ UNCHANGED <<lib, pipe, pipeOpen, sync, ret, loop>>

(* Mutant: the value is not reset.                                         *)
ResetCond_Missing(t) ==
  /\ pc[t] = "reset"
  /\ Goto(t, "unlockDeliver")
  /\ UNCHANGED <<lib, pipe, pipeOpen, sync, ret, loop>>

(* gMainLoopCondValue = 0, outside gMainCondMtx.                           *)
ResetCond(t) ==
  /\ pc[t] = "reset"
  /\ gMainLoopCondValue' = 0
  /\ Goto(t, "unlockDeliver")
  /\ UNCHANGED <<lib, pipe, pipeOpen, gDeliverpMtx, gMainCondMtx, ret, loop>>

UnlockDeliver(t) ==
  /\ pc[t] = "unlockDeliver"
  /\ gDeliverpMtx' = NoThread
  /\ Goto(t, ret[t])
  /\ UNCHANGED <<lib, pipe, pipeOpen, gMainCondMtx, gMainLoopCondValue, ret, loop>>

-----------------------------------------------------------------------------
(* mainLoop                                                                *)

MainRead ==
  /\ mainPc = "poll" /\ pipe # <<>>
  /\ hand' = Head(pipe) /\ pipe' = Tail(pipe)
  /\ mainPc' = "lock"
  /\ UNCHANGED <<lib, pipeOpen, sync, pc, ret, nmDispatched>>

MainLock ==
  /\ mainPc = "lock" /\ gMainCondMtx = NoThread
  /\ gMainCondMtx' = Main
  /\ mainPc' = "dispatch"
  /\ UNCHANGED <<lib, pipe, pipeOpen, gDeliverpMtx, gMainLoopCondValue, pc, ret,
                 hand, nmDispatched>>

(* gMainLoopCondValue = 1, pthread_cond_signal, unlock.                    *)
WakeUp ==
  /\ gMainLoopCondValue' = 1
  /\ pc' = [t \in Threads |-> IF pc[t] = "wait" THEN "lockCond" ELSE pc[t]]
  /\ gMainCondMtx' = NoThread

(* Mutant: the condition is set and nobody is signalled.                   *)
MainDispatch_NoSignal ==
  /\ mainPc = "dispatch"
  /\ gMainLoopCondValue' = 1
  /\ gMainCondMtx' = NoThread
  /\ mainPc' = IF hand.cmd = "quit" THEN "exit" ELSE "poll"
  /\ hand' = NoCommand
  /\ nmDispatched' = (nmDispatched \/ hand.cmd # "call")
  /\ UNCHANGED <<lib, pipe, pipeOpen, gDeliverpMtx, pc, ret>>

(* dispatchInternalCommand; whatever the command, somebody is told.        *)
MainDispatch ==
  /\ mainPc = "dispatch"
  /\ WakeUp
  /\ mainPc' = IF hand.cmd = "quit" THEN "exit" ELSE "poll"
  /\ hand' = NoCommand
  /\ nmDispatched' = (nmDispatched \/ hand.cmd # "call")
  /\ UNCHANGED <<lib, pipe, pipeOpen, gDeliverpMtx, ret>>

(* close(gPipeFd): commands still in it are lost.                          *)
MainExit ==
  /\ mainPc = "exit"
  /\ mainPc' = "ended"
  /\ pipe' = <<>> /\ pipeOpen' = FALSE
  /\ UNCHANGED <<lib, sync, pc, ret, hand, nmDispatched>>

(* A D-Bus request (NSM shutdown, PAS block) is handled on the loop thread *)
(* and posts a command to the pipe: check_lc_request, check_pas_request.   *)
(* If the pipe is full the loop waits for ever: nobody else reads it.      *)
DbusRequest ==
  /\ mainPc = "poll"
  /\ IF Len(pipe) < PipeCapacity
       THEN pipe' = Append(pipe, [cmd |-> "prepare", from |-> Main]) /\ UNCHANGED mainPc
       ELSE mainPc' = "stuck" /\ UNCHANGED pipe
  /\ UNCHANGED <<lib, pipeOpen, sync, pc, ret, hand, nmDispatched>>

-----------------------------------------------------------------------------
(* pclInitLibrary and pclDeinitLibrary                                     *)

(* register_lifecycle, unless gShutdownMode says not to register.          *)
RegisterLifecycle(t, mode) ==
  IF mode THEN EnterDeliver(t, "initEnd") ELSE Goto(t, "initEnd") /\ UNCHANGED ret

(* unregister_lifecycle, under the same condition.                         *)
UnregisterLifecycle(t) ==
  IF registers THEN EnterDeliver(t, "prepare") ELSE Goto(t, "prepare") /\ UNCHANGED ret

(* The first pclInitLibrary: setup_dbus_mainloop unless a failed init left *)
(* the loop running, then register_lifecycle.                              *)
InitBegin(t, mode) ==
  /\ pc[t] = "idle"
  /\ gInitMutex = NoThread /\ gPclInitCounter = 0
  /\ gInitMutex' = t
  /\ registers' = mode
  /\ gDbusMainloopRunning' = 1
  /\ IF gDbusMainloopRunning = 0
       THEN pipe' = <<>> /\ pipeOpen' = TRUE /\ mainPc' = "poll"
       ELSE UNCHANGED <<pipe, pipeOpen, mainPc>>
  /\ RegisterLifecycle(t, mode)
  /\ UNCHANGED <<gPclInitCounter, sync, hand, nmDispatched>>

(* setup_dbus_mainloop fails: only gShutdownMode has changed.              *)
InitNoLoop(t, mode) ==
  /\ pc[t] = "idle"
  /\ gInitMutex = NoThread /\ gPclInitCounter = 0 /\ gDbusMainloopRunning = 0
  /\ registers' = mode
  /\ UNCHANGED <<gPclInitCounter, gDbusMainloopRunning, gInitMutex, pipe,
                 pipeOpen, sync, pc, ret, loop>>

(* load_custom_plugins may fail; the loop then runs on, uncounted.         *)
InitEnd(t) ==
  /\ pc[t] = "initEnd"
  /\ \/ gPclInitCounter' = gPclInitCounter + 1
     \/ UNCHANGED gPclInitCounter
  /\ gInitMutex' = NoThread
  /\ Goto(t, "idle")
  /\ UNCHANGED <<gDbusMainloopRunning, registers, pipe, pipeOpen, sync, ret, loop>>

InitAgain(t) ==
  /\ pc[t] = "idle" /\ gInitMutex = NoThread
  /\ gPclInitCounter > 0 /\ gPclInitCounter < MaxInit
  /\ gPclInitCounter' = gPclInitCounter + 1
  /\ UNCHANGED <<gDbusMainloopRunning, gInitMutex, registers, pipe, pipeOpen,
                 sync, pc, ret, loop>>

DeinitAgain(t) ==
  /\ pc[t] = "idle" /\ gInitMutex = NoThread
  /\ gPclInitCounter > 1
  /\ gPclInitCounter' = gPclInitCounter - 1
  /\ UNCHANGED <<gDbusMainloopRunning, gInitMutex, registers, pipe, pipeOpen,
                 sync, pc, ret, loop>>

(* The last pclDeinitLibrary; unregister_lifecycle comes first.            *)
DeinitBegin(t) ==
  /\ pc[t] = "idle"
  /\ gInitMutex = NoThread /\ gPclInitCounter = 1
  /\ gInitMutex' = t
  /\ UnregisterLifecycle(t)
  /\ UNCHANGED <<gPclInitCounter, gDbusMainloopRunning, registers, pipe,
                 pipeOpen, sync, loop>>

DeinitPrepare(t) ==
  /\ pc[t] = "prepare"
  /\ WritePipe([cmd |-> "prepare", from |-> t])
  /\ Goto(t, "quit")
  /\ UNCHANGED <<lib, pipeOpen, sync, ret, loop>>

(* Mutant: the loop is joined without being told to end.                   *)
DeinitQuit_NotSent(t) ==
  /\ pc[t] = "quit"
  /\ Goto(t, "join")
  /\ UNCHANGED <<lib, pipe, pipeOpen, sync, ret, loop>>

DeinitQuit(t) ==
  /\ pc[t] = "quit"
  /\ WritePipe([cmd |-> "quit", from |-> t])
  /\ Goto(t, "join")
  /\ UNCHANGED <<lib, pipeOpen, sync, ret, loop>>

(* Mutant: gDbusMainloopRunning stays set.                                 *)
DeinitJoin_StillRunning(t) ==
  /\ pc[t] = "join" /\ mainPc = "ended"
  /\ gPclInitCounter' = gPclInitCounter - 1
  /\ gInitMutex' = NoThread
  /\ Goto(t, "idle")
  /\ UNCHANGED <<gDbusMainloopRunning, registers, pipe, pipeOpen, sync, ret, loop>>

(* pthread_join; the counter is decremented only now.                      *)
DeinitJoin(t) ==
  /\ pc[t] = "join" /\ mainPc = "ended"
  /\ gDbusMainloopRunning' = 0
  /\ gPclInitCounter' = gPclInitCounter - 1
  /\ gInitMutex' = NoThread
  /\ Goto(t, "idle")
  /\ UNCHANGED <<registers, pipe, pipeOpen, sync, ret, loop>>

-----------------------------------------------------------------------------
(* The steps that end a call which has begun.                              *)
CallStep(t) ==
  /\ \/ LockDeliver(t) \/ DeliverWrite(t) \/ LockCond(t) \/ CheckCond(t)
     \/ ResetCond(t) \/ UnlockDeliver(t)
     \/ InitEnd(t)
     \/ DeinitPrepare(t) \/ DeinitQuit(t) \/ DeinitJoin(t)
  /\ History

(* The steps that begin a call, or are one, and the wakeup without reason. *)
BeginStep(t) ==
  /\ \/ SpuriousWakeup(t)
     \/ DeliverToMainloop(t) \/ LifecycleSet(t)
     \/ \E mode \in BOOLEAN : InitBegin(t, mode) \/ InitNoLoop(t, mode)
     \/ InitAgain(t) \/ DeinitAgain(t) \/ DeinitBegin(t)
  /\ History

MainStep == (MainRead \/ MainLock \/ MainDispatch \/ MainExit) /\ History

Next == \/ \E t \in Threads : CallStep(t) \/ BeginStep(t)
        \/ MainStep
        \/ DbusRequest /\ History

(* Every thread runs.  Fairness is strong because CallStep and MainStep    *)
(* take mutexes: a thread that waits for one is not overtaken for ever.    *)
Fairness == SF_vars(MainStep) /\ \A t \in Threads : SF_vars(CallStep(t))

Spec == Init /\ [][Next]_vars /\ Fairness

-----------------------------------------------------------------------------
(* Properties                                                              *)

InPipe(t, kinds) ==
  \E i \in 1 .. Len(pipe) : pipe[i].from = t /\ pipe[i].cmd \in kinds

(* A command that t sent with deliverToMainloop is still undispatched.     *)
Outstanding(t) == InPipe(t, {"call"}) \/ hand = [cmd |-> "call", from |-> t]

(* A thread sleeps in deliverToMainloop, and no command of its own is on   *)
(* its way to a loop that will signal for it.                              *)
Stranded == \E t \in Threads : pc[t] = "wait" /\ ~ Outstanding(t)

(* No wakeup is lost, as long as no call overlaps an init or deinit: the   *)
(* reset of gMainLoopCondValue outside gMainCondMtx never erases the       *)
(* signal another caller waits for.                                        *)
NoLostWakeup == ~ raced => ~ Stranded

(* deliverToMainloop returns before its command was dispatched only when   *)
(* a deliverToMainloop_NM command, which nobody waits for, has left        *)
(* gMainLoopCondValue set.                                                 *)
EarlyReturnIsStale ==
  \A t \in Threads :
     (pc[t] = "unlockDeliver" /\ Outstanding(t)) => nmDispatched

(* No command whose sender was told it is delivered is lost at CMD_QUIT,   *)
(* not even one whose sender returned early.                               *)
NoCallLostAtQuit ==
  mainPc = "exit" => \A t \in Threads : ~ InPipe(t, {"call"})

(* While the library is initialised and nobody is initialising or          *)
(* deinitialising it, the loop runs and its pipe is open; never is a pipe  *)
(* set up while a loop still reads the old one.                            *)
InitialisedMeansRunning ==
  /\ (gPclInitCounter > 0 /\ gInitMutex = NoThread)
        => pipeOpen /\ mainPc \notin {"exit", "ended"}
  /\ gDbusMainloopRunning = 0 => mainPc = "ended" /\ ~ pipeOpen

(* What holds at every moment of a session: the loop is there exactly as   *)
(* long as gPclInitCounter and gDbusMainloopRunning say, and when it ends  *)
(* it leaves no command behind whose sender was told it is delivered,      *)
(* unless that call overlapped the deinit.                                 *)
LoopServes == TypeOK /\ InitialisedMeansRunning /\ (~ raced => NoCallLostAtQuit)

(* Every call returns: a blocking delivery, pclInitLibrary and             *)
(* pclDeinitLibrary, which joins the loop.  There are two exceptions.  The *)
(* loop posts to its own full pipe, and waits for itself.  And a call that *)
(* overlaps the deinit of another thread may write to a pipe that nobody   *)
(* reads any more: it waits for ever, and so do all who call after it.     *)
EveryCallReturns ==
  \A t \in Threads :
     pc[t] # "idle" ~> (pc[t] = "idle" \/ mainPc = "stuck" \/ Stranded)

=============================================================================

--------------------------- MODULE MainLoopProofs ---------------------------
(***************************************************************************)
(* The handshake between the threads of the application and the main loop, *)
(* proved for any number of threads and any capacity of the pipe.          *)
(***************************************************************************)
EXTENDS MainLoop, TLAPS

(* The stretches in which a thread holds a mutex.                          *)
InDelivery  == {"write", "lockCond", "check", "wait", "reset", "unlockDeliver"}
Initing(t)  == pc[t] = "initEnd" \/ (pc[t] \in DeliverPcs /\ ret[t] = "initEnd")
Deiniting(t) == pc[t] \in DeinitPcs \/ (pc[t] \in DeliverPcs /\ ret[t] = "prepare")

(* Each mutex is held by the thread that stands between its lock and its   *)
(* unlock, and gPclInitCounter does not move while gInitMutex is held.     *)
MutexInv ==
  /\ \A t \in Threads : gDeliverpMtx = t <=> pc[t] \in InDelivery
  /\ \A t \in Threads : gMainCondMtx = t <=> pc[t] = "check"
  /\ gMainCondMtx = Main <=> mainPc = "dispatch"
  /\ \A t \in Threads : gInitMutex = t <=> Initing(t) \/ Deiniting(t)
  /\ \A t \in Threads : /\ Initing(t) => gPclInitCounter = 0
                        /\ Deiniting(t) => gPclInitCounter = 1

(* The loop thread: what it has read, that its pipe lives as long as it    *)
(* does, and that nothing is left in a closed pipe.                        *)
LoopInv ==
  /\ hand # NoCommand <=> mainPc \in {"lock", "dispatch"}
  /\ pipeOpen <=> mainPc # "ended"
  /\ ~ pipeOpen => pipe = <<>>
  /\ gDbusMainloopRunning = 0 => mainPc = "ended"

(* Only the holder of gDeliverpMtx resets the condition.                   *)
CondInv ==
  \A t \in Threads : /\ pc[t] = "wait"  => gMainLoopCondValue = 0
                     /\ pc[t] = "reset" => gMainLoopCondValue = 1

IsCall(i) == pipe[i].cmd = "call"

(* As long as every dispatched command had a waiting sender, there is at   *)
(* most one such command, its sender has not been told, and the condition  *)
(* is set only for the caller that is about to see it.                     *)
ExactInv ==
  ~ nmDispatched =>
    /\ \A t \in Threads : Outstanding(t) =>
          pc[t] \in {"lockCond", "check", "wait"} /\ gMainLoopCondValue = 0
    /\ \A i, j \in 1 .. Len(pipe) : IsCall(i) /\ IsCall(j) => i = j
    /\ hand.cmd = "call" => \A i \in 1 .. Len(pipe) : ~ IsCall(i)
    /\ gMainLoopCondValue = 1 =>
          \E t \in Threads : pc[t] \in {"lockCond", "check", "reset"}

IInv == TypeOK /\ MutexInv /\ LoopInv /\ CondInv /\ ExactInv

-----------------------------------------------------------------------------
(* The loop and those who start and end it.                                *)

Joining == \E t \in Threads : pc[t] = "join"

(* The loop ends only for a pclDeinitLibrary that waits to join it.        *)
RunInv ==
  /\ (gPclInitCounter > 0 \/ gInitMutex # NoThread) => gDbusMainloopRunning = 1
  /\ (gDbusMainloopRunning = 1 /\ mainPc \in {"exit", "ended"}) => Joining
  /\ hand.cmd = "quit" => Joining
  /\ \A i \in 1 .. Len(pipe) : pipe[i].cmd = "quit" => Joining

(* What holds in addition as long as no call overlaps an init or deinit.   *)

(* Nobody else is in a call during an init or deinit, and whoever is in a  *)
(* call has a loop to talk to.                                             *)
AloneInv ==
  /\ ~ Overlap
  /\ \A t \in Threads : pc[t] # "idle" => gDbusMainloopRunning = 1
  /\ \A t \in Threads : pc[t] # "idle" /\ gInitMutex = NoThread => gPclInitCounter > 0

(* No command that somebody waits for comes after CMD_QUIT.                *)
QuitInv ==
  /\ \A i, j \in 1 .. Len(pipe) : pipe[i].cmd = "quit" /\ IsCall(j) => j < i
  /\ (hand.cmd = "quit" \/ mainPc = "exit") => \A i \in 1 .. Len(pipe) : ~ IsCall(i)

(* Whoever may go to sleep has a command on its way.                       *)
WakeInv ==
  \A t \in Threads :
    (pc[t] \in {"lockCond", "check", "wait"} /\ gMainLoopCondValue = 0) => Outstanding(t)

SerialInv == AloneInv /\ QuitInv /\ WakeInv

-----------------------------------------------------------------------------
(* The pipe as a queue                                                     *)

(* What write() does to a sequence of commands.                            *)
LEMMA AppendFacts ==
  ASSUME NEW S, NEW s \in Seq(S), NEW c \in S
  PROVE  /\ Append(s, c) \in Seq(S) /\ Len(Append(s, c)) = Len(s) + 1
         /\ Len(s) \in Nat
         /\ \A i \in 1 .. Len(s) : Append(s, c)[i] = s[i]
         /\ Append(s, c)[Len(s) + 1] = c
  OBVIOUS

(* What read() does to it.                                                 *)
LEMMA TailFacts ==
  ASSUME NEW S, NEW s \in Seq(S), s # <<>>
  PROVE  /\ Head(s) = s[1] /\ s[1] \in S
         /\ Tail(s) \in Seq(S) /\ Len(s) \in Nat /\ Len(s) >= 1
         /\ Len(Tail(s)) = Len(s) - 1
         /\ \A i \in 1 .. Len(s) - 1 : Tail(s)[i] = s[i + 1]
  OBVIOUS

(* The commands that are sent.                                             *)
LEMMA CommandFacts ==
  /\ \A t \in Threads : /\ [cmd |-> "call", from |-> t] \in Commands
                        /\ [cmd |-> "prepare", from |-> t] \in Commands
                        /\ [cmd |-> "quit", from |-> t] \in Commands
  /\ [cmd |-> "prepare", from |-> Main] \in Commands
  /\ NoCommand \notin Commands /\ NoCommand.cmd = "none"
  /\ \A c \in Commands : c.cmd \in {"call", "prepare", "quit"}
  BY ThreadAssumption DEF Commands, NoCommand

(* A successful write leaves the commands in the pipe where they are and   *)
(* adds one behind them; a failing one changes nothing.                    *)
LEMMA WriteFacts ==
  ASSUME TypeOK, NEW c \in Commands, WritePipe(c)
  PROVE  /\ pipe' \in Seq(Commands) /\ Len(pipe') <= PipeCapacity
         /\ Len(pipe) \in Nat
         /\ \/ /\ pipeOpen /\ Len(pipe') = Len(pipe) + 1
               /\ \A i \in 1 .. Len(pipe) : pipe'[i] = pipe[i]
               /\ pipe'[Len(pipe) + 1] = c
            \/ ~ pipeOpen /\ pipe' = pipe
<1>1. CASE pipeOpen /\ Len(pipe) < PipeCapacity /\ pipe' = Append(pipe, c)
  BY <1>1, AppendFacts, BoundAssumption DEF TypeOK
<1>2. CASE ~ pipeOpen /\ UNCHANGED pipe
  BY <1>2 DEF TypeOK
<1> QED
  BY <1>1, <1>2 DEF WritePipe

(* The loop takes the oldest command; the others move up.                  *)
LEMMA ReadFacts ==
  ASSUME TypeOK, MainRead
  PROVE  /\ hand' \in Commands /\ hand' = pipe[1]
         /\ pipe' \in Seq(Commands) /\ Len(pipe') <= PipeCapacity
         /\ Len(pipe) \in Nat /\ Len(pipe) >= 1 /\ Len(pipe') = Len(pipe) - 1
         /\ \A i \in 1 .. Len(pipe') : pipe'[i] = pipe[i + 1]
  BY TailFacts, BoundAssumption DEF TypeOK, MainRead

(* A D-Bus request is a write of the loop thread, or the end of it.        *)
LEMMA RequestFacts ==
  ASSUME TypeOK, mainPc = "poll" => pipeOpen, DbusRequest
  PROVE  /\ UNCHANGED <<lib, pipeOpen, sync, pc, ret, hand, nmDispatched>>
         /\ mainPc = "poll"
         /\ \/ WritePipe([cmd |-> "prepare", from |-> Main]) /\ mainPc' = "poll"
            \/ UNCHANGED pipe /\ mainPc' = "stuck"
  BY DEF DbusRequest, WritePipe

(* The history of overlapping calls never ends.                            *)
LEMMA HistoryFacts ==
  ASSUME TypeOK, [Next]_vars
  PROVE  /\ raced' \in BOOLEAN
         /\ ~ raced' => ~ raced /\ (UNCHANGED vars \/ ~ Overlap')
  BY DEF TypeOK, Next, CallStep, BeginStep, MainStep, History, vars

-----------------------------------------------------------------------------
(* Types                                                                   *)

(* The initial state is well typed.                                        *)
LEMMA TypeInit == Init => TypeOK
<1> SUFFICES ASSUME Init PROVE TypeOK
  OBVIOUS
<1>1. pipe \in Seq(Commands) /\ Len(pipe) <= PipeCapacity
  BY BoundAssumption DEF Init
<1>2. pc \in [Threads -> Pcs] /\ ret \in [Threads -> {"idle", "initEnd", "prepare"}]
  BY DEF Init, Pcs
<1>3. gPclInitCounter \in 0 .. MaxInit
  BY BoundAssumption DEF Init
<1> QED
  BY <1>1, <1>2, <1>3 DEF Init, TypeOK

(* Types are preserved.  The bounds of gPclInitCounter need MutexInv: the  *)
(* first init adds to 0 and the last deinit subtracts from 1 long after    *)
(* they have looked at the counter.                                        *)
LEMMA TypeStep == TypeOK /\ MutexInv /\ [Next]_vars => TypeOK'
<1> SUFFICES ASSUME TypeOK, MutexInv, [Next]_vars PROVE TypeOK'
  OBVIOUS
<1>h. raced' \in BOOLEAN
  BY HistoryFacts
<1> USE <1>h DEF TypeOK, Goto, Pcs, DeliverPcs, DeinitPcs
<1>1. ASSUME NEW t \in Threads, LifecycleSet(t) PROVE TypeOK'
  <2>1. pipe' \in Seq(Commands) /\ Len(pipe') <= PipeCapacity
    BY <1>1, WriteFacts, CommandFacts DEF LifecycleSet
  <2> QED
    BY <1>1, <2>1 DEF LifecycleSet, lib, sync, loop
<1>2. ASSUME NEW t \in Threads,
             DeliverToMainloop(t) \/ LockDeliver(t) \/ LockCond(t) \/ CheckCond(t)
               \/ SpuriousWakeup(t) \/ ResetCond(t) \/ UnlockDeliver(t)
      PROVE  TypeOK'
  BY <1>2 DEF DeliverToMainloop, LockDeliver, LockCond, CheckCond, SpuriousWakeup,
              ResetCond, UnlockDeliver, EnterDeliver, lib, sync, loop
<1>3. ASSUME NEW t \in Threads, DeliverWrite(t) PROVE TypeOK'
  <2>1. pipe' \in Seq(Commands) /\ Len(pipe') <= PipeCapacity
    BY <1>3, WriteFacts, CommandFacts DEF DeliverWrite
  <2> QED
    BY <1>3, <2>1 DEF DeliverWrite, lib, sync, loop
<1>4. ASSUME NEW t \in Threads, DeinitPrepare(t) \/ DeinitQuit(t) PROVE TypeOK'
  <2>1. pipe' \in Seq(Commands) /\ Len(pipe') <= PipeCapacity
    BY <1>4, WriteFacts, CommandFacts DEF DeinitPrepare, DeinitQuit
  <2> QED
    BY <1>4, <2>1 DEF DeinitPrepare, DeinitQuit, lib, sync, loop
<1>5. ASSUME NEW t \in Threads, NEW mode \in BOOLEAN, InitBegin(t, mode) PROVE TypeOK'
  <2>1. pipe' \in Seq(Commands) /\ Len(pipe') <= PipeCapacity
    <3>1. CASE pipe' = <<>>
      BY <3>1, BoundAssumption
    <3>2. CASE UNCHANGED pipe
      BY <3>2
    <3> QED
      BY <1>5, <3>1, <3>2 DEF InitBegin
  <2> QED
    BY ZenonT(40), <1>5, <2>1 DEF InitBegin, RegisterLifecycle, EnterDeliver, sync
<1>6. ASSUME NEW t \in Threads, NEW mode \in BOOLEAN, InitNoLoop(t, mode) PROVE TypeOK'
  BY <1>6 DEF InitNoLoop, sync, loop
<1>7. ASSUME NEW t \in Threads, InitEnd(t) \/ DeinitJoin(t) PROVE TypeOK'
  <2>1. gPclInitCounter' \in 0 .. MaxInit
    BY <1>7, BoundAssumption DEF InitEnd, DeinitJoin, MutexInv, Initing, Deiniting
  <2> QED
    BY <1>7, <2>1 DEF InitEnd, DeinitJoin, sync, loop
<1>8. ASSUME NEW t \in Threads, InitAgain(t) \/ DeinitAgain(t) PROVE TypeOK'
  BY <1>8, BoundAssumption DEF InitAgain, DeinitAgain, sync, loop
<1>9. ASSUME NEW t \in Threads, DeinitBegin(t) PROVE TypeOK'
  BY <1>9 DEF DeinitBegin, UnregisterLifecycle, EnterDeliver, sync, loop
<1>10. CASE MainRead
  BY <1>10, ReadFacts DEF MainRead, lib, sync
<1>11. CASE MainLock \/ MainDispatch
  BY <1>11 DEF MainLock, MainDispatch, WakeUp, lib, sync
<1>12. CASE MainExit
  <2>1. pipe' \in Seq(Commands) /\ Len(pipe') <= PipeCapacity
    BY <1>12, BoundAssumption DEF MainExit
  <2> QED
    BY <1>12, <2>1 DEF MainExit, lib, sync
<1>13. CASE DbusRequest
  <2>1. pipe' \in Seq(Commands) /\ Len(pipe') <= PipeCapacity
    <3>1. CASE Len(pipe) < PipeCapacity
      BY SMTT(20), <1>13, <3>1, AppendFacts, CommandFacts, BoundAssumption DEF DbusRequest
    <3>2. CASE ~ (Len(pipe) < PipeCapacity)
      BY <1>13, <3>2 DEF DbusRequest
    <3> QED
      BY <3>1, <3>2
  <2> QED
    BY <1>13, <2>1 DEF DbusRequest, lib, sync
<1>14. CASE UNCHANGED vars
  BY <1>14 DEF vars, lib, sync, loop
<1> QED
  BY <1>1, <1>2, <1>3, <1>4, <1>5, <1>6, <1>7, <1>8, <1>9, <1>10, <1>11, <1>12,
     <1>13, <1>14 DEF Next, CallStep, BeginStep, MainStep

-----------------------------------------------------------------------------
(* Mutexes                                                                 *)

(* Each step keeps every mutex with the thread that stands in its stretch. *)
(* LoopInv keeps InitBegin from starting a second loop while one holds     *)
(* gMainCondMtx.                                                           *)
LEMMA MutexStep == TypeOK /\ MutexInv /\ LoopInv /\ [Next]_vars => MutexInv'
<1> SUFFICES ASSUME TypeOK, MutexInv, LoopInv, [Next]_vars PROVE MutexInv'
  OBVIOUS
<1> USE ThreadAssumption DEF TypeOK, MutexInv, Initing, Deiniting, InDelivery, Goto,
        Pcs, DeliverPcs, DeinitPcs
<1>1. ASSUME NEW t \in Threads, LifecycleSet(t) PROVE MutexInv'
  BY <1>1 DEF LifecycleSet, lib, sync, loop
<1>2. ASSUME NEW t \in Threads, DeliverToMainloop(t) PROVE MutexInv'
  BY <1>2 DEF DeliverToMainloop, EnterDeliver, lib, sync, loop
<1>3. ASSUME NEW t \in Threads, LockDeliver(t) PROVE MutexInv'
  BY <1>3 DEF LockDeliver, lib, loop
<1>4. ASSUME NEW t \in Threads, DeliverWrite(t) PROVE MutexInv'
  BY <1>4 DEF DeliverWrite, lib, sync, loop
<1>5. ASSUME NEW t \in Threads, LockCond(t) PROVE MutexInv'
  BY <1>5 DEF LockCond, lib, loop
<1>6. ASSUME NEW t \in Threads, CheckCond(t) PROVE MutexInv'
  BY <1>6 DEF CheckCond, lib, loop
<1>7. ASSUME NEW t \in Threads, SpuriousWakeup(t) PROVE MutexInv'
  BY <1>7 DEF SpuriousWakeup, lib, sync, loop
<1>8. ASSUME NEW t \in Threads, ResetCond(t) PROVE MutexInv'
  BY <1>8 DEF ResetCond, lib, loop
<1>9. ASSUME NEW t \in Threads, UnlockDeliver(t) PROVE MutexInv'
  BY <1>9 DEF UnlockDeliver, lib, loop
<1>10. ASSUME NEW t \in Threads, NEW mode \in BOOLEAN, InitBegin(t, mode) PROVE MutexInv'
  BY <1>10 DEF LoopInv, InitBegin, RegisterLifecycle, EnterDeliver, sync
<1>11. ASSUME NEW t \in Threads, NEW mode \in BOOLEAN, InitNoLoop(t, mode) PROVE MutexInv'
  BY <1>11 DEF InitNoLoop, sync, loop
<1>12. ASSUME NEW t \in Threads, InitEnd(t) PROVE MutexInv'
  BY <1>12 DEF InitEnd, sync, loop
<1>13. ASSUME NEW t \in Threads, InitAgain(t) \/ DeinitAgain(t) PROVE MutexInv'
  BY <1>13 DEF InitAgain, DeinitAgain, sync, loop
<1>14. ASSUME NEW t \in Threads, DeinitBegin(t) PROVE MutexInv'
  BY <1>14 DEF DeinitBegin, UnregisterLifecycle, EnterDeliver, sync, loop
<1>15. ASSUME NEW t \in Threads, DeinitPrepare(t) \/ DeinitQuit(t) PROVE MutexInv'
  BY <1>15 DEF DeinitPrepare, DeinitQuit, lib, sync, loop
<1>16. ASSUME NEW t \in Threads, DeinitJoin(t) PROVE MutexInv'
  BY <1>16 DEF DeinitJoin, sync, loop
<1>17. CASE MainRead \/ MainExit \/ DbusRequest
  BY <1>17 DEF MainRead, MainExit, DbusRequest, lib, sync, loop
<1>18. CASE MainLock
  BY <1>18 DEF MainLock, lib
<1>19. CASE MainDispatch
  BY <1>19 DEF MainDispatch, WakeUp, lib
<1>20. CASE UNCHANGED vars
  BY <1>20 DEF vars, lib, sync, loop
<1> QED
  BY <1>1, <1>2, <1>3, <1>4, <1>5, <1>6, <1>7, <1>8, <1>9, <1>10, <1>11, <1>12,
     <1>13, <1>14, <1>15, <1>16, <1>17, <1>18, <1>19, <1>20
  DEF Next, CallStep, BeginStep, MainStep

-----------------------------------------------------------------------------
(* The loop thread and the condition                                       *)

(* A command is in the loop's hand exactly between the read and the end of *)
(* the dispatch, and the pipe is closed exactly when the loop has ended.   *)
LEMMA LoopStep == TypeOK /\ LoopInv /\ [Next]_vars => LoopInv'
<1> SUFFICES ASSUME TypeOK, LoopInv, [Next]_vars PROVE LoopInv'
  OBVIOUS
<1> USE DEF TypeOK, LoopInv
<1>1. ASSUME NEW t \in Threads, NEW mode \in BOOLEAN, InitBegin(t, mode) PROVE LoopInv'
  BY <1>1 DEF InitBegin
<1>2. ASSUME NEW t \in Threads, DeinitJoin(t) PROVE LoopInv'
  BY <1>2 DEF DeinitJoin, loop
<1>3. CASE MainRead
  BY <1>3, ReadFacts, CommandFacts DEF MainRead, lib
<1>4. CASE MainLock
  BY <1>4 DEF MainLock, lib
<1>5. CASE MainDispatch
  BY <1>5 DEF MainDispatch, lib
<1>6. CASE MainExit
  BY <1>6 DEF MainExit, lib
<1>7. ASSUME UNCHANGED <<gDbusMainloopRunning, pipeOpen, mainPc, hand>>,
             UNCHANGED pipe \/ (\E c : WritePipe(c))
      PROVE  LoopInv'
  BY <1>7 DEF WritePipe
<1>8. ASSUME NEW t \in Threads, LifecycleSet(t) \/ DeliverWrite(t) \/ DeinitPrepare(t)
             \/ DeinitQuit(t)
      PROVE  LoopInv'
  BY <1>7, <1>8 DEF LifecycleSet, DeliverWrite, DeinitPrepare, DeinitQuit, lib, loop
<1>9. CASE DbusRequest
  BY <1>9, RequestFacts DEF WritePipe, lib
<1> HIDE DEF TypeOK, LoopInv
<1> QED
  BY <1>1, <1>2, <1>3, <1>4, <1>5, <1>6, <1>7, <1>8, <1>9
  DEF Next, CallStep, BeginStep, MainStep, DeliverToMainloop, LockDeliver, LockCond,
      CheckCond, SpuriousWakeup, ResetCond, UnlockDeliver, InitNoLoop, InitEnd,
      InitAgain, DeinitAgain, DeinitBegin, DbusRequest, vars, lib, loop

(* The loop signals under gMainCondMtx, so nobody sleeps once the value is *)
(* set; gDeliverpMtx keeps other callers from resetting it in between.     *)
LEMMA CondStep == TypeOK /\ MutexInv /\ CondInv /\ [Next]_vars => CondInv'
<1> SUFFICES ASSUME TypeOK, MutexInv, CondInv, [Next]_vars PROVE CondInv'
  OBVIOUS
<1> USE DEF TypeOK, CondInv, Goto, Pcs, DeliverPcs, DeinitPcs
<1>1. ASSUME NEW t \in Threads, CheckCond(t) PROVE CondInv'
  BY <1>1 DEF CheckCond
<1>2. ASSUME NEW t \in Threads, ResetCond(t) PROVE CondInv'
  BY <1>2 DEF ResetCond, MutexInv, InDelivery
<1>3. CASE MainDispatch
  BY <1>3 DEF MainDispatch, WakeUp
<1>4. ASSUME NEW t \in Threads, UnlockDeliver(t) PROVE CondInv'
  BY <1>4 DEF UnlockDeliver
<1>5. ASSUME NEW t \in Threads, NEW l \in Pcs \ {"wait", "reset"},
             Goto(t, l) \/ UNCHANGED pc, UNCHANGED gMainLoopCondValue
      PROVE  CondInv'
  BY <1>5
<1>6. CASE UNCHANGED <<pc, gMainLoopCondValue>>
  BY <1>6
<1>7. ASSUME NEW t \in Threads, CallStep(t) \/ BeginStep(t) PROVE CondInv'
  <2>1. CASE \E l \in Pcs \ {"wait", "reset"} : Goto(t, l) /\ UNCHANGED gMainLoopCondValue
    BY <1>5, <2>1
  <2>2. CASE UNCHANGED <<pc, gMainLoopCondValue>>
    BY <1>6, <2>2
  <2> HIDE DEF CondInv, TypeOK
  <2>3. CASE CallStep(t)
    BY <1>1, <1>2, <1>4, <2>1, <2>2, <2>3
    DEF CallStep, LockDeliver, DeliverWrite, LockCond, InitEnd, DeinitPrepare,
        DeinitQuit, DeinitJoin, sync
  <2> QED
    BY <1>7, <2>1, <2>2, <2>3
    DEF BeginStep, SpuriousWakeup, DeliverToMainloop, LifecycleSet, InitBegin,
        InitNoLoop, InitAgain, DeinitAgain, DeinitBegin, RegisterLifecycle,
        UnregisterLifecycle, EnterDeliver, sync
<1> QED
  BY <1>3, <1>6, <1>7 DEF Next, MainStep, MainRead, MainLock, MainExit, DbusRequest,
     vars, sync

-----------------------------------------------------------------------------
(* Who waits for what                                                      *)

(* A delivery starts with no call on its way and the condition clear; the  *)
(* dispatch of its own command sets the condition, and the dispatch of any *)
(* other is recorded in nmDispatched.                                      *)
LEMMA ExactStep == IInv /\ [Next]_vars => ExactInv'
<1> SUFFICES ASSUME IInv, [Next]_vars PROVE ExactInv'
  OBVIOUS
<1> USE ThreadAssumption DEF ExactInv, IsCall, Outstanding, InPipe
<1>f. TypeOK /\ MutexInv /\ LoopInv /\ CondInv /\ ExactInv
  BY DEF IInv
<1>w. ASSUME NEW c \in Commands, c.cmd # "call", WritePipe(c),
             UNCHANGED <<hand, gMainLoopCondValue, nmDispatched>>,
             \A u \in Threads : pc[u] \in {"lockCond", "check", "wait", "reset"}
                                  => pc'[u] = pc[u]
      PROVE  ExactInv'
  <2>1. \A i \in 1 .. Len(pipe') : IsCall(i)' => i \in 1 .. Len(pipe) /\ pipe'[i] = pipe[i]
    BY <1>f, <1>w, WriteFacts
  <2>2. \A u \in Threads : Outstanding(u)' => Outstanding(u)
    BY <1>w, <2>1
  <2> QED
    BY <1>f, <1>w, <2>1, <2>2
<1>1. ASSUME NEW t \in Threads, LifecycleSet(t) PROVE ExactInv'
  BY <1>1, <1>w, CommandFacts DEF LifecycleSet, sync, loop
<1>2. ASSUME NEW t \in Threads, DeinitPrepare(t) PROVE ExactInv'
  BY <1>2, <1>f, <1>w, CommandFacts DEF DeinitPrepare, sync, loop, TypeOK, Goto
<1>3. ASSUME NEW t \in Threads, DeinitQuit(t) PROVE ExactInv'
  BY <1>3, <1>f, <1>w, CommandFacts DEF DeinitQuit, sync, loop, TypeOK, Goto
<1>4. CASE DbusRequest
  <2>1. CASE WritePipe([cmd |-> "prepare", from |-> Main])
    BY <1>4, <2>1, <1>w, CommandFacts DEF DbusRequest, sync
  <2>2. CASE UNCHANGED pipe
    BY <1>4, <1>f, <2>2 DEF DbusRequest, sync
  <2> QED
    BY <1>4, <1>f, <2>1, <2>2, RequestFacts DEF LoopInv
<1>5. ASSUME NEW t \in Threads, DeliverWrite(t) PROVE ExactInv'
  <2> DEFINE c == [cmd |-> "call", from |-> t]
  <2>1. WritePipe(c) /\ c \in Commands
    BY <1>5, CommandFacts DEF DeliverWrite
  <2>2. \A u \in Threads : pc[u] \in InDelivery => u = t
    BY <1>5, <1>f DEF DeliverWrite, MutexInv, InDelivery
  <2>3. ~ nmDispatched => /\ \A u \in Threads : ~ Outstanding(u)
                          /\ gMainLoopCondValue = 0
    BY <1>5, <1>f, <2>2 DEF DeliverWrite, InDelivery, TypeOK
  <2>4. ~ nmDispatched => \A i \in 1 .. Len(pipe) : ~ IsCall(i)
    BY <2>3, <1>f DEF TypeOK, Commands
  <2>5. ~ nmDispatched => hand.cmd # "call"
    BY <2>3, <1>f, CommandFacts DEF TypeOK, Commands
  <2>6. pc'[t] = "lockCond" /\ UNCHANGED <<gMainLoopCondValue, hand, nmDispatched>>
    BY <1>5, <1>f DEF DeliverWrite, Goto, TypeOK, sync, loop
  <2>7. ~ nmDispatched => \A i \in 1 .. Len(pipe') : IsCall(i)' =>
           pipe'[i] = c /\ i = Len(pipe) + 1
    BY <2>1, <2>4, <1>f, WriteFacts
  <2>8. ~ nmDispatched => \A u \in Threads : Outstanding(u)' => u = t
    BY <2>3, <2>6, <2>7
  <2> QED
    BY <2>3, <2>5, <2>6, <2>7, <2>8
<1>6. ASSUME NEW t \in Threads, ResetCond(t) PROVE ExactInv'
  <2>1. ~ nmDispatched => \A u \in Threads : ~ Outstanding(u)
    BY <1>6, <1>f DEF ResetCond, CondInv
  <2> QED
    BY <1>6, <1>f, <2>1 DEF ResetCond, loop
<1>7. CASE MainRead
  <2>1. \A u \in Threads : Outstanding(u)' => Outstanding(u)
    BY SMTT(20), <1>f, <1>7, ReadFacts
  <2> QED
    BY <1>f, <1>7, <2>1, ReadFacts DEF MainRead, sync, LoopInv
<1>8. CASE MainDispatch
  <2>1. CASE hand.cmd # "call"
    BY <1>8, <2>1 DEF MainDispatch
  <2>2. CASE hand.cmd = "call"
    <3>1. PICK u \in Threads : hand = [cmd |-> "call", from |-> u]
      BY <1>f, <2>2, CommandFacts DEF TypeOK, Commands
    <3>2. Outstanding(u)
      BY <3>1
    <3>3. hand' = NoCommand /\ hand'.cmd = "none" /\ UNCHANGED pipe
      BY <1>8, CommandFacts DEF MainDispatch
    <3>4. ~ nmDispatched => pc'[u] \in {"lockCond", "check", "reset"}
      BY <1>f, <1>8, <3>2 DEF MainDispatch, WakeUp
    <3>5. ~ nmDispatched => \A v \in Threads : ~ Outstanding(v)'
      BY <1>f, <2>2, <3>3
    <3>6. nmDispatched' = nmDispatched
      BY <1>f, <1>8, <2>2 DEF MainDispatch, TypeOK
    <3> QED
      BY <1>f, <2>2, <3>3, <3>4, <3>5, <3>6
  <2> QED
    BY <2>1, <2>2
<1>9. CASE MainExit
  BY <1>9, <1>f DEF MainExit, sync
<1>10. ASSUME NEW t \in Threads, CheckCond(t) PROVE ExactInv'
  BY <1>10, <1>f DEF CheckCond, Goto, TypeOK, loop
<1>11. ASSUME NEW t \in Threads, LockCond(t) \/ SpuriousWakeup(t) PROVE ExactInv'
  BY <1>11, <1>f DEF LockCond, SpuriousWakeup, Goto, TypeOK, sync, loop
<1>12. ASSUME NEW t \in Threads,
              pc[t] \notin {"lockCond", "check", "wait", "reset"},
              \A u \in Threads \ {t} : pc'[u] = pc[u],
              pipe' = pipe \/ pipe' = <<>>,
              UNCHANGED <<hand, gMainLoopCondValue, nmDispatched>>
       PROVE  ExactInv'
  BY <1>12, <1>f
<1>13. CASE UNCHANGED vars \/ MainLock
  BY <1>13, <1>f DEF vars, MainLock, sync, loop
<1>14. ASSUME NEW t \in Threads, CallStep(t) \/ BeginStep(t) PROVE ExactInv'
  <2>1. ASSUME DeliverToMainloop(t) \/ LockDeliver(t) \/ UnlockDeliver(t)
                 \/ (\E mode \in BOOLEAN : InitBegin(t, mode) \/ InitNoLoop(t, mode))
                 \/ InitEnd(t) \/ InitAgain(t) \/ DeinitAgain(t) \/ DeinitBegin(t)
                 \/ DeinitJoin(t)
        PROVE  ExactInv'
    BY <1>f, <1>12, <2>1
    DEF DeliverToMainloop, LockDeliver, UnlockDeliver, InitBegin, InitNoLoop, InitEnd,
        InitAgain, DeinitAgain, DeinitBegin, DeinitJoin, RegisterLifecycle,
        UnregisterLifecycle, EnterDeliver, Goto, TypeOK, sync, loop
  <2> QED
    BY <1>1, <1>2, <1>3, <1>5, <1>6, <1>10, <1>11, <1>14, <2>1 DEF CallStep, BeginStep
<1> QED
  BY <1>4, <1>7, <1>8, <1>9, <1>13, <1>14 DEF Next, MainStep

(* The initial state satisfies the inductive invariant.                    *)
LEMMA IInvInit == Init => IInv
<1> SUFFICES ASSUME Init PROVE IInv
  OBVIOUS
<1>1. MutexInv
  BY ThreadAssumption DEF Init, MutexInv, Initing, Deiniting, InDelivery, DeliverPcs, DeinitPcs
<1>2. LoopInv /\ CondInv
  BY DEF Init, LoopInv, CondInv
<1>3. ExactInv
  BY CommandFacts DEF Init, ExactInv, Outstanding, InPipe
<1> QED
  BY <1>1, <1>2, <1>3, TypeInit DEF IInv

(* IInv is inductive.                                                      *)
LEMMA IInvStep == IInv /\ [Next]_vars => IInv'
  BY TypeStep, MutexStep, LoopStep, CondStep, ExactStep DEF IInv

(* IInv holds in every reachable state, whatever calls overlap.            *)
THEOREM IInvCorrect == Spec => []IInv
  BY IInvInit, IInvStep, PTL DEF Spec

(* Every variable keeps its type: in particular the pipe never holds more  *)
(* than its capacity, and gPclInitCounter, which pclInitLibrary raises and *)
(* pclDeinitLibrary lowers at the very end of a call, stays in its bounds. *)
THEOREM TypeCorrect == Spec => []TypeOK
<1>1. IInv => TypeOK
  BY DEF IInv
<1> QED
  BY <1>1, IInvCorrect, PTL

(* deliverToMainloop returns before the loop has dispatched its command    *)
(* only if a command without a waiting sender was dispatched before, for   *)
(* any number of threads and also when calls race init and deinit.         *)
THEOREM EarlyReturnCorrect == Spec => []EarlyReturnIsStale
<1>1. IInv => EarlyReturnIsStale
  BY DEF IInv, ExactInv, EarlyReturnIsStale
<1> QED
  BY <1>1, IInvCorrect, PTL

-----------------------------------------------------------------------------
(* The loop, and calls that do not overlap init and deinit                 *)

(* A thread that joins the loop holds gInitMutex, and no init or deinit    *)
(* begins.                                                                 *)
LEMMA JoiningFacts ==
  ASSUME IInv, Joining
  PROVE  /\ gInitMutex # NoThread
         /\ ~ Overlap => \A u \in Threads : pc[u] \in {"idle", "join"}
  BY ThreadAssumption DEF IInv, TypeOK, MutexInv, Deiniting, DeinitPcs, Overlap, Joining

(* A loop that has been told to quit is being joined.                      *)
LEMMA EndingFacts ==
  ASSUME IInv, RunInv, mainPc = "exit" \/ (mainPc = "ended" /\ gDbusMainloopRunning = 1)
  PROVE  Joining
  BY DEF IInv, TypeOK, LoopInv, RunInv

(* CMD_QUIT is the last word of the thread that joins the loop, whatever   *)
(* calls overlap.                                                          *)
LEMMA RunStep == IInv /\ RunInv /\ [Next]_vars => RunInv'
<1> SUFFICES ASSUME IInv, RunInv, [Next]_vars PROVE RunInv'
  OBVIOUS
<1>f. TypeOK /\ MutexInv /\ LoopInv /\ NoCommand.cmd = "none"
  BY CommandFacts DEF IInv
<1> USE DEF RunInv
<1>s. ASSUME NEW t \in Threads, pc[t] # "join", \A u \in Threads \ {t} : pc'[u] = pc[u]
      PROVE  Joining => Joining'
  BY <1>s DEF Joining
<1>w. ASSUME NEW c \in Commands, WritePipe(c),
             UNCHANGED <<gPclInitCounter, gInitMutex, gDbusMainloopRunning, hand, mainPc>>,
             Joining => Joining', c.cmd = "quit" => Joining'
      PROVE  RunInv'
  <2>1. \A i \in 1 .. Len(pipe') : pipe'[i] = c \/ (i \in 1 .. Len(pipe) /\ pipe'[i] = pipe[i])
    BY <1>f, <1>w, WriteFacts
  <2> QED
    BY <1>w, <2>1
<1>1. ASSUME NEW t \in Threads, LifecycleSet(t) PROVE RunInv'
  BY <1>1, <1>w, CommandFacts DEF LifecycleSet, lib, loop, Joining
<1>2. ASSUME NEW t \in Threads, DeinitPrepare(t) PROVE RunInv'
  BY <1>2, <1>f, <1>s, <1>w, CommandFacts DEF DeinitPrepare, Goto, TypeOK, lib, loop
<1>3. ASSUME NEW t \in Threads, DeinitQuit(t) PROVE RunInv'
  <2>1. Joining'
    BY <1>3, <1>f DEF DeinitQuit, Goto, TypeOK, Joining
  <2> QED
    BY <1>3, <1>w, <2>1, CommandFacts DEF DeinitQuit, lib, loop
<1>4. CASE DbusRequest
  <2>1. /\ Joining' <=> Joining
        /\ UNCHANGED <<gPclInitCounter, gInitMutex, gDbusMainloopRunning, hand>>
    BY <1>4 DEF DbusRequest, lib, Joining
  <2>2. CASE WritePipe([cmd |-> "prepare", from |-> Main]) /\ mainPc' = mainPc
    BY <1>w, <2>1, <2>2, CommandFacts
  <2>3. CASE UNCHANGED pipe /\ mainPc' = "stuck"
    BY <2>1, <2>3
  <2> QED
    BY <1>4, <1>f, <2>2, <2>3, RequestFacts DEF LoopInv
<1>5. ASSUME NEW t \in Threads, DeliverWrite(t) PROVE RunInv'
  BY <1>5, <1>f, <1>s, <1>w, CommandFacts DEF DeliverWrite, Goto, TypeOK, lib, loop
<1>6. CASE MainRead
  <2>1. Joining' <=> Joining
    BY <1>6 DEF MainRead, Joining
  <2>2. /\ hand' = pipe[1] /\ Len(pipe) \in Nat /\ Len(pipe) >= 1
        /\ Len(pipe') = Len(pipe) - 1
        /\ \A i \in 1 .. Len(pipe') : pipe'[i] = pipe[i + 1] /\ i + 1 \in 1 .. Len(pipe)
    BY <1>6, <1>f, ReadFacts
  <2> QED
    BY <1>6, <2>1, <2>2 DEF MainRead, lib
<1>7. CASE MainDispatch
  <2>1. Joining' <=> Joining
    BY <1>7, <1>f DEF MainDispatch, WakeUp, Joining, TypeOK
  <2> QED
    BY <1>7, <1>f, <2>1 DEF MainDispatch, LoopInv, lib
<1>8. CASE MainExit
  <2>1. Joining'
    BY <1>8, EndingFacts DEF MainExit, Joining
  <2> QED
    BY <1>8, <1>f, <2>1 DEF MainExit, LoopInv, lib
<1>9. ASSUME NEW t \in Threads, NEW mode \in BOOLEAN, InitBegin(t, mode) PROVE RunInv'
  <2>1. ~ Joining
    BY <1>9, JoiningFacts DEF InitBegin
  <2> QED
    BY <1>9, <1>f, <2>1 DEF InitBegin, LoopInv, TypeOK
<1>10. ASSUME NEW t \in Threads, DeinitJoin(t) PROVE RunInv'
  BY <1>10, <1>f DEF DeinitJoin, LoopInv, loop, MutexInv, Deiniting, DeinitPcs
<1>11. ASSUME UNCHANGED <<gPclInitCounter, gDbusMainloopRunning, pipe, hand, mainPc>>,
              gInitMutex' = gInitMutex \/ gPclInitCounter > 0, Joining => Joining'
       PROVE  RunInv'
  BY <1>11
<1>12. CASE MainLock
  BY <1>12, <1>f DEF MainLock, LoopInv, lib, Joining
<1>13. CASE UNCHANGED vars
  BY <1>11, <1>13 DEF vars, lib, loop, Joining
<1>14. ASSUME NEW t \in Threads,
              DeliverToMainloop(t) \/ LockDeliver(t) \/ LockCond(t) \/ CheckCond(t)
                \/ SpuriousWakeup(t) \/ ResetCond(t) \/ UnlockDeliver(t)
                \/ (\E mode \in BOOLEAN : InitNoLoop(t, mode)) \/ DeinitBegin(t)
       PROVE  RunInv'
  <2>1. Joining => Joining'
    BY <1>14, <1>f, <1>s DEF DeliverToMainloop, LockDeliver, LockCond, CheckCond,
       SpuriousWakeup, ResetCond, UnlockDeliver, InitNoLoop, DeinitBegin,
       UnregisterLifecycle, EnterDeliver, Goto, TypeOK
  <2> HIDE DEF RunInv
  <2> QED
    BY <1>11, <1>14, <2>1 DEF DeliverToMainloop, LockDeliver, LockCond, CheckCond,
       SpuriousWakeup, ResetCond, UnlockDeliver, InitNoLoop, DeinitBegin, lib, loop
<1>15. ASSUME NEW t \in Threads, InitEnd(t) \/ InitAgain(t) \/ DeinitAgain(t) PROVE RunInv'
  <2>1. Joining => Joining'
    BY <1>15, <1>f, <1>s DEF InitEnd, InitAgain, DeinitAgain, Goto, TypeOK
  <2>2. CASE InitEnd(t)
    <3>1. gInitMutex = t /\ gDbusMainloopRunning = 1
      BY <1>f, <2>2, ThreadAssumption DEF InitEnd, MutexInv, Initing
    <3> QED
      BY <2>1, <2>2, <3>1 DEF InitEnd, loop
  <2>3. CASE InitAgain(t) \/ DeinitAgain(t)
    BY <1>f, <2>1, <2>3 DEF InitAgain, DeinitAgain, loop, TypeOK
  <2> QED
    BY <1>15, <2>2, <2>3
<1> HIDE DEF RunInv
<1> QED
  BY <1>1, <1>2, <1>3, <1>4, <1>5, <1>6, <1>7, <1>8, <1>9, <1>10, <1>12, <1>13, <1>14, <1>15
  DEF Next, CallStep, BeginStep, MainStep

(* Whoever holds gInitMutex stays alone.                                   *)
LEMMA AloneStep ==
  IInv /\ RunInv /\ AloneInv /\ ~ raced' /\ [Next]_vars => AloneInv'
<1> SUFFICES ASSUME IInv, RunInv, AloneInv, ~ raced', [Next]_vars PROVE AloneInv'
  OBVIOUS
<1>f. TypeOK /\ MutexInv
  BY DEF IInv
<1>o. ~ Overlap'
  BY <1>f, HistoryFacts DEF AloneInv, Overlap, vars, lib
<1> DEFINE Rest == /\ \A t \in Threads : pc[t] # "idle" => gDbusMainloopRunning = 1
                   /\ \A t \in Threads : pc[t] # "idle" /\ gInitMutex = NoThread
                                             => gPclInitCounter > 0
<1>r. Rest /\ (gPclInitCounter > 0 => gDbusMainloopRunning = 1)
  BY DEF AloneInv, RunInv
<1> USE ThreadAssumption, <1>f, <1>r DEF TypeOK, Goto
<1>1. ASSUME NEW t \in Threads, LifecycleSet(t) PROVE Rest'
  BY <1>1 DEF LifecycleSet, lib
<1>2. ASSUME NEW t \in Threads, DeliverToMainloop(t) PROVE Rest'
  BY <1>2 DEF DeliverToMainloop, EnterDeliver, lib
<1>3. ASSUME NEW t \in Threads, pc[t] # "idle", UNCHANGED lib,
             \A u \in Threads \ {t} : pc'[u] = pc[u]
      PROVE  Rest'
  BY <1>3 DEF lib
<1>4. ASSUME NEW t \in Threads,
             LockDeliver(t) \/ DeliverWrite(t) \/ LockCond(t) \/ CheckCond(t)
               \/ SpuriousWakeup(t) \/ ResetCond(t) \/ UnlockDeliver(t)
               \/ DeinitPrepare(t) \/ DeinitQuit(t)
      PROVE  Rest'
  BY <1>3, <1>4 DEF LockDeliver, DeliverWrite, LockCond, CheckCond, SpuriousWakeup,
     ResetCond, UnlockDeliver, DeinitPrepare, DeinitQuit
<1>5. ASSUME NEW t \in Threads, NEW mode \in BOOLEAN, InitBegin(t, mode) PROVE Rest'
  BY <1>5 DEF InitBegin, RegisterLifecycle, EnterDeliver
<1>6. ASSUME NEW t \in Threads, NEW mode \in BOOLEAN, InitNoLoop(t, mode) PROVE Rest'
  BY <1>6 DEF InitNoLoop
<1>7. ASSUME NEW t \in Threads, InitEnd(t) \/ DeinitJoin(t) PROVE Rest'
  <2>1. gInitMutex = t
    BY <1>7 DEF InitEnd, DeinitJoin, MutexInv, Initing, Deiniting, DeinitPcs
  <2>2. \A u \in Threads : pc'[u] = "idle"
    BY <1>7, <2>1 DEF InitEnd, DeinitJoin, AloneInv, Overlap
  <2> QED
    BY <2>2
<1>8. ASSUME NEW t \in Threads, InitAgain(t) \/ DeinitAgain(t) PROVE Rest'
  BY <1>8 DEF InitAgain, DeinitAgain
<1>9. ASSUME NEW t \in Threads, DeinitBegin(t) PROVE Rest'
  BY <1>9 DEF DeinitBegin, UnregisterLifecycle, EnterDeliver
<1>10. ASSUME UNCHANGED <<lib, pc>> PROVE Rest'
  BY <1>10 DEF lib
<1>11. ASSUME MainDispatch PROVE Rest'
  BY <1>11 DEF MainDispatch, WakeUp, lib
<1> HIDE DEF TypeOK, Rest
<1>12. Rest'
  BY <1>1, <1>2, <1>4, <1>5, <1>6, <1>7, <1>8, <1>9, <1>10, <1>11
  DEF Next, CallStep, BeginStep, MainStep, MainRead, MainLock, MainExit, DbusRequest, vars
<1> QED
  BY <1>12, <1>o DEF Rest, AloneInv

(* Nothing that somebody waits for is written behind CMD_QUIT, as long as  *)
(* the thread that joins the loop is alone.                                *)
LEMMA QuitStep ==
  IInv /\ RunInv /\ AloneInv /\ QuitInv /\ [Next]_vars => QuitInv'
<1> SUFFICES ASSUME IInv, RunInv, AloneInv, QuitInv, [Next]_vars PROVE QuitInv'
  OBVIOUS
<1>f. TypeOK /\ LoopInv /\ NoCommand.cmd = "none"
  BY CommandFacts DEF IInv
<1> USE DEF QuitInv, IsCall
<1>w. ASSUME NEW c \in Commands, WritePipe(c), UNCHANGED <<hand, mainPc>>,
             c.cmd = "call" => ~ Joining
      PROVE  QuitInv'
  <2>1. CASE pipe' = pipe
    BY <1>w, <2>1
  <2>2. CASE ~ (pipe' = pipe)
    <3> DEFINE n == Len(pipe)
    <3>1. /\ n \in Nat /\ Len(pipe') = n + 1 /\ pipe'[n + 1] = c
          /\ \A i \in 1 .. n : pipe'[i] = pipe[i]
      BY <1>f, <1>w, <2>2, WriteFacts
    <3>2. \A i \in 1 .. n + 1 : i \in 1 .. n \/ i = n + 1
      BY <3>1
    <3>4. \A i, j \in 1 .. Len(pipe') : pipe'[i].cmd = "quit" /\ IsCall(j)' => j < i
      <4> SUFFICES ASSUME NEW i \in 1 .. n + 1, NEW j \in 1 .. n + 1,
                          pipe'[i].cmd = "quit", pipe'[j].cmd = "call"
                   PROVE  j < i
        BY <3>1
      <4>1. CASE j = n + 1
        <5>1. c.cmd = "call" /\ i \in 1 .. n /\ pipe[i].cmd = "quit"
          BY <3>1, <4>1
        <5> QED
          BY <1>w, <5>1 DEF RunInv
      <4>2. CASE j \in 1 .. n /\ i \in 1 .. n
        BY <3>1, <4>2
      <4> QED
        BY <3>1, <3>2, <4>1, <4>2
    <3>5. (hand'.cmd = "quit" \/ mainPc' = "exit") => \A i \in 1 .. Len(pipe') : ~ IsCall(i)'
      <4>1. (hand.cmd = "quit" \/ mainPc = "exit") => Joining
        BY EndingFacts DEF RunInv
      <4> QED
        BY <1>w, <3>1, <3>2, <4>1
    <3> QED
      BY <3>4, <3>5
  <2> QED
    BY <2>1, <2>2
<1>1. ASSUME NEW t \in Threads, LifecycleSet(t) \/ DeinitPrepare(t) \/ DeinitQuit(t)
      PROVE  QuitInv'
  BY <1>1, <1>w, CommandFacts DEF LifecycleSet, DeinitPrepare, DeinitQuit, loop
<1>4. CASE DbusRequest
  <2>1. UNCHANGED hand
    BY <1>4 DEF DbusRequest
  <2>2. CASE WritePipe([cmd |-> "prepare", from |-> Main]) /\ mainPc' = mainPc
    BY <1>w, <2>1, <2>2, CommandFacts
  <2>3. CASE UNCHANGED pipe /\ mainPc' = "stuck"
    BY <2>1, <2>3
  <2> QED
    BY <1>4, <1>f, <2>2, <2>3, RequestFacts DEF LoopInv
<1>5. ASSUME NEW t \in Threads, DeliverWrite(t) PROVE QuitInv'
  <2>1. ~ Joining
    BY <1>5, JoiningFacts DEF DeliverWrite, AloneInv
  <2> QED
    BY <1>5, <1>w, <2>1, CommandFacts DEF DeliverWrite, loop
<1>6. CASE MainRead
  <2>2. /\ hand' = pipe[1] /\ Len(pipe) \in Nat /\ Len(pipe) >= 1
        /\ Len(pipe') = Len(pipe) - 1
        /\ \A i \in 1 .. Len(pipe') : pipe'[i] = pipe[i + 1] /\ i + 1 \in 1 .. Len(pipe)
    BY <1>6, <1>f, ReadFacts
  <2>3. mainPc' = "lock"
    BY <1>6 DEF MainRead
  <2>4. hand'.cmd = "quit" => \A i \in 1 .. Len(pipe') : ~ IsCall(i)'
    BY <2>2
  <2>5. \A i, j \in 1 .. Len(pipe') : pipe'[i].cmd = "quit" /\ IsCall(j)' => j < i
    BY SMTT(20), <2>2
  <2> QED
    BY <2>3, <2>4, <2>5
<1>7. CASE MainDispatch
  BY <1>7, <1>f DEF MainDispatch
<1>8. CASE MainExit
  BY <1>8, <1>f DEF MainExit, LoopInv
<1>9. ASSUME NEW t \in Threads, NEW mode \in BOOLEAN, InitBegin(t, mode) PROVE QuitInv'
  BY <1>9, <1>f DEF InitBegin, LoopInv, TypeOK
<1>11. CASE UNCHANGED <<pipe, hand, mainPc>>
  BY <1>11
<1>12. CASE MainLock
  BY <1>12, <1>f DEF MainLock, LoopInv
<1> HIDE DEF QuitInv
<1> QED
  BY <1>1, <1>4, <1>5, <1>6, <1>7, <1>8, <1>9, <1>11, <1>12
  DEF Next, CallStep, BeginStep, MainStep, DeliverToMainloop, LockDeliver, LockCond,
      CheckCond, SpuriousWakeup, ResetCond, UnlockDeliver, InitNoLoop, InitEnd,
      InitAgain, DeinitAgain, DeinitBegin, DeinitJoin, vars, loop

(* A caller on its way to sleep keeps its command on its way: the pipe     *)
(* was open when it wrote, only the loop takes the command out, and the    *)
(* loop does not close the pipe while somebody is in deliverToMainloop.    *)
LEMMA WakeStep ==
  IInv /\ RunInv /\ SerialInv /\ ~ raced' /\ [Next]_vars => WakeInv'
<1> SUFFICES ASSUME IInv, RunInv, SerialInv, ~ raced', [Next]_vars PROVE WakeInv'
  OBVIOUS
<1>f. TypeOK /\ MutexInv /\ LoopInv /\ AloneInv /\ QuitInv /\ WakeInv
  BY DEF IInv, SerialInv
<1> DEFINE Sleepy == {"lockCond", "check", "wait"}
<1> USE DEF WakeInv
<1>k. ASSUME \A u \in Threads : pc'[u] \in Sleepy => pc[u] \in Sleepy,
             UNCHANGED gMainLoopCondValue,
             \A u \in Threads : Outstanding(u) => Outstanding(u)'
      PROVE  WakeInv'
  BY <1>f, <1>k
<1>w. ASSUME NEW c \in Commands, WritePipe(c), UNCHANGED hand
      PROVE  \A u \in Threads : Outstanding(u) => Outstanding(u)'
  BY <1>f, <1>w, WriteFacts DEF Outstanding, InPipe
<1>1. ASSUME NEW t \in Threads, LifecycleSet(t) \/ DeinitPrepare(t) \/ DeinitQuit(t)
      PROVE  WakeInv'
  <2>1. \A u \in Threads : Outstanding(u) => Outstanding(u)'
    BY <1>1, <1>w, CommandFacts DEF LifecycleSet, DeinitPrepare, DeinitQuit, loop
  <2> QED
    BY <1>1, <1>f, <1>k, <2>1
    DEF LifecycleSet, DeinitPrepare, DeinitQuit, Goto, TypeOK, sync
<1>2. CASE DbusRequest
  <2>1. CASE WritePipe([cmd |-> "prepare", from |-> Main])
    BY <1>2, <1>k, <1>w, <2>1, CommandFacts DEF DbusRequest, sync
  <2>2. CASE UNCHANGED pipe
    BY <1>2, <1>k, <2>2 DEF DbusRequest, sync, Outstanding, InPipe
  <2> QED
    BY <1>2, <1>f, <2>1, <2>2, RequestFacts DEF LoopInv
<1>3. ASSUME NEW t \in Threads, DeliverWrite(t) PROVE WakeInv'
  <2>1. pipeOpen
    BY <1>3, <1>f, EndingFacts, JoiningFacts DEF DeliverWrite, AloneInv, LoopInv
  <2>2. Outstanding(t)'
    <3>1. WritePipe([cmd |-> "call", from |-> t]) /\ [cmd |-> "call", from |-> t] \in Commands
      BY <1>3, CommandFacts DEF DeliverWrite
    <3> QED
      BY <1>f, <2>1, <3>1, WriteFacts DEF Outstanding, InPipe
  <2>3. \A u \in Threads \ {t} : pc'[u] \notin Sleepy
    BY <1>3, <1>f DEF DeliverWrite, MutexInv, InDelivery, Goto, TypeOK
  <2> QED
    BY <2>2, <2>3
<1>4. ASSUME NEW t \in Threads, ResetCond(t) PROVE WakeInv'
  BY <1>4, <1>f DEF ResetCond, MutexInv, InDelivery, Goto, TypeOK
<1>5. CASE MainRead
  <2>1. ASSUME NEW u \in Threads, Outstanding(u) PROVE Outstanding(u)'
    <3>1. PICK i \in 1 .. Len(pipe) : pipe[i].from = u /\ pipe[i].cmd = "call"
      BY <1>5, <1>f, <2>1, CommandFacts DEF Outstanding, InPipe, MainRead, LoopInv
    <3>2. CASE i = 1
      BY <1>5, <1>f, <3>1, <3>2, ReadFacts DEF Outstanding, Commands
    <3>3. CASE i # 1
      <4>1. i - 1 \in 1 .. Len(pipe') /\ pipe'[i - 1] = pipe[i]
        BY <1>5, <1>f, <3>3, ReadFacts
      <4> QED
        BY <3>1, <4>1 DEF Outstanding, InPipe
    <3> QED
      BY <3>2, <3>3
  <2> QED
    BY <1>5, <1>k, <2>1 DEF MainRead, sync
<1>6. CASE MainDispatch
  BY <1>6 DEF MainDispatch, WakeUp
<1>7. CASE MainExit
  BY <1>7, EndingFacts, JoiningFacts, <1>f DEF MainExit, AloneInv
<1>8. ASSUME NEW t \in Threads, NEW mode \in BOOLEAN, InitBegin(t, mode) PROVE WakeInv'
  <2>1. \A u \in Threads : pc'[u] \in Sleepy => FALSE
    <3>1. ~ Overlap'
      BY <1>f, HistoryFacts DEF AloneInv, Overlap, vars, lib
    <3>2. gInitMutex' = t /\ pc'[t] \notin Sleepy
      BY <1>8, <1>f DEF InitBegin, RegisterLifecycle, EnterDeliver, Goto, TypeOK
    <3> QED
      BY <3>1, <3>2 DEF Overlap
  <2> QED
    BY <2>1
<1>9. ASSUME UNCHANGED <<gMainLoopCondValue, pipe, hand>>,
             \A u \in Threads : pc'[u] \in Sleepy => pc[u] \in Sleepy
      PROVE  WakeInv'
  BY <1>9, <1>k DEF Outstanding, InPipe
<1>10. CASE MainLock \/ UNCHANGED vars
  BY <1>9, <1>10 DEF MainLock, vars, sync, loop
<1>11. ASSUME NEW t \in Threads,
              DeliverToMainloop(t) \/ LockDeliver(t) \/ LockCond(t) \/ CheckCond(t)
                \/ SpuriousWakeup(t) \/ UnlockDeliver(t)
                \/ (\E mode \in BOOLEAN : InitNoLoop(t, mode))
                \/ InitEnd(t) \/ InitAgain(t) \/ DeinitAgain(t) \/ DeinitBegin(t)
                \/ DeinitJoin(t)
       PROVE  WakeInv'
  <2>1. \A u \in Threads : pc'[u] \in Sleepy => pc[u] \in Sleepy
    BY <1>11, <1>f DEF DeliverToMainloop, LockDeliver, LockCond, CheckCond,
       SpuriousWakeup, UnlockDeliver, InitNoLoop, InitEnd, InitAgain, DeinitAgain,
       DeinitBegin, DeinitJoin, UnregisterLifecycle, EnterDeliver, Goto, TypeOK
  <2> HIDE DEF WakeInv, Sleepy
  <2> QED
    BY <1>9, <1>11, <2>1 DEF DeliverToMainloop, LockDeliver, LockCond, CheckCond,
       SpuriousWakeup, UnlockDeliver, InitNoLoop, InitEnd, InitAgain, DeinitAgain,
       DeinitBegin, DeinitJoin, sync, loop
<1> HIDE DEF WakeInv
<1> QED
  BY <1>1, <1>2, <1>3, <1>4, <1>5, <1>6, <1>7, <1>8, <1>10, <1>11
  DEF Next, CallStep, BeginStep, MainStep

(* What holds at all times, and what holds until a call overlaps.          *)
FullInv == IInv /\ RunInv /\ (~ raced => SerialInv)

(* The whole invariant holds.                                              *)
THEOREM FullCorrect == Spec => []FullInv
<1>1. Init => RunInv /\ SerialInv
  BY ThreadAssumption, CommandFacts
  DEF Init, RunInv, SerialInv, AloneInv, Overlap, QuitInv, WakeInv
<1>2. FullInv /\ [Next]_vars => FullInv'
  <2> SUFFICES ASSUME FullInv, [Next]_vars PROVE FullInv'
    OBVIOUS
  <2>1. IInv' /\ RunInv'
    BY IInvStep, RunStep DEF FullInv
  <2>2. ASSUME ~ raced' PROVE SerialInv'
    <3>1. SerialInv
      BY <2>2, HistoryFacts DEF FullInv, IInv
    <3> QED
      BY <2>2, <3>1, AloneStep, QuitStep, WakeStep DEF FullInv, SerialInv
  <2> QED
    BY <2>1, <2>2 DEF FullInv
<1>3. Init => FullInv
  BY <1>1, IInvInit DEF FullInv
<1> QED
  BY <1>2, <1>3, PTL DEF Spec

(* A thread never sleeps in deliverToMainloop without a command of its own *)
(* on the way, for any number of threads and any capacity of the pipe, as  *)
(* long as no call has overlapped pclInitLibrary and pclDeinitLibrary.     *)
THEOREM NoLostWakeupCorrect == Spec => []NoLostWakeup
<1>1. FullInv => NoLostWakeup
  BY DEF FullInv, IInv, SerialInv, CondInv, WakeInv, NoLostWakeup, Stranded
<1> QED
  BY <1>1, FullCorrect, PTL

(* While the library is initialised its loop runs, whatever calls overlap, *)
(* and the loop ends without losing a command that somebody was told is    *)
(* delivered, unless a call has overlapped an init or deinit.              *)
THEOREM LoopServesCorrect == Spec => []LoopServes
<1>1. FullInv => (~ raced => NoCallLostAtQuit)
  BY DEF FullInv, SerialInv, QuitInv, IsCall, NoCallLostAtQuit, InPipe
<1>2. FullInv => InitialisedMeansRunning
  <2> SUFFICES ASSUME FullInv PROVE InitialisedMeansRunning
    OBVIOUS
  <2>1. TypeOK /\ LoopInv /\ RunInv /\ IInv
    BY DEF FullInv, IInv
  <2>2. gInitMutex = NoThread => ~ Joining
    BY <2>1, JoiningFacts
  <2> QED
    BY <2>1, <2>2 DEF InitialisedMeansRunning, TypeOK, LoopInv, RunInv
<1>3. FullInv => TypeOK
  BY DEF FullInv, IInv
<1> QED
  BY <1>1, <1>2, <1>3, FullCorrect, PTL DEF LoopServes

=============================================================================

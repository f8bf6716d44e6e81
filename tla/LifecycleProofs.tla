--------------------------- MODULE LifecycleProofs ---------------------------
(***************************************************************************)
(* Two components that share the session of the library.                   *)
(*                                                                         *)
(* The access gate of module Lifecycle, proved for every set of writers,   *)
(* every bound and both builds (with and without the PAS interface).       *)
(*                                                                         *)
(* The registration with the administration service of module PasRegister, *)
(* proved for every number of threads, of restarts of the service, of      *)
(* sessions and of time-outs.                                              *)
(***************************************************************************)
EXTENDS Lifecycle, PasRegister, TLAPS, FiniteSetTheorems, SequenceTheorems

-----------------------------------------------------------------------------
(* The access gate                                                         *)

(* What gLockAccess holds at each moment.  GateFollowsRequests is not      *)
(* inductive: between the two halves of pers_lock_access the value is 0,   *)
(* or below 0 when somebody has unlocked meanwhile, and only then does the *)
(* increment leave the gate open.                                          *)
GateInv ==
  /\ gLockAccess \in Int
  /\ gate \in {"open", "closing", "locked"}
  /\ mainPc \in {"poll", "store", "add", "flush", "ended"}
  /\ gate = "closing" => mainPc = "add"
  /\ (gate = "locked" /\ mainPc # "add") => gLockAccess = 1
  /\ (gate # "open" /\ mainPc = "add") => gLockAccess = 0
  /\ (gate = "open" /\ mainPc = "add") => gLockAccess < 0
  /\ gate = "open" => gLockAccess <= 0

(* In the initial state the gate is open and gLockAccess is 0.             *)
LEMMA GateInit == Init => GateInv
  BY DEF Init, GateInv

(* Every step of the library preserves GateInv; the steps that matter are  *)
(* the unlocks and the two halves of pers_lock_access.                     *)
LEMMA GateStep == GateInv /\ [Next]_vars => GateInv'
<1> SUFFICES ASSUME GateInv, [Next]_vars PROVE GateInv'
  OBVIOUS
<1> USE CountAssumption
<1>1. CASE \E w \in Writers : WriteEnter(w) \/ WriteCheck(w) \/ Write(w)
  BY <1>1 DEF WriteEnter, WriteCheck, Write, GateInv, lock, main
<1>2. CASE LifecycleSetShutdown
  BY <1>2 DEF LifecycleSetShutdown, GateInv, lock, main
<1>3. CASE LifecycleSetCancel \/ CancelUnlock
  BY <1>3 DEF LifecycleSetCancel, CancelUnlock, UnlockAccess, GateInv, lock, main
<1>4. CASE (\E r \in NsmRequests : NsmShutdown(r)) \/ PasBlock
  BY <1>4 DEF NsmShutdown, PasBlock, GateInv, lock, main
<1>5. CASE PasUnblock
  BY <1>5 DEF PasUnblock, UnlockAccess, GateInv, main
<1>6. CASE MainTake
  BY <1>6 DEF MainTake, GateInv, lock
<1>7. CASE LockStore
  BY <1>7 DEF LockStore, GateInv
<1>8. CASE LockAdd
  BY <1>8 DEF LockAdd, GateInv
<1>9. CASE MainFlush \/ MainBlocked
  BY <1>9 DEF MainFlush, MainBlocked, GateInv, lock
<1>10. CASE \E mode \in BOOLEAN : InitLibrary(mode)
  BY <1>10 DEF InitLibrary, UnlockAccess, GateInv, lock
<1>11. CASE InitAgain \/ DeinitAgain \/ DeinitBegin \/ DeinitQuit
  BY <1>11 DEF InitAgain, DeinitAgain, DeinitBegin, DeinitQuit, GateInv, lock, main
<1>12. CASE DeinitJoin
  BY <1>12 DEF DeinitJoin, GateInv, lock
<1>13. CASE UNCHANGED vars
  BY <1>13 DEF vars, lock, main, GateInv
<1> QED
  BY <1>1, <1>2, <1>3, <1>4, <1>5, <1>6, <1>7, <1>8, <1>9, <1>10, <1>11, <1>12,
     <1>13 DEF Next, MainStep, AppStep, OpenStep

(* The gate does what it was last asked to do, whatever the number and     *)
(* the order of locks and unlocks: pers_lock_access, pers_unlock_access    *)
(* and isAccessLocked together behave like a lock.                         *)
THEOREM GateCorrect == Spec => []GateFollowsRequests
<1>1. GateInv => GateFollowsRequests
  BY DEF GateInv, GateFollowsRequests, AccessLocked
<1> QED
  BY <1>1, GateInit, GateStep, PTL DEF Spec

(* A barred gate: the counter has reached its limit, no cancel is under    *)
(* way, and only pers_lock_access itself moves gLockAccess.                *)
BarInv == barred => /\ gCancelCounter \in Nat /\ gCancelCounter >= Shutdown_MaxCount
                    /\ ~ canceling
                    /\ gLockAccess = IF mainPc = "add" THEN 0 ELSE 1

(* Every step keeps a barred gate closed: the cancel is refused, and both  *)
(* halves of pers_lock_access go from 1 over 0 to 1 again.                 *)
LEMMA BarStep ==
  GateInv /\ BarInv /\ gCancelCounter \in Nat /\ [Next]_vars
     => BarInv' /\ gCancelCounter' \in Nat
<1> SUFFICES ASSUME GateInv, BarInv, gCancelCounter \in Nat, [Next]_vars
             PROVE  BarInv' /\ gCancelCounter' \in Nat
  OBVIOUS
<1>n. /\ gCancelCounter' = gCancelCounter \/ gCancelCounter' = gCancelCounter + 1
      /\ gCancelCounter' \in Nat
  BY DEF Next, AppStep, MainStep, OpenStep, WriteEnter, WriteCheck, Write,
     LifecycleSetShutdown, LifecycleSetCancel, CancelUnlock, NsmShutdown, PasBlock,
     PasUnblock, MainTake, LockStore, LockAdd, MainFlush, MainBlocked, InitLibrary,
     InitAgain, DeinitAgain, DeinitBegin, DeinitQuit, DeinitJoin, vars, set
<1>g. GateInv'
  BY GateStep
<1>1. ASSUME ~ barred, Bar PROVE BarInv'
  <2>1. barred' => Final'
    BY <1>1, Zenon DEF Bar
  <2>2. Final' => /\ gCancelCounter' >= Shutdown_MaxCount /\ ~ canceling'
                  /\ gLockAccess' = 1
    BY DEF Final, AccessLocked
  <2>3. gLockAccess' = 1 => mainPc' # "add"
    BY <1>g DEF GateInv
  <2> QED
    BY <1>n, <2>1, <2>2, <2>3 DEF BarInv
<1>2. CASE OpenStep /\ barred' = FALSE
  BY <1>2, <1>n DEF BarInv
<1>3. CASE UNCHANGED vars
  BY <1>3, <1>n DEF vars, lock, main, set, BarInv
<1>4. ASSUME barred, AppStep PROVE BarInv'
  <2>1. ~ LifecycleSetCancel /\ ~ CancelUnlock
    BY <1>4, CountAssumption DEF BarInv, LifecycleSetCancel, CancelUnlock
  <2>2. UNCHANGED <<gLockAccess, mainPc, canceling>>
    BY <1>4, <2>1 DEF AppStep, WriteEnter, WriteCheck, Write, LifecycleSetShutdown,
       NsmShutdown, PasBlock, InitAgain, DeinitAgain, DeinitBegin, DeinitQuit,
       DeinitJoin, lock, main, set
  <2> QED
    BY <1>4, <1>n, <2>2, CountAssumption DEF BarInv
<1>5. ASSUME barred, MainStep PROVE BarInv'
  <2>1. UNCHANGED canceling
    BY <1>5 DEF MainStep, MainTake, LockStore, LockAdd, MainFlush, MainBlocked, set
  <2>2. gLockAccess' = IF mainPc' = "add" THEN 0 ELSE 1
    <3>1. CASE MainTake
      BY <1>5, <3>1 DEF MainTake, BarInv, lock
    <3>2. CASE LockStore
      BY <1>5, <3>2 DEF LockStore, BarInv
    <3>3. CASE LockAdd
      BY <1>5, <3>3 DEF LockAdd, BarInv
    <3>4. CASE MainFlush
      BY <1>5, <3>4 DEF MainFlush, BarInv, lock
    <3>5. CASE MainBlocked
      BY <1>5, <3>5 DEF MainBlocked, BarInv, lock
    <3> QED
      BY <1>5, <3>1, <3>2, <3>3, <3>4, <3>5 DEF MainStep
  <2> QED
    BY <1>5, <1>n, <2>1, <2>2, CountAssumption DEF BarInv
<1>6. MainStep => BarInv'
  BY <1>1, <1>5, Zenon DEF MainStep
<1>7. AppStep /\ Bar => BarInv'
  BY <1>1, <1>4, Zenon
<1>8. BarInv'
  BY <1>2, <1>3, <1>6, <1>7 DEF Next
<1> QED
  BY <1>n, <1>8

(* The limit of pclLifecycleSet is final: a gate that was closed with the  *)
(* limit reached refuses every writer, but for the moment between the two  *)
(* halves of a further pers_lock_access, until the administration service  *)
(* or a new session opens it.                                              *)
THEOREM LimitCorrect == Spec => []LimitIsFinal
<1> DEFINE Inv == GateInv /\ BarInv /\ gCancelCounter \in Nat
<1>1. Init => Inv
  BY GateInit DEF Init, BarInv
<1>2. Inv /\ [Next]_vars => Inv'
  BY GateStep, BarStep
<1>3. Inv => LimitIsFinal
  BY DEF BarInv, LimitIsFinal, AccessLocked
<1> QED
  BY <1>1, <1>2, <1>3, PTL DEF Spec

(* A command that is posted is one of Commands and finds room in the pipe. *)
LEMMA TypePost ==
  ASSUME TypeOK, NEW c \in Commands, Post(c)
  PROVE  pipe' \in Seq(Commands) /\ Len(pipe') <= PipeCapacity
<1>1. CASE mainPc = "ended"
  BY <1>1 DEF Post, TypeOK
<1>2. CASE mainPc # "ended"
  BY <1>2, CountAssumption DEF Post, TypeOK
<1> QED
  BY <1>1, <1>2

(* Types are preserved.  That gLockAccess never exceeds 1 is not a matter  *)
(* of types: it needs that pers_lock_access stores before it adds, GateInv.*)
LEMMA TypeStep == TypeOK /\ GateInv' /\ [Next]_vars => TypeOK'
<1> SUFFICES ASSUME TypeOK, GateInv', [Next]_vars PROVE TypeOK'
  OBVIOUS
<1>b. barred' \in BOOLEAN
  <2>1. CASE Bar
    BY <2>1, Zenon DEF Bar
  <2>2. CASE barred' = FALSE
    BY <2>2
  <2>3. CASE barred' = barred
    BY <2>3 DEF TypeOK
  <2> QED
    BY <2>1, <2>2, <2>3 DEF Next, MainStep, vars
<1> USE CountAssumption, <1>b
<1>1. ASSUME NEW w \in Writers, WriteEnter(w) \/ WriteCheck(w) \/ Write(w)
      PROVE  TypeOK'
  <2>1. CASE WriteEnter(w)
    BY <2>1 DEF WriteEnter, TypeOK, lib, lock, main, set
  <2>2. CASE WriteCheck(w)
    BY <2>2 DEF WriteCheck, TypeOK, lib, lock, main, set
  <2>3. CASE Write(w)
    BY <2>3 DEF Write, TypeOK, lib, lock, main, set
  <2> QED
    BY <1>1, <2>1, <2>2, <2>3
<1>2. CASE LifecycleSetShutdown
  <2>1. pipe' \in Seq(Commands) /\ Len(pipe') <= PipeCapacity
    BY <1>2, TypePost DEF LifecycleSetShutdown, Commands
  <2> QED
    BY <1>2, <2>1 DEF LifecycleSetShutdown, TypeOK, lib, lock, main, app
<1>3. CASE LifecycleSetCancel \/ CancelUnlock
  <2>1. CASE LifecycleSetCancel
    BY <2>1 DEF LifecycleSetCancel, TypeOK, lib, lock, main, app
  <2>2. CASE CancelUnlock
    <3>1. gLockAccess' \in - MaxUnlocks .. 1 /\ gate' = "open"
      BY <2>2 DEF CancelUnlock, UnlockAccess, TypeOK
    <3> QED
      BY <2>2, <3>1 DEF CancelUnlock, TypeOK, lib, main, app
  <2> QED
    BY <1>3, <2>1, <2>2
<1>4. ASSUME NEW r \in NsmRequests, NsmShutdown(r) PROVE TypeOK'
  <2>1. pipe' \in Seq(Commands) /\ Len(pipe') <= PipeCapacity
    BY <1>4, TypePost DEF NsmShutdown, Commands, TypeOK
  <2> QED
    BY <1>4, <2>1 DEF NsmShutdown, TypeOK, lib, lock, app, set
<1>5. CASE PasBlock
  <2>1. pipe' \in Seq(Commands) /\ Len(pipe') <= PipeCapacity
    BY <1>5, TypePost DEF PasBlock, Commands
  <2> QED
    BY <1>5, <2>1 DEF PasBlock, TypeOK, lib, lock, main, app, set
<1>6. CASE PasUnblock
  BY <1>6 DEF PasUnblock, UnlockAccess, TypeOK, lib, main, app, set
<1>7. CASE MainTake
  <2>1. Head(pipe) \in Commands /\ Tail(pipe) \in Seq(Commands)
          /\ Len(Tail(pipe)) <= PipeCapacity
    BY <1>7 DEF MainTake, TypeOK
  <2> QED
    BY <1>7, <2>1 DEF MainTake, TypeOK, lib, lock, app, set
<1>8. CASE LockStore
  BY <1>8 DEF LockStore, TypeOK, lib, app, set
<1>9. CASE LockAdd
  <2>1. gLockAccess' \in - MaxUnlocks .. 1
    BY <1>9 DEF LockAdd, TypeOK, GateInv
  <2> QED
    BY <1>9, <2>1 DEF LockAdd, TypeOK, lib, app, set
<1>10. CASE MainFlush \/ MainBlocked
  BY <1>10 DEF MainFlush, MainBlocked, SendLifecycleRequest, TypeOK, lib, lock, app, set
<1>11. ASSUME NEW mode \in BOOLEAN, InitLibrary(mode) PROVE TypeOK'
  BY <1>11 DEF InitLibrary, UnlockAccess, TypeOK, lock, app
<1>12. CASE InitAgain \/ DeinitAgain
  BY <1>12 DEF InitAgain, DeinitAgain, TypeOK, lock, main, app, set
<1>13. CASE DeinitBegin \/ DeinitQuit
  <2>1. pipe' \in Seq(Commands) /\ Len(pipe') <= PipeCapacity
    BY <1>13, TypePost DEF DeinitBegin, DeinitQuit, Commands
  <2> QED
    BY <1>13, <2>1 DEF DeinitBegin, DeinitQuit, TypeOK, lock, main, app, set
<1>14. CASE DeinitJoin
  BY <1>14 DEF DeinitJoin, TypeOK, lock, app, set
<1>15. CASE UNCHANGED vars
  BY <1>15 DEF vars, lib, lock, main, app, set, TypeOK
<1> QED
  BY <1>1, <1>2, <1>3, <1>4, <1>5, <1>6, <1>7, <1>8, <1>9, <1>10, <1>11, <1>12,
     <1>13, <1>14, <1>15 DEF Next, MainStep, AppStep, OpenStep

(* Type correctness; in particular gLockAccess, on which every reader      *)
(* compares with 1 only, never exceeds 1, however locks and unlocks of the *)
(* application, the NSM and the PAS follow each other.                     *)
THEOREM TypeCorrect == Spec => []TypeOK
<1>1. Init => TypeOK
  <2> SUFFICES ASSUME Init PROVE TypeOK
    OBVIOUS
  <2>1. pipe \in Seq(Commands) /\ Len(pipe) <= PipeCapacity
    BY CountAssumption DEF Init
  <2>2. writer \in [Writers -> {"idle", "entered", "admitted"}]
    BY DEF Init
  <2>3. gLockAccess \in - MaxUnlocks .. 1
    BY CountAssumption DEF Init
  <2>4. gPclInitCounter \in 0 .. MaxInit /\ gCancelCounter \in 0 .. MaxShutdowns
    BY CountAssumption DEF Init
  <2> QED
    BY <2>1, <2>2, <2>3, <2>4 DEF Init, TypeOK
<1> QED
  BY <1>1, TypeStep, GateInit, GateStep, PTL DEF Spec

-----------------------------------------------------------------------------
(* The registration                                                        *)

(* One registration at a time: where it is, and where its command, its     *)
(* call and its answer are meanwhile.                                      *)
Busy(t) == thread[t].pc # "idle"

OneAtATime == \A s, t \in Threads : Busy(s) /\ Busy(t) => s = t

Nothing  == cmds = <<>> /\ calls = <<>> /\ gDbusPendingCondValue = 0
Called   == cmds = <<>> /\ Len(calls) = 1 /\ gDbusPendingCondValue = 0
Signaled == cmds = <<>> /\ calls = <<>> /\ gDbusPendingCondValue = 1

Channel(t) ==
  /\ thread[t].pc \in {"start", "result", "store"} => Nothing
  /\ thread[t].pc = "deliver" => cmds = <<t>> /\ calls = <<>> /\ gDbusPendingCondValue = 0
  /\ thread[t].pc = "check" => Called \/ Signaled
  /\ thread[t].pc = "blocked" => Called
  /\ thread[t].pc = "reset" => Signaled

(* Whose registration it is: that of pclInitLibrary or pclDeinitLibrary,   *)
(* or of a thread that the handler has started.                            *)
Owners ==
  /\ library = "off" => signals = <<>>
  /\ Busy(Main) <=> library \in {"starting", "ending"}
  /\ thread[Main].pc # "start"
  /\ Busy(Main) => (thread[Main].kind = "register" <=> library = "starting")
  /\ \A t \in Spawned : thread[t].kind = "register" /\ (Busy(t) => library \in {"failed", "on"})

Handshake ==
  /\ OneAtATime
  /\ \A t \in Threads : Channel(t)
  /\ NobodyWaits => Nothing
  /\ Owners

(* What a registration was told.                                           *)
Told(t, v) ==
  \/ calls # <<>> /\ calls[1].answered /\ v = calls[1].arg
  \/ thread[t].pc \in {"check", "reset", "result"} /\ calls = <<>> /\ v = gDbusPendingRvalue
  \/ thread[t].pc = "store" /\ v = thread[t].rval

SameKind ==
  \A t \in Threads : thread[t].pc \in {"check", "blocked"} /\ calls # <<>>
                       => calls[1].kind = thread[t].kind

(* The signals on their way alternate, and the last one is the news.       *)
SignalsTell ==
  /\ \A k \in 1 .. Len(signals) - 1 : signals[k] # signals[k + 1]
  /\ signals # <<>> => (signals[Len(signals)] = "appeared" <=> up)

(* No signal on its way says that the service has disappeared.             *)
NoLoss == signals = <<>> \/ (Len(signals) = 1 /\ signals[1] = "appeared")

(* An answer is true of the service as it is now, or a signal that will    *)
(* correct it is on its way.                                               *)
Fits(v) ==
  /\ v \in {0, -1}
  /\ v = 0 /\ NoLoss => up /\ known
  /\ v = -1 /\ signals = <<>> => ~ up

(* So is gPasRegistered.                                                   *)
Settled ==
  /\ signals = <<>> => (gPasRegistered = 1 <=> up) /\ (known <=> up)
  /\ NoLoss /\ gPasRegistered = 1 => known

Honest ==
  /\ late = <<>> /\ library # "failed"
  /\ library \in {"off", "starting"} => gPasRegistered = 0
  /\ \A t \in Spawned : Busy(t) => gPasRegistered = 0
  /\ \A t \in Threads, v \in Values :
       Busy(t) /\ thread[t].kind = "register" /\ Told(t, v) => Fits(v)
  /\ library = "on" /\ NobodyWaits => Settled

Truth == (known => up) /\ SameKind /\ SignalsTell /\ (~ lapsed => Honest)

(* Of a message that could not be sent no answer comes, and its caller     *)
(* waits for ever.                                                         *)
Forsaken(t) == /\ thread[t].pc \in {"check", "blocked"}
               /\ \A s \in Threads \ {t} : thread[s].pc = "idle"

Stuck == Nothing /\ \E t \in Threads : Forsaken(t)

RegInv ==
  /\ RegTypeOK
  /\ ~ crossed /\ ~ unsent => Handshake
  /\ ~ crossed /\ ~ unsent /\ ~ overtaken => Truth
  /\ ~ crossed /\ unsent => Stuck

(* A sequence of one is not empty.                                         *)
LEMMA NotEmpty == ASSUME NEW S, NEW s \in Seq(S), Len(s) = 1 PROVE s # <<>>
  OBVIOUS

(* Taking a pending call out leaves a sequence of calls.                   *)
LEMMA RemoveAtType ==
  ASSUME NEW S, NEW s \in Seq(S), NEW k \in 1 .. Len(s)
  PROVE  RemoveAt(s, k) \in Seq(S) /\ (Len(s) = 1 => RemoveAt(s, k) = <<>>)
<1>1. SubSeq(s, 1, k - 1) \in Seq(S) /\ SubSeq(s, k + 1, Len(s)) \in Seq(S)
  OBVIOUS
<1>2. RemoveAt(s, k) \in Seq(S)
  BY <1>1 DEF RemoveAt
<1>3. ASSUME Len(s) = 1 PROVE RemoveAt(s, k) = <<>>
  <2>1. k = 1
    BY <1>3
  <2>2. SubSeq(s, 1, 0) = <<>> /\ SubSeq(s, 2, 1) = <<>>
    OBVIOUS
  <2> QED
    BY <1>3, <2>1, <2>2 DEF RemoveAt
<1> QED
  BY <1>2, <1>3

Places == {"idle", "start", "deliver", "check", "blocked", "reset", "result", "store"}
Thread == [pc : Places, kind : Kinds, rval : Values]

(* The constants.                                                          *)
LEMMA RegisterFacts ==
  /\ Main \in Threads /\ Spawned \subseteq Threads /\ Main \notin Spawned
  /\ \A t \in Threads : t = Main \/ t \in Spawned
  /\ IsFiniteSet(Threads) /\ Answers \subseteq Int /\ Values \subseteq Int
  /\ 0 \in Values /\ -1 \in Values /\ Answers \subseteq Values
  /\ MaxChanges \in Nat /\ MaxSessions \in Nat /\ MaxTimeouts \in Nat
<1>1. IsFiniteSet(Spawned \cup {Main})
  BY RegisterAssumption, FS_AddElement
<1>2. Threads = Spawned \cup {Main}
  BY DEF Threads
<1> QED
  BY <1>1, <1>2, RegisterAssumption DEF Threads, Values

(* A thread that goes to another place is a thread.                        *)
LEMMA GotoType ==
  ASSUME thread \in [Threads -> Thread], NEW t \in Threads, NEW place \in Places, Goto(t, place)
  PROVE  /\ thread' \in [Threads -> Thread]
         /\ thread'[t] = [pc |-> place, kind |-> thread[t].kind, rval |-> thread[t].rval]
         /\ thread'[t].pc = place /\ thread'[t].kind = thread[t].kind
         /\ \A s \in Threads \ {t} : thread'[s] = thread[s]
<1>1. thread' = [thread EXCEPT ![t].pc = place]
  BY DEF Goto
<1>2. thread[t] \in Thread
  OBVIOUS
<1>3. /\ thread'[t] = [thread[t] EXCEPT !.pc = place]
      /\ \A s \in Threads \ {t} : thread'[s] = thread[s]
  BY <1>1
<1>4. thread'[t] = [pc |-> place, kind |-> thread[t].kind, rval |-> thread[t].rval]
  BY <1>2, <1>3 DEF Thread
<1>5. thread'[t] \in Thread /\ thread'[t].pc = place /\ thread'[t].kind = thread[t].kind
  BY <1>2, <1>4 DEF Thread
<1> QED
  BY <1>1, <1>3, <1>4, <1>5

(* So is one that has put its command in the pipe.                         *)
LEMMA DeliverType ==
  ASSUME thread \in [Threads -> Thread], cmds \in Seq(Threads), NEW t \in Threads,
         NEW kind \in Kinds, Deliver(t, kind)
  PROVE  /\ thread' \in [Threads -> Thread] /\ cmds' \in Seq(Threads) /\ cmds' = Append(cmds, t)
         /\ thread'[t] = [pc |-> "deliver", kind |-> kind, rval |-> 0]
         /\ \A s \in Threads \ {t} : thread'[s] = thread[s]
<1>1. [pc |-> "deliver", kind |-> kind, rval |-> 0] \in Thread
  BY RegisterFacts DEF Thread, Places
<1> QED
  BY <1>1 DEF Deliver

(* An answered call is a call.                                             *)
LEMMA AnsweredType ==
  ASSUME calls \in Seq(NoAnswer), NEW k \in DOMAIN calls, NEW v \in Values, Answered(k, v)
  PROVE  /\ calls' \in Seq(NoAnswer) /\ Len(calls') = Len(calls)
         /\ calls'[k] = [kind |-> calls[k].kind, answered |-> TRUE, arg |-> v]
<1>1. calls' = [calls EXCEPT ![k].answered = TRUE, ![k].arg = v]
  BY DEF Answered
<1>2. calls[k] \in NoAnswer
  OBVIOUS
<1>3. calls'[k] = [[calls[k] EXCEPT !.answered = TRUE] EXCEPT !.arg = v]
  BY <1>1
<1>4. calls'[k] = [kind |-> calls[k].kind, answered |-> TRUE, arg |-> v]
  BY <1>2, <1>3 DEF NoAnswer
<1>5. calls'[k] \in NoAnswer
  BY <1>2, <1>4 DEF NoAnswer
<1>6. calls' = [calls EXCEPT ![k] = calls'[k]]
  BY <1>1, <1>3
<1> DEFINE e == calls'[k]
<1>7. e \in NoAnswer /\ calls' = [calls EXCEPT ![k] = e] /\ k \in 1 .. Len(calls)
  BY <1>5, <1>6
<1> HIDE DEF e
<1>8. calls' \in Seq(NoAnswer) /\ Len(calls') = Len(calls)
  BY <1>7, ExceptSeq
<1> QED
  BY <1>4, <1>8

(* A step by which the bus or the service answers a call.                  *)
LEMMA BusType ==
  ASSUME RegTypeOK, NEW k \in DOMAIN calls,
         (\E a \in Answers : ServiceAnswers(k, a)) \/ BusAnswers(k) \/ TimesOut(k)
  PROVE  RegTypeOK'
<1> USE RegisterFacts
<1>1. calls \in Seq(NoAnswer) /\ calls[k] \in NoAnswer
  BY DEF RegTypeOK
<1>2. ASSUME NEW a \in Answers, ServiceAnswers(k, a) PROVE RegTypeOK'
  <2>1. calls' \in Seq(NoAnswer)
    BY <1>1, <1>2, AnsweredType DEF ServiceAnswers
  <2>2. known' \in BOOLEAN /\ lapsed' \in BOOLEAN
    <3>1. /\ known' = IF calls[k].kind = "register" THEN known \/ a >= 0 ELSE FALSE
          /\ lapsed' = (lapsed \/ a # 0)
      BY <1>2 DEF ServiceAnswers
    <3> QED
      BY <3>1, Zenon
  <2> QED
    BY <1>2, <2>1, <2>2 DEF ServiceAnswers, RegTypeOK, cond, session, history, mishaps
<1>3. CASE BusAnswers(k)
  <2>1. calls' \in Seq(NoAnswer)
    BY <1>1, <1>3, AnsweredType DEF BusAnswers
  <2> QED
    BY <1>3, <2>1 DEF BusAnswers, RegTypeOK, service, cond, session, history, mishaps
<1>4. CASE TimesOut(k)
  <2>1. calls' \in Seq(NoAnswer)
    BY <1>1, <1>4, AnsweredType DEF TimesOut
  <2>2. late' \in Seq(Kinds) /\ timeouts' \in 0 .. MaxTimeouts
    BY <1>1, <1>4 DEF TimesOut, NoAnswer, RegTypeOK
  <2>3. lapsed' \in BOOLEAN
    BY <1>4, Zenon DEF TimesOut
  <2> QED
    BY <1>4, <2>1, <2>2, <2>3 DEF TimesOut, RegTypeOK, cond, session, history, mishaps
<1> QED
  BY <1>2, <1>3, <1>4

(* A step of the service itself.                                           *)
LEMMA ServiceType ==
  ASSUME RegTypeOK, ServiceAppears \/ ServiceDisappears \/ LateCall
  PROVE  RegTypeOK'
<1> USE RegisterFacts
<1>1. CASE ServiceAppears
  <2>1. up' \in BOOLEAN
    BY <1>1, Zenon DEF ServiceAppears
  <2>2. signals' \in Seq({"appeared", "disappeared"}) /\ changes' \in 0 .. MaxChanges
    BY <1>1 DEF ServiceAppears, RegTypeOK
  <2> QED
    BY <1>1, <2>1, <2>2 DEF ServiceAppears, RegTypeOK, cond, session, history, mishaps
<1>2. CASE ServiceDisappears
  <2>1. up' \in BOOLEAN /\ known' \in BOOLEAN
    BY <1>2, Zenon DEF ServiceDisappears
  <2>2. signals' \in Seq({"appeared", "disappeared"}) /\ changes' \in 0 .. MaxChanges
          /\ late' \in Seq(Kinds)
    BY <1>2 DEF ServiceDisappears, RegTypeOK
  <2> QED
    BY <1>2, <2>1, <2>2 DEF ServiceDisappears, RegTypeOK, cond, session, history,
       mishaps
<1>3. CASE LateCall
  <2>1. known' \in BOOLEAN
    BY <1>3, Zenon DEF LateCall
  <2>2. late' \in Seq(Kinds)
    BY <1>3 DEF LateCall, RegTypeOK
  <2> QED
    BY <1>3, <2>1, <2>2 DEF LateCall, RegTypeOK, cond, session, history, mishaps
<1> QED
  BY <1>1, <1>2, <1>3

(* A step of a caller.                                                     *)
LEMMA CallerType ==
  ASSUME RegTypeOK, NEW t \in Threads, Caller(t) \/ SpuriousWakeup(t)
  PROVE  RegTypeOK'
<1> USE RegisterFacts
<1>0. thread \in [Threads -> Thread] /\ cmds \in Seq(Threads) /\ {"register"} \subseteq Kinds
  BY DEF RegTypeOK, Thread, Places, Kinds
<1>1. CASE CheckPending(t) \/ SpuriousWakeup(t)
  <2>1. PICK place \in Places : Goto(t, place)
    BY <1>1 DEF CheckPending, SpuriousWakeup, Places
  <2>2. thread' \in [Threads -> Thread]
    BY <1>0, <2>1, GotoType
  <2> QED
    BY SMTT(20), <1>1, <2>2 DEF CheckPending, SpuriousWakeup, RegTypeOK, Thread, Places, service,
       cond, session, history, mishaps
<1>2. CASE ResetPending(t)
  <2>1. thread' \in [Threads -> Thread]
    BY <1>0, <1>2, GotoType DEF ResetPending, Places
  <2> QED
    BY <1>2, <2>1 DEF ResetPending, RegTypeOK, Thread, Places, service, session,
       history, mishaps
<1>3. CASE TakeResult(t)
  <2>1. thread' \in [Threads -> Thread]
    <3>1. gDbusPendingRvalue \in Values
      BY DEF RegTypeOK
    <3> QED
      BY <1>0, <1>3, <3>1 DEF TakeResult, Thread, Places
  <2> QED
    BY <1>3, <2>1 DEF TakeResult, RegTypeOK, Thread, Places, service, cond, session,
       history, mishaps
<1>4. CASE DoSendPasRegister(t)
  <2>1. thread' \in [Threads -> Thread] /\ cmds' \in Seq(Threads)
    BY <1>0, <1>4, DeliverType DEF DoSendPasRegister
  <2> QED
    BY <1>4, <2>1 DEF DoSendPasRegister, RegTypeOK, Thread, Places, service, cond,
       session, history, mishaps
<1>5. CASE RegisterToPasStore(t)
  <2>1. thread' \in [Threads -> Thread]
    BY <1>0, <1>5, GotoType DEF RegisterToPasStore, Places
  <2> QED
    BY <1>5, <2>1 DEF RegisterToPasStore, RegTypeOK, Thread, Places, service, cond,
       session, history, mishaps
<1>6. CASE InitStore
  <2>1. thread' \in [Threads -> Thread]
    BY <1>0, <1>6, GotoType DEF InitStore, Places
  <2> QED
    BY <1>6, <2>1 DEF InitStore, RegTypeOK, Thread, Places, service, cond, history,
       mishaps
<1>7. CASE DeinitStore
  <2>1. thread' \in [Threads -> Thread]
    BY <1>0, <1>7, GotoType DEF DeinitStore, Places
  <2>2. lapsed' \in BOOLEAN
    BY <1>7, Zenon DEF DeinitStore
  <2>3. signals' \in Seq({"appeared", "disappeared"}) /\ calls' \in Seq(NoAnswer)
          /\ cmds' \in Seq(Threads)
    BY <1>7 DEF DeinitStore
  <2> QED
    BY <1>7, <2>1, <2>2, <2>3 DEF DeinitStore, RegTypeOK, Thread, Places, service,
       cond, mishaps
<1> QED
  BY <1>1, <1>2, <1>3, <1>4, <1>5, <1>6, <1>7 DEF Caller

(* A step of the loop thread.                                              *)
LEMMA LoopType ==
  ASSUME RegTypeOK, Loop
  PROVE  RegTypeOK'
<1> USE RegisterFacts
<1>0. thread \in [Threads -> Thread] /\ cmds \in Seq(Threads)
  BY DEF RegTypeOK, Thread, Places
<1>1. CASE ProcessSendPasRegister
  <2> DEFINE t == Head(cmds)
  <2>1. t \in Threads /\ cmds' \in Seq(Threads)
    BY <1>0, <1>1 DEF ProcessSendPasRegister
  <2>2. thread' \in [Threads -> Thread]
    BY <1>0, <1>1, <2>1, GotoType DEF ProcessSendPasRegister, Places
  <2>3. calls' \in Seq(NoAnswer)
    <3>1. [kind |-> thread[t].kind, answered |-> FALSE, arg |-> 0] \in NoAnswer
      BY <1>0, <2>1 DEF NoAnswer, Thread
    <3>2. calls \in Seq(NoAnswer)
      BY DEF RegTypeOK
    <3> QED
      BY SMTT(20), <1>1, <3>1, <3>2 DEF ProcessSendPasRegister, SendWithReply, SendFails
  <2>4. late' \in Seq(Kinds)
    <3>1. thread[t].kind \in Kinds /\ late \in Seq(Kinds)
      BY <1>0, <2>1 DEF Thread, RegTypeOK
    <3>2. Append(late, thread[t].kind) \in Seq(Kinds)
      BY <3>1
    <3>3. late' = late \/ late' = Append(late, thread[t].kind)
      BY <1>1 DEF ProcessSendPasRegister, SendWithReply, SendFails
    <3> QED
      BY <3>1, <3>2, <3>3
  <2>5. unsent' \in BOOLEAN
    BY <1>1 DEF ProcessSendPasRegister, SendWithReply, SendFails, RegTypeOK
  <2>6. UNCHANGED <<up, known, changes, signals, gPasRegistered, cond, session, timeouts, lapsed,
                    crossed, overtaken>>
    BY <1>1 DEF ProcessSendPasRegister
  <2> QED
    BY <2>1, <2>2, <2>3, <2>4, <2>5, <2>6 DEF RegTypeOK, Thread, Places, cond, session
<1>2. ASSUME NEW k \in DOMAIN calls, MsgPendingFunc(k) PROVE RegTypeOK'
  <2>1. calls \in Seq(NoAnswer) /\ k \in 1 .. Len(calls) /\ calls[k] \in NoAnswer
    BY DEF RegTypeOK
  <2>2. calls' \in Seq(NoAnswer) /\ gDbusPendingRvalue' \in Values
    BY <1>2, <2>1, RemoveAtType DEF MsgPendingFunc, NoAnswer
  <2>3. thread' \in [Threads -> Thread]
    BY <1>0, <1>2, GotoType DEF MsgPendingFunc, Places
  <2> QED
    BY <1>2, <2>2, <2>3 DEF MsgPendingFunc, RegTypeOK, Thread, Places, service,
       session, history, mishaps
<1>3. CASE Appeared
  <2>1. signals' \in Seq({"appeared", "disappeared"})
    BY <1>3 DEF Appeared, Handled, RegTypeOK
  <2>2. thread' \in [Threads -> Thread]
    BY <1>0, <1>3, GotoType DEF Appeared, Places
  <2>3. overtaken' \in BOOLEAN
    BY <1>3, Zenon DEF Appeared, Handled
  <2>4. crossed' \in BOOLEAN
    <3>1. CASE Crossing
      BY <3>1, Zenon DEF Crossing
    <3>2. CASE crossed' = crossed
      BY <3>2 DEF RegTypeOK
    <3> QED
      BY <1>3, <3>1, <3>2 DEF Appeared
  <2> QED
    BY <1>3, <2>1, <2>2, <2>3, <2>4 DEF Appeared, RegTypeOK, Thread, Places, service,
       cond, session
<1>4. CASE Disappeared
  <2>1. signals' \in Seq({"appeared", "disappeared"})
    BY <1>4 DEF Disappeared, Handled, RegTypeOK
  <2>2. overtaken' \in BOOLEAN
    BY <1>4, Zenon DEF Disappeared, Handled
  <2> QED
    BY <1>4, <2>1, <2>2 DEF Disappeared, RegTypeOK, service, cond, session
<1> QED
  BY <1>1, <1>2, <1>3, <1>4 DEF Loop

(* Every step keeps the types.                                             *)
LEMMA RegisterTypeStep == RegTypeOK /\ [RegNext]_regVars => RegTypeOK'
<1> SUFFICES ASSUME RegTypeOK, [RegNext]_regVars PROVE RegTypeOK'
  OBVIOUS
<1> USE RegisterFacts
<1>0. thread \in [Threads -> Thread] /\ cmds \in Seq(Threads) /\ Kinds = {"register", "unregister"}
  BY DEF RegTypeOK, Thread, Places, Kinds
<1>1. CASE PclInitLibrary
  <2>1. thread' \in [Threads -> Thread] /\ cmds' \in Seq(Threads)
    BY <1>0, <1>1, DeliverType DEF PclInitLibrary
  <2>2. sessions' \in 0 .. MaxSessions
    BY <1>1 DEF PclInitLibrary, RegTypeOK
  <2>3. crossed' \in BOOLEAN
    BY <1>1, Zenon DEF PclInitLibrary, Crossing
  <2> QED
    BY <1>1, <2>1, <2>2, <2>3 DEF PclInitLibrary, RegTypeOK, Thread, Places, service,
       cond
<1>2. CASE DeinitLibrary
  <2>1. thread' \in [Threads -> Thread] /\ cmds' \in Seq(Threads)
    BY <1>0, <1>2, DeliverType DEF DeinitLibrary
  <2>2. crossed' \in BOOLEAN
    BY <1>2, Zenon DEF DeinitLibrary, Crossing
  <2> QED
    BY <1>2, <2>1, <2>2 DEF DeinitLibrary, RegTypeOK, Thread, Places, service, cond
<1>3. CASE UNCHANGED regVars
  BY <1>3 DEF regVars, service, cond, session, history, mishaps, RegTypeOK
<1> QED
  BY <1>1, <1>2, <1>3, BusType, ServiceType, CallerType, LoopType DEF RegNext, Bus

(* The initial state has the types.                                        *)
LEMMA RegisterTypeInit == RegInit => RegTypeOK
<1> SUFFICES ASSUME RegInit PROVE RegTypeOK
  OBVIOUS
<1>1. /\ up \in BOOLEAN /\ known \in BOOLEAN /\ lapsed \in BOOLEAN
      /\ crossed \in BOOLEAN /\ overtaken \in BOOLEAN /\ unsent \in BOOLEAN
  BY Zenon DEF RegInit
<1>2. Idle \in Thread
  BY RegisterFacts DEF Idle, Thread, Places, Kinds
<1>3. thread \in [Threads -> Thread]
  BY <1>2 DEF RegInit
<1> QED
  BY <1>1, <1>3, RegisterFacts DEF RegInit, RegTypeOK, Thread, Places

(* The initial state: nobody is registering.                               *)
LEMMA HandshakeInit == RegInit => Handshake
  BY RegisterFacts
     DEF RegInit, Handshake, OneAtATime, Busy, Idle, Channel, NobodyWaits, At, Nothing,
         Owners

(* The steps that leave the threads and what they wait for alone.          *)
LEMMA HandshakeKept ==
  ASSUME Handshake, UNCHANGED <<thread, cmds, calls, gDbusPendingCondValue, library>>,
         library = "off" => signals' = signals
  PROVE  Handshake'
  BY DEF Handshake, OneAtATime, Busy, Channel, NobodyWaits, At, Nothing, Called,
     Signaled, Owners

(* One thread moves while all others are idle.                             *)
LEMMA HandshakeMoves ==
  ASSUME NEW t \in Threads,
         \A s \in Threads \ {t} : thread[s].pc = "idle" /\ thread'[s] = thread[s],
         Channel(t)', ~ Busy(t)' => Nothing', Owners'
  PROVE  Handshake'
<1>1. \A s \in Threads \ {t} : ~ Busy(s)'
  BY DEF Busy
<1>2. OneAtATime'
  BY <1>1 DEF OneAtATime
<1>3. ASSUME NEW s \in Threads PROVE Channel(s)'
  <2>1. CASE s = t
    BY <2>1
  <2>2. CASE s # t
    BY <2>2 DEF Channel
  <2> QED
    BY <2>1, <2>2
<1>4. NobodyWaits' => Nothing'
  BY DEF NobodyWaits, At, Busy
<1> QED
  BY <1>2, <1>3, <1>4 DEF Handshake

(* Who is busy when a command or a call is on its way, and who is not.     *)
LEMMA HandshakeFacts ==
  ASSUME RegTypeOK, Handshake
  PROVE  /\ \A t \in Threads : Busy(t) => \A s \in Threads \ {t} : thread[s].pc = "idle"
         /\ cmds # <<>> =>
              \E t \in Threads : thread[t].pc = "deliver" /\ cmds = <<t>> /\ calls = <<>>
         /\ calls # <<>> => /\ Called
                            /\ \E t \in Threads : thread[t].pc \in {"check", "blocked"}
         /\ NobodyWaits => library \in {"off", "failed", "on"}
<1>1. \A t \in Threads : Busy(t) => \A s \in Threads \ {t} : thread[s].pc = "idle"
  BY DEF Handshake, OneAtATime, Busy
<1>2. ASSUME cmds # <<>> \/ calls # <<>> PROVE \E t \in Threads : Busy(t) /\ Channel(t)
  BY <1>2 DEF Handshake, NobodyWaits, At, Nothing, Busy
<1>3. \A t \in Threads : thread[t].pc \in Places
  BY DEF RegTypeOK, Places
<1>4. ASSUME cmds # <<>>
      PROVE  \E t \in Threads : thread[t].pc = "deliver" /\ cmds = <<t>> /\ calls = <<>>
  <2>1. PICK t \in Threads : Busy(t) /\ Channel(t)
    BY <1>2, <1>4
  <2> QED
    BY <1>3, <1>4, <2>1 DEF Busy, Channel, Nothing, Called, Signaled, Places
<1>5. ASSUME calls # <<>>
      PROVE  Called /\ \E t \in Threads : thread[t].pc \in {"check", "blocked"}
  <2>1. PICK t \in Threads : Busy(t) /\ Channel(t)
    BY <1>2, <1>5
  <2> QED
    BY <1>3, <1>5, <2>1 DEF Busy, Channel, Nothing, Called, Signaled, Places
<1>6. NobodyWaits => library \in {"off", "failed", "on"}
  BY RegisterFacts DEF Handshake, Owners, NobodyWaits, At, Busy, RegTypeOK
<1> QED
  BY <1>1, <1>4, <1>5, <1>6

(* The steps of the callers keep one registration at a time.               *)
LEMMA HandshakeCaller ==
  ASSUME RegTypeOK, Handshake, NEW t \in Threads, Caller(t) \/ SpuriousWakeup(t)
  PROVE  Handshake'
<1> USE RegisterFacts
<1>0. thread \in [Threads -> Thread] /\ cmds \in Seq(Threads) /\ gDbusPendingCondValue \in {0, 1}
  BY DEF RegTypeOK, Thread, Places
<1>1. Channel(t) /\ Owners
  BY DEF Handshake
<1>2. ASSUME Busy(t) PROVE \A s \in Threads \ {t} : thread[s].pc = "idle"
  BY <1>2, HandshakeFacts
<1>o. ASSUME NEW place \in Places, Goto(t, place), Busy(t), place # "idle", place # "start",
             UNCHANGED <<signals, library>>
      PROVE  Owners'
  <2>1. /\ thread'[t] = [pc |-> place, kind |-> thread[t].kind, rval |-> thread[t].rval]
        /\ \A s \in Threads \ {t} : thread'[s] = thread[s]
    BY <1>0, <1>o, GotoType
  <2> QED
    BY <1>1, <1>o, <2>1 DEF Owners, Busy
<1>3. CASE CheckPending(t)
  <2> DEFINE place == IF gDbusPendingCondValue = 0 THEN "blocked" ELSE "reset"
  <2>1. /\ thread[t].pc = "check" /\ Goto(t, place) /\ place \in Places
        /\ UNCHANGED <<signals, cmds, calls, gDbusPendingCondValue, library>>
    BY <1>3 DEF CheckPending, At, Places, cond, session, history, mishaps
  <2>2. /\ thread'[t] = [pc |-> place, kind |-> thread[t].kind, rval |-> thread[t].rval]
        /\ \A s \in Threads \ {t} : thread'[s] = thread[s]
    BY <1>0, <2>1, GotoType
  <2>3. Channel(t)' /\ Busy(t)'
    BY <1>0, <1>1, <2>1, <2>2 DEF Channel, Busy, Called, Signaled
  <2>4. Owners'
    BY <1>o, <2>1 DEF Busy
  <2> QED
    BY <1>2, <2>1, <2>2, <2>3, <2>4, HandshakeMoves DEF Busy
<1>4. CASE SpuriousWakeup(t)
  <2>1. /\ thread[t].pc = "blocked" /\ Goto(t, "check") /\ "check" \in Places
        /\ UNCHANGED <<signals, cmds, calls, gDbusPendingCondValue, library>>
    BY <1>4 DEF SpuriousWakeup, At, Places, cond, session, history, mishaps
  <2>2. /\ thread'[t] = [pc |-> "check", kind |-> thread[t].kind, rval |-> thread[t].rval]
        /\ \A s \in Threads \ {t} : thread'[s] = thread[s]
    BY <1>0, <2>1, GotoType
  <2>3. Channel(t)' /\ Busy(t)'
    BY <1>1, <2>1, <2>2 DEF Channel, Busy, Called
  <2>4. Owners'
    BY <1>o, <2>1 DEF Busy
  <2> QED
    BY <1>2, <2>1, <2>2, <2>3, <2>4, HandshakeMoves DEF Busy
<1>5. CASE ResetPending(t)
  <2>1. /\ thread[t].pc = "reset" /\ Goto(t, "result") /\ "result" \in Places
        /\ UNCHANGED <<signals, cmds, calls, library>> /\ gDbusPendingCondValue' = 0
    BY <1>5 DEF ResetPending, At, Places, session, history, mishaps
  <2>2. /\ thread'[t] = [pc |-> "result", kind |-> thread[t].kind, rval |-> thread[t].rval]
        /\ \A s \in Threads \ {t} : thread'[s] = thread[s]
    BY <1>0, <2>1, GotoType
  <2>3. Channel(t)' /\ Busy(t)'
    BY <1>1, <2>1, <2>2 DEF Channel, Busy, Signaled, Nothing
  <2>4. Owners'
    BY <1>o, <2>1 DEF Busy
  <2> QED
    BY <1>2, <2>1, <2>2, <2>3, <2>4, HandshakeMoves DEF Busy
<1>6. CASE TakeResult(t)
  <2>1. /\ thread[t].pc = "result"
        /\ UNCHANGED <<signals, cmds, calls, gDbusPendingCondValue, library>>
        /\ thread' = [thread EXCEPT ![t].pc = "store", ![t].rval = gDbusPendingRvalue]
    BY <1>6 DEF TakeResult, At, cond, session, history, mishaps
  <2>2. /\ thread'[t].pc = "store" /\ thread'[t].kind = thread[t].kind
        /\ \A s \in Threads \ {t} : thread'[s] = thread[s]
    BY <1>0, <2>1 DEF Thread
  <2>3. Channel(t)' /\ Busy(t)'
    BY <1>1, <2>1, <2>2 DEF Channel, Busy, Nothing
  <2>4. Owners'
    BY <1>1, <2>1, <2>2 DEF Owners, Busy
  <2> QED
    BY <1>2, <2>1, <2>2, <2>3, <2>4, HandshakeMoves DEF Busy
<1>7. CASE DoSendPasRegister(t)
  <2>1. /\ thread[t].pc = "start" /\ Deliver(t, "register") /\ "register" \in Kinds
        /\ UNCHANGED <<signals, calls, gDbusPendingCondValue, library>>
    BY <1>7 DEF DoSendPasRegister, At, Kinds, cond, session, history, mishaps
  <2>2. /\ thread'[t] = [pc |-> "deliver", kind |-> "register", rval |-> 0]
        /\ \A s \in Threads \ {t} : thread'[s] = thread[s]
        /\ cmds' = Append(cmds, t)
    BY <1>0, <2>1, DeliverType
  <2>3. Channel(t)' /\ Busy(t)'
    BY <1>1, <2>1, <2>2 DEF Channel, Busy, Nothing
  <2>4. t \in Spawned
    BY <1>1, <2>1 DEF Owners
  <2>5. Owners'
    BY <1>1, <2>1, <2>2, <2>4 DEF Owners, Busy
  <2> QED
    BY <1>2, <2>1, <2>2, <2>3, <2>5, HandshakeMoves DEF Busy
<1>8. CASE RegisterToPasStore(t)
  <2>1. /\ thread[t].pc = "store" /\ t \in Spawned /\ Goto(t, "idle") /\ "idle" \in Places
        /\ UNCHANGED <<signals, cmds, calls, gDbusPendingCondValue, library>>
    BY <1>8 DEF RegisterToPasStore, At, Places, cond, session, history, mishaps
  <2>2. /\ thread'[t] = [pc |-> "idle", kind |-> thread[t].kind, rval |-> thread[t].rval]
        /\ \A s \in Threads \ {t} : thread'[s] = thread[s]
    BY <1>0, <2>1, GotoType
  <2>3. Channel(t)' /\ Nothing'
    BY <1>1, <2>1, <2>2 DEF Channel, Nothing
  <2>4. Owners'
    BY <1>1, <2>1, <2>2 DEF Owners, Busy
  <2> QED
    BY <1>2, <2>1, <2>2, <2>3, <2>4, HandshakeMoves DEF Busy
<1>9. CASE t = Main /\ InitStore
  <2>1. /\ thread[t].pc = "store" /\ t = Main /\ Goto(t, "idle") /\ "idle" \in Places
        /\ UNCHANGED <<signals, cmds, calls, gDbusPendingCondValue>>
        /\ library' \in {"failed", "on"}
    BY <1>9 DEF InitStore, At, Places, cond
  <2>2. /\ thread'[t] = [pc |-> "idle", kind |-> thread[t].kind, rval |-> thread[t].rval]
        /\ \A s \in Threads \ {t} : thread'[s] = thread[s]
    BY <1>0, <2>1, GotoType
  <2>3. Channel(t)' /\ Nothing'
    BY <1>1, <2>1, <2>2 DEF Channel, Nothing
  <2>4. Owners'
    BY <1>1, <2>1, <2>2 DEF Owners, Busy
  <2> QED
    BY <1>2, <2>1, <2>2, <2>3, <2>4, HandshakeMoves DEF Busy
<1>10. CASE t = Main /\ DeinitStore
  <2>1. /\ thread[t].pc = "store" /\ t = Main /\ Goto(t, "idle") /\ "idle" \in Places
        /\ cmds' = <<>> /\ calls' = <<>> /\ signals' = <<>> /\ library' = "off"
        /\ gDbusPendingCondValue' = gDbusPendingCondValue
    BY <1>10 DEF DeinitStore, At, Places, cond
  <2>2. /\ thread'[t] = [pc |-> "idle", kind |-> thread[t].kind, rval |-> thread[t].rval]
        /\ \A s \in Threads \ {t} : thread'[s] = thread[s]
    BY <1>0, <2>1, GotoType
  <2>3. Channel(t)' /\ Nothing'
    BY <1>1, <2>1, <2>2 DEF Channel, Nothing
  <2>4. \A s \in Spawned : s \in Threads \ {t} /\ thread[s].pc = "idle"
    BY <1>2, <2>1 DEF Busy
  <2>5. Owners'
    BY <1>1, <2>1, <2>2, <2>4 DEF Owners, Busy
  <2> QED
    BY <1>2, <2>1, <2>2, <2>3, <2>5, HandshakeMoves DEF Busy
<1> QED
  BY <1>3, <1>4, <1>5, <1>6, <1>7, <1>8, <1>9, <1>10 DEF Caller

(* What the history variables tell of a step: what has happened stays, and *)
(* nobody was waiting when a call begins or a signal is handled without    *)
(* having been noted.                                                      *)
LEMMA HistoryFacts ==
  ASSUME RegTypeOK, RegNext
  PROVE  /\ ~ crossed' => ~ crossed
         /\ ~ overtaken' => ~ overtaken
         /\ ~ unsent' => ~ unsent
         /\ ~ crossed' /\ (PclInitLibrary \/ DeinitLibrary) => NobodyWaits
         /\ ~ crossed' /\ Appeared => NobodyWaits \/ UNCHANGED thread
         /\ ~ overtaken' /\ (Appeared \/ Disappeared) => NobodyWaits
         /\ unsent' # unsent => ProcessSendPasRegister
<1>1. Crossing /\ ~ crossed' => ~ crossed /\ NobodyWaits
  BY Zenon DEF Crossing
<1>2. ASSUME NEW signal, Handled(signal), ~ overtaken' PROVE ~ overtaken /\ NobodyWaits
  BY <1>2, Zenon DEF Handled
<1>3. PclInitLibrary \/ DeinitLibrary => Crossing /\ overtaken' = overtaken /\ unsent' = unsent
  BY DEF PclInitLibrary, DeinitLibrary
<1>4. Appeared => /\ Crossing \/ (crossed' = crossed /\ thread' = thread)
                  /\ Handled("appeared") /\ unsent' = unsent
  BY DEF Appeared
<1>5. Disappeared => Handled("disappeared") /\ crossed' = crossed /\ unsent' = unsent
  BY DEF Disappeared
<1>6. ProcessSendPasRegister => /\ crossed' = crossed /\ overtaken' = overtaken
                                /\ unsent' = unsent \/ unsent' = TRUE
  BY DEF ProcessSendPasRegister, SendWithReply, SendFails
<1>7. \/ crossed' = crossed /\ overtaken' = overtaken /\ unsent' = unsent
      \/ PclInitLibrary \/ DeinitLibrary \/ Appeared \/ Disappeared \/ ProcessSendPasRegister
  BY DEF RegNext, Bus, Loop, Caller, ServiceAppears, ServiceDisappears, LateCall,
     ServiceAnswers,
     BusAnswers, TimesOut, DoSendPasRegister, CheckPending, SpuriousWakeup, ResetPending,
     TakeResult, InitStore, DeinitStore, RegisterToPasStore, MsgPendingFunc, history, mishaps
<1>8. ~ crossed' => ~ crossed
  BY <1>1, <1>3, <1>4, <1>5, <1>6, <1>7, Zenon
<1>9. ~ overtaken' => ~ overtaken
  BY <1>2, <1>3, <1>4, <1>5, <1>6, <1>7, Zenon
<1>10. ~ unsent' => ~ unsent
  BY <1>3, <1>4, <1>5, <1>6, <1>7, Zenon
<1>11. unsent' # unsent => ProcessSendPasRegister
  BY <1>3, <1>4, <1>5, <1>7, Zenon
<1> QED
  BY <1>1, <1>2, <1>3, <1>4, <1>5, <1>8, <1>9, <1>10, <1>11, Zenon

(* Every step keeps one registration at a time, if no call begins while    *)
(* another one is under way and every message is sent.                     *)
LEMMA HandshakeStep ==
  ASSUME ~ crossed', ~ unsent', RegTypeOK, Handshake, RegNext
  PROVE  Handshake'
<1> USE RegisterFacts
<1>0. thread \in [Threads -> Thread] /\ cmds \in Seq(Threads) /\ calls \in Seq(NoAnswer)
  BY DEF RegTypeOK, Thread, Places
<1>1. Owners /\ \A t \in Threads : Channel(t)
  BY DEF Handshake
<1>2. CASE ServiceAppears \/ ServiceDisappears \/ LateCall
  BY <1>2, HandshakeKept DEF ServiceAppears, ServiceDisappears, LateCall, cond,
     session, history, mishaps
<1>3. CASE Disappeared
  BY <1>3, HandshakeKept DEF Disappeared, Handled, cond, session
<1>4. CASE Bus
  <2>1. PICK k \in DOMAIN calls, v \in Values : Answered(k, v)
    BY <1>4 DEF Bus, ServiceAnswers, BusAnswers, TimesOut
  <2>2. UNCHANGED <<thread, cmds, gDbusPendingCondValue, library, signals>>
    BY <1>4 DEF Bus, ServiceAnswers, BusAnswers, TimesOut, cond, session, history,
       mishaps
  <2>3. calls' \in Seq(NoAnswer) /\ Len(calls') = Len(calls) /\ calls # <<>>
    <3>1. calls' \in Seq(NoAnswer) /\ Len(calls') = Len(calls)
      BY <1>0, <2>1, AnsweredType
    <3>2. calls # <<>>
      BY <1>0, <2>1
    <3> QED
      BY <3>1, <3>2
  <2>4. Called /\ Called'
    BY <2>2, <2>3, HandshakeFacts DEF Called
  <2>5. calls' # <<>> /\ ~ Nothing /\ ~ Signaled
    BY <2>3, <2>4 DEF Called, Nothing, Signaled
  <2> QED
    BY <2>2, <2>3, <2>4, <2>5 DEF Handshake, OneAtATime, Busy, Channel, NobodyWaits,
       At, Owners
<1>5. CASE PclInitLibrary \/ DeinitLibrary
  <2> DEFINE kind == thread'[Main].kind
  <2>1. NobodyWaits /\ Nothing
    BY <1>5, HistoryFacts DEF Handshake
  <2>2. \A s \in Threads : thread[s].pc = "idle"
    BY <2>1 DEF NobodyWaits, At
  <2>3. \/ Deliver(Main, "register") /\ library' = "starting"
        \/ Deliver(Main, "unregister") /\ library' = "ending"
    BY <1>5 DEF PclInitLibrary, DeinitLibrary
  <2>4. /\ thread'[Main].pc = "deliver"
        /\ thread'[Main].kind = "register" <=> library' = "starting"
        /\ \A s \in Threads \ {Main} : thread'[s] = thread[s]
        /\ cmds' = Append(cmds, Main) /\ library' \in {"starting", "ending"}
    BY <1>0, <2>3, DeliverType DEF Kinds
  <2>5. UNCHANGED <<calls, signals, gDbusPendingCondValue>>
    BY <1>5 DEF PclInitLibrary, DeinitLibrary, cond
  <2>6. Channel(Main)' /\ Busy(Main)'
    BY <2>1, <2>4, <2>5 DEF Channel, Busy, Nothing
  <2>7. Owners'
    BY <1>1, <2>2, <2>4, <2>5 DEF Owners, Busy
  <2> QED
    BY <2>2, <2>4, <2>6, <2>7, HandshakeMoves
<1>6. CASE ProcessSendPasRegister
  <2>1. PICK t \in Threads : thread[t].pc = "deliver" /\ cmds = <<t>> /\ calls = <<>>
    BY <1>6, HandshakeFacts DEF ProcessSendPasRegister
  <2>2. Head(cmds) = t /\ Tail(cmds) = <<>>
    BY <2>1
  <2>3. Goto(t, "check") /\ "check" \in Places /\ cmds' = <<>>
          /\ UNCHANGED <<signals, gDbusPendingCondValue, library>>
    BY <1>6, <2>2 DEF ProcessSendPasRegister, Places, cond, session, history, mishaps
  <2>4. /\ thread'[t] = [pc |-> "check", kind |-> thread[t].kind, rval |-> thread[t].rval]
        /\ \A s \in Threads \ {t} : thread'[s] = thread[s]
    BY <1>0, <2>3, GotoType
  <2>5. Len(calls') = 1
    BY <1>6, <2>1 DEF ProcessSendPasRegister, SendWithReply, SendFails
  <2>6. Channel(t)' /\ Busy(t)'
    BY <1>1, <2>1, <2>3, <2>4, <2>5 DEF Channel, Busy, Called
  <2>7. Owners'
    BY <1>1, <2>1, <2>3, <2>4 DEF Owners, Busy
  <2>8. \A s \in Threads \ {t} : thread[s].pc = "idle"
    BY <2>1, HandshakeFacts DEF Busy
  <2> QED
    BY <2>4, <2>6, <2>7, <2>8, HandshakeMoves
<1>7. ASSUME NEW k \in DOMAIN calls, MsgPendingFunc(k) PROVE Handshake'
  <2>1. calls # <<>> /\ k \in 1 .. Len(calls)
    BY <1>0
  <2>2. Called
    BY <2>1, HandshakeFacts
  <2>3. PICK t \in Threads : thread[t].pc \in {"check", "blocked"}
    BY <2>1, HandshakeFacts
  <2>4. \A s \in Threads \ {t} : thread[s].pc = "idle"
    BY <2>3, HandshakeFacts DEF Busy
  <2>5. calls' = <<>> /\ gDbusPendingCondValue' = 1 /\ UNCHANGED <<cmds, signals, library>>
    BY <1>0, <1>7, <2>1, <2>2, RemoveAtType DEF MsgPendingFunc, Called, session,
       history, mishaps
  <2>6. Signaled'
    BY <2>2, <2>5 DEF Called, Signaled
  <2>7. /\ thread'[t] = [pc |-> "check", kind |-> thread[t].kind, rval |-> thread[t].rval]
        /\ \A s \in Threads \ {t} : thread'[s] = thread[s]
    <3>1. CASE thread[t].pc = "blocked"
      <4>1. Goto(t, "check") /\ "check" \in Places
        BY <1>7, <2>4, <3>1 DEF MsgPendingFunc, At, Places
      <4> QED
        BY <1>0, <4>1, GotoType
    <3>2. CASE thread[t].pc = "check"
      <4>1. thread' = thread
        BY <1>7, <2>4, <3>2 DEF MsgPendingFunc, At
      <4>2. thread[t] \in Thread
        BY <1>0
      <4>3. thread[t] = [pc |-> "check", kind |-> thread[t].kind, rval |-> thread[t].rval]
        BY <3>2, <4>2 DEF Thread
      <4> QED
        BY <4>1, <4>3
    <3> QED
      BY <2>3, <3>1, <3>2
  <2>8. Channel(t)' /\ Busy(t)'
    BY <2>6, <2>7 DEF Channel, Busy
  <2>9. Owners'
    BY <1>1, <2>3, <2>5, <2>7 DEF Owners, Busy
  <2> QED
    BY <2>4, <2>7, <2>8, <2>9, HandshakeMoves
<1>8. CASE Appeared
  <2>3. UNCHANGED <<cmds, calls, gDbusPendingCondValue, library>> /\ library # "off"
    BY <1>8 DEF Appeared, Handled, cond, session
  <2>4. CASE thread' = thread
    BY <2>3, <2>4, HandshakeKept
  <2>5. ASSUME NEW t \in Spawned, Goto(t, "start"), thread' # thread PROVE Handshake'
    <3>a. NobodyWaits
      BY <1>8, <2>5, HistoryFacts
    <3>b. Nothing /\ library \in {"failed", "on"}
      BY <2>3, <3>a, HandshakeFacts DEF Handshake
    <3>c. \A s \in Threads : thread[s].pc = "idle"
      BY <3>a DEF NobodyWaits, At
    <3>1. /\ thread'[t] = [pc |-> "start", kind |-> thread[t].kind, rval |-> thread[t].rval]
          /\ \A s \in Threads \ {t} : thread'[s] = thread[s]
      BY <1>0, <2>5, GotoType DEF Places
    <3>2. Channel(t)' /\ Busy(t)'
      BY <2>3, <3>b, <3>1 DEF Channel, Busy, Nothing
    <3>3. Owners'
      BY <1>1, <2>3, <3>b, <3>c, <3>1 DEF Owners, Busy
    <3> QED
      BY <3>c, <3>1, <3>2, <3>3, HandshakeMoves
  <2> QED
    BY <1>8, <2>4, <2>5 DEF Appeared
<1>9. CASE \E t \in Threads : Caller(t) \/ SpuriousWakeup(t)
  BY <1>9, HandshakeCaller
<1> QED
  BY <1>2, <1>3, <1>4, <1>5, <1>6, <1>7, <1>8, <1>9 DEF RegNext, Loop

(* What a sequence of signals looks like behind its first one.             *)
LEMMA TailOfSignals ==
  ASSUME NEW S, NEW s \in Seq(S), s # <<>>, \A k \in 1 .. Len(s) - 1 : s[k] # s[k + 1]
  PROVE  /\ Len(Tail(s)) = Len(s) - 1 /\ Len(s) \in Nat /\ Len(s) >= 1
         /\ \A k \in 1 .. Len(Tail(s)) : Tail(s)[k] = s[k + 1]
         /\ \A k \in 1 .. Len(Tail(s)) - 1 : Tail(s)[k] # Tail(s)[k + 1]
         /\ Tail(s) # <<>> => Tail(s)[Len(Tail(s))] = s[Len(s)]
         /\ Tail(s) = <<>> <=> Len(s) = 1
         /\ Head(s) = s[1]
<1>1. /\ Tail(s) \in Seq(S) /\ Len(Tail(s)) = Len(s) - 1 /\ Len(s) \in Nat /\ Len(s) >= 1
      /\ \A k \in 1 .. Len(Tail(s)) : Tail(s)[k] = s[k + 1]
      /\ Head(s) = s[1]
  <2>1. Tail(s) \in Seq(S) /\ Len(Tail(s)) = Len(s) - 1 /\ Len(s) \in Nat /\ Len(s) >= 1
    OBVIOUS
  <2>2. \A k \in 1 .. Len(Tail(s)) : Tail(s)[k] = s[k + 1]
    OBVIOUS
  <2>3. Head(s) = s[1]
    OBVIOUS
  <2> QED
    BY <2>1, <2>2, <2>3
<1>2. Tail(s) = <<>> <=> Len(s) = 1
  <2>1. Tail(s) = <<>> <=> Len(Tail(s)) = 0
    BY <1>1, EmptySeq
  <2> QED
    BY <1>1, <2>1
<1>3. ASSUME NEW k \in 1 .. Len(Tail(s)) - 1 PROVE Tail(s)[k] # Tail(s)[k + 1]
  <2>1. k \in 1 .. Len(Tail(s)) /\ k + 1 \in 1 .. Len(Tail(s)) /\ k + 1 \in 1 .. Len(s) - 1
    BY <1>1
  <2> QED
    BY <1>1, <2>1
<1>4. ASSUME Tail(s) # <<>> PROVE Tail(s)[Len(Tail(s))] = s[Len(s)]
  <2>1. Len(Tail(s)) \in 1 .. Len(Tail(s)) /\ Len(Tail(s)) + 1 = Len(s)
    BY <1>1, <1>2, <1>4
  <2> QED
    BY <1>1, <2>1
<1> QED
  BY <1>1, <1>2, <1>3, <1>4

(* A signal that is different from the last one keeps them alternating.    *)
LEMMA AppendToSignals ==
  ASSUME NEW S, NEW s \in Seq(S), NEW e \in S, \A k \in 1 .. Len(s) - 1 : s[k] # s[k + 1],
         s # <<>> => s[Len(s)] # e
  PROVE  /\ Append(s, e) # <<>> /\ Append(s, e)[Len(Append(s, e))] = e
         /\ \A k \in 1 .. Len(Append(s, e)) - 1 : Append(s, e)[k] # Append(s, e)[k + 1]
         /\ Len(Append(s, e)) = 1 => s = <<>> /\ Append(s, e)[1] = e
         /\ Len(Append(s, e)) \in Nat /\ Len(Append(s, e)) >= 1
<1> DEFINE a == Append(s, e)
<1>1. /\ a \in Seq(S) /\ Len(a) = Len(s) + 1 /\ a[Len(s) + 1] = e /\ Len(s) \in Nat
      /\ \A k \in 1 .. Len(s) : a[k] = s[k]
  OBVIOUS
<1>2. Len(s) = 0 <=> s = <<>>
  OBVIOUS
<1> HIDE DEF a
<1>3. ASSUME NEW k \in 1 .. Len(a) - 1 PROVE a[k] # a[k + 1]
  <2>1. CASE k = Len(s)
    BY <1>1, <1>2, <2>1
  <2>2. CASE k # Len(s)
    <3>1. k \in 1 .. Len(s) /\ k + 1 \in 1 .. Len(s) /\ k \in 1 .. Len(s) - 1
      BY <1>1, <2>2
    <3> QED
      BY <1>1, <3>1
  <2> QED
    BY <2>1, <2>2
<1>4. /\ a # <<>> /\ a[Len(a)] = e /\ (Len(a) = 1 => s = <<>> /\ a[1] = e)
      /\ Len(a) \in Nat /\ Len(a) >= 1
  BY <1>1, <1>2
<1> QED
  BY <1>3, <1>4 DEF a

(* A signal of the service that appears, or disappears.                    *)
LEMMA NewSignal ==
  ASSUME RegTypeOK, SignalsTell, NEW e \in {"appeared", "disappeared"},
         up' <=> e = "appeared", up <=> e = "disappeared", signals' = Append(signals, e)
  PROVE  /\ SignalsTell' /\ signals' # <<>>
         /\ NoLoss' => signals = <<>> /\ e = "appeared"
<1>1. signals \in Seq({"appeared", "disappeared"})
  BY DEF RegTypeOK
<1>2. /\ \A k \in 1 .. Len(signals) - 1 : signals[k] # signals[k + 1]
      /\ signals # <<>> => signals[Len(signals)] # e
  BY DEF SignalsTell
<1>3. /\ signals' # <<>> /\ signals'[Len(signals')] = e
      /\ \A k \in 1 .. Len(signals') - 1 : signals'[k] # signals'[k + 1]
      /\ Len(signals') = 1 => signals = <<>> /\ signals'[1] = e
  BY <1>1, <1>2, AppendToSignals
<1> QED
  BY <1>3 DEF SignalsTell, NoLoss

(* A signal that is handled.                                               *)
LEMMA SignalTaken ==
  ASSUME RegTypeOK, SignalsTell, signals # <<>>, signals' = Tail(signals), up' = up
  PROVE  /\ SignalsTell'
         /\ signals' = <<>> => Len(signals) = 1 /\ (signals[1] = "appeared" <=> up)
         /\ Head(signals) = signals[1]
         /\ Head(signals) = "appeared" /\ NoLoss' => signals' = <<>>
<1>1. signals \in Seq({"appeared", "disappeared"})
  BY DEF RegTypeOK
<1>2. \A k \in 1 .. Len(signals) - 1 : signals[k] # signals[k + 1]
  BY DEF SignalsTell
<1>3. /\ Len(signals') = Len(signals) - 1 /\ Len(signals) \in Nat /\ Len(signals) >= 1
      /\ \A k \in 1 .. Len(signals') : signals'[k] = signals[k + 1]
      /\ \A k \in 1 .. Len(signals') - 1 : signals'[k] # signals'[k + 1]
      /\ signals' # <<>> => signals'[Len(signals')] = signals[Len(signals)]
      /\ signals' = <<>> <=> Len(signals) = 1
      /\ Head(signals) = signals[1]
  BY <1>1, <1>2, TailOfSignals
<1>4. SignalsTell'
  BY <1>3 DEF SignalsTell
<1>5. signals' = <<>> => Len(signals) = 1 /\ (signals[1] = "appeared" <=> up)
  BY <1>3 DEF SignalsTell
<1>6. ASSUME Head(signals) = "appeared", NoLoss', signals' # <<>> PROVE FALSE
  <2>1. Len(signals') = 1 /\ signals'[1] = "appeared"
    BY <1>6 DEF NoLoss
  <2>2. Len(signals) = 2 /\ signals[2] = "appeared"
    <3>1. Len(signals') = Len(signals) - 1 /\ Len(signals) \in Nat
      BY <1>3
    <3>2. Len(signals) = 2 /\ 1 \in 1 .. Len(signals')
      BY <2>1, <3>1
    <3>3. signals'[1] = signals[1 + 1]
      BY <1>3, <3>2
    <3>4. signals[1 + 1] = "appeared"
      BY <2>1, <3>3
    <3> QED
      BY <3>2, <3>4
  <2>3. signals[1] # signals[1 + 1]
    BY <1>2, <2>2
  <2> QED
    BY <1>3, <1>6, <2>2, <2>3
<1> QED
  BY <1>3, <1>4, <1>5, <1>6

(* The initial state: the service does not know the client.                *)
LEMMA TruthInit == RegInit => Truth
<1> SUFFICES ASSUME RegInit PROVE Truth
  OBVIOUS
<1>1. known = FALSE /\ signals = <<>> /\ calls = <<>> /\ late = <<>> /\ library = "off"
        /\ gPasRegistered = 0 /\ \A t \in Threads : thread[t].pc = "idle"
  BY DEF RegInit, Idle
<1>2. SignalsTell /\ SameKind
  BY <1>1 DEF SignalsTell, SameKind
<1>3. Honest
  BY <1>1, RegisterFacts DEF Honest, Busy
<1> QED
  BY <1>1, <1>2, <1>3 DEF Truth

(* A busy thread has been told the same as before: what it was told still  *)
(* fits when the service and the signals are as they were.                 *)
LEMMA ToldAsBefore ==
  ASSUME Honest, UNCHANGED <<up, known, signals>>, NEW t \in Threads,
         Busy(t), thread'[t].kind = thread[t].kind, \A v \in Values : Told(t, v)' => Told(t, v),
         thread'[t].kind = "register", NEW v \in Values, Told(t, v)'
  PROVE  Fits(v)'
<1>1. Fits(v)
  BY DEF Honest
<1> QED
  BY <1>1 DEF Fits, NoLoss

(* The steps of the service and of the bus, in a session.                  *)
LEMMA TruthService ==
  ASSUME RegTypeOK, Handshake, Truth, ServiceAppears \/ ServiceDisappears \/ LateCall
  PROVE  Truth'
<1> USE RegisterFacts
<1>0. SignalsTell /\ SameKind /\ (known => up) /\ Owners
  BY DEF Truth, Handshake
<1>1. UNCHANGED <<calls, thread, library, gPasRegistered, gDbusPendingRvalue, lapsed>>
  BY DEF ServiceAppears, ServiceDisappears, LateCall, cond, session, history, mishaps
<1>2. SameKind'
  BY <1>0, <1>1 DEF SameKind
<1>3. \A t \in Threads, v \in Values : Busy(t)' /\ thread'[t].kind = "register" /\ Told(t, v)' =>
        Busy(t) /\ thread[t].kind = "register" /\ Told(t, v)
  BY <1>1 DEF Busy, Told
<1>4. ASSUME library = "off", ~ lapsed', late' = <<>> PROVE Honest'
  <2>1. Honest
    BY <1>1, <1>4 DEF Truth
  <2>2. \A t \in Threads : ~ Busy(t)
    BY <1>0, <1>4 DEF Owners
  <2> QED
    BY <1>1, <1>4, <2>1, <2>2 DEF Honest, Busy
<1>5. CASE ServiceAppears
  <2>1. (~ up) /\ up' /\ known' = known /\ late' = late
    BY <1>5 DEF ServiceAppears
  <2>2. CASE library = "off"
    <3>1. signals' = signals /\ signals = <<>>
      BY <1>0, <1>5, <2>2 DEF ServiceAppears, Owners
    <3>2. SignalsTell'
      BY <3>1 DEF SignalsTell
    <3>3. ~ lapsed' => late' = <<>>
      BY <1>1, <2>1 DEF Truth, Honest
    <3> QED
      BY <1>2, <1>4, <2>1, <2>2, <3>2, <3>3 DEF Truth
  <2>3. CASE library # "off"
    <3>1. signals' = Append(signals, "appeared")
      BY <1>5, <2>3 DEF ServiceAppears
    <3>2. SignalsTell' /\ signals' # <<>> /\ (NoLoss' => signals = <<>>)
      BY <1>0, <2>1, <3>1, NewSignal
    <3>3. ASSUME ~ lapsed' PROVE Honest'
      <4>1. Honest
        BY <1>1, <3>3 DEF Truth
      <4>2. ASSUME NEW v \in Values, Fits(v) PROVE Fits(v)'
        BY <2>1, <3>2, <4>2 DEF Fits, NoLoss
      <4>3. Settled => Settled'
        BY <1>1, <2>1, <3>2 DEF Settled
      <4>4. NobodyWaits' => NobodyWaits
        BY <1>1 DEF NobodyWaits, At
      <4> QED
        BY <1>1, <1>3, <2>1, <4>1, <4>2, <4>3, <4>4 DEF Honest, Busy
    <3> QED
      BY <1>2, <2>1, <3>2, <3>3 DEF Truth
  <2> QED
    BY <2>2, <2>3
<1>6. CASE ServiceDisappears
  <2>1. up /\ ~ up' /\ ~ known' /\ late' = <<>>
    BY <1>6 DEF ServiceDisappears
  <2>2. CASE library = "off"
    <3>1. signals' = signals /\ signals = <<>>
      BY <1>0, <1>6, <2>2 DEF ServiceDisappears, Owners
    <3>2. SignalsTell'
      BY <3>1 DEF SignalsTell
    <3> QED
      BY <1>2, <1>4, <2>1, <2>2, <3>2 DEF Truth
  <2>3. CASE library # "off"
    <3>1. signals' = Append(signals, "disappeared")
      BY <1>6, <2>3 DEF ServiceDisappears
    <3>2. SignalsTell' /\ signals' # <<>> /\ ~ NoLoss'
      BY <1>0, <2>1, <3>1, NewSignal
    <3>3. ASSUME ~ lapsed' PROVE Honest'
      <4>1. Honest
        BY <1>1, <3>3 DEF Truth
      <4>2. ASSUME NEW v \in Values, Fits(v) PROVE Fits(v)'
        BY <3>2, <4>2 DEF Fits
      <4>3. Settled'
        BY <3>2 DEF Settled
      <4> QED
        BY <1>1, <1>3, <2>1, <4>1, <4>2, <4>3 DEF Honest, Busy
    <3> QED
      BY <1>2, <2>1, <3>2, <3>3 DEF Truth
  <2> QED
    BY <2>2, <2>3
<1>7. CASE LateCall
  <2>1. up /\ up' = up /\ late # <<>> /\ signals' = signals
    BY <1>7 DEF LateCall
  <2>2. lapsed
    BY <2>1 DEF Truth, Honest
  <2>3. SignalsTell'
    BY <1>0, <2>1 DEF SignalsTell
  <2> QED
    BY <1>1, <1>2, <2>1, <2>2, <2>3 DEF Truth
<1> QED
  BY <1>5, <1>6, <1>7

(* The steps that answer a call.                                           *)
LEMMA TruthBus ==
  ASSUME RegTypeOK, Handshake, Truth, NEW k \in DOMAIN calls,
         (\E a \in Answers : ServiceAnswers(k, a)) \/ BusAnswers(k) \/ TimesOut(k)
  PROVE  Truth'
<1> USE RegisterFacts
<1>0. SignalsTell /\ SameKind /\ (known => up)
  BY DEF Truth
<1>1. UNCHANGED <<up, signals, thread, library, gPasRegistered, gDbusPendingRvalue>>
  BY DEF ServiceAnswers, BusAnswers, TimesOut, service, cond, session, history, mishaps
<1>2. calls \in Seq(NoAnswer) /\ calls # <<>>
  BY DEF RegTypeOK
<1>3. Called /\ \E t \in Threads : thread[t].pc \in {"check", "blocked"}
  BY <1>2, HandshakeFacts
<1>4. k = 1 /\ Len(calls) = 1
  BY <1>2, <1>3 DEF Called
<1>5. SignalsTell'
  BY <1>0, <1>1 DEF SignalsTell
<1>6. \A t \in Threads : Busy(t) => thread[t].pc \in {"check", "blocked"}
  BY <1>3 DEF Handshake, OneAtATime, Busy
<1>7. ASSUME NEW w \in Values, Answered(k, w)
      PROVE  /\ SameKind'
             /\ \A t \in Threads, v \in Values : Busy(t)' /\ Told(t, v)' => v = w
             /\ ~ NobodyWaits'
  <2>1. /\ calls' \in Seq(NoAnswer) /\ Len(calls') = 1
        /\ calls'[1] = [kind |-> calls[1].kind, answered |-> TRUE, arg |-> w]
    BY <1>2, <1>4, <1>7, AnsweredType
  <2>2. calls'[1].kind = calls[1].kind /\ calls'[1].arg = w /\ calls' # <<>>
    <3>1. calls' # <<>>
      BY <2>1, NotEmpty
    <3>2. calls'[1].kind = calls[1].kind /\ calls'[1].arg = w
      BY <2>1
    <3> QED
      BY <3>1, <3>2
  <2>3. SameKind'
    BY <1>0, <1>1, <1>2, <2>2 DEF SameKind
  <2>4. \A t \in Threads, v \in Values : Busy(t)' /\ Told(t, v)' => v = w
    BY <1>1, <1>6, <2>2 DEF Told, Busy
  <2>5. ~ NobodyWaits'
    BY <1>1, <1>3 DEF NobodyWaits, At
  <2> QED
    BY <2>3, <2>4, <2>5
<1>8. ASSUME NEW w \in Values, Answered(k, w), ~ lapsed, late' = late,
             \A t \in Threads : Busy(t) /\ thread[t].kind = "register" => Fits(w)'
      PROVE  Honest'
  <2>1. Honest
    BY <1>8 DEF Truth
  <2>2. /\ \A t \in Threads, v \in Values : Busy(t)' /\ Told(t, v)' => v = w
        /\ ~ NobodyWaits'
    BY <1>7, <1>8
  <2>3. \A t \in Threads, v \in Values :
          Busy(t)' /\ thread'[t].kind = "register" /\ Told(t, v)' => Fits(v)'
    BY <1>1, <1>8, <2>2 DEF Busy
  <2> QED
    BY <1>1, <1>8, <2>1, <2>2, <2>3 DEF Honest, Busy
<1>9. ASSUME NEW a \in Answers, ServiceAnswers(k, a) PROVE Truth'
  <2>1. up /\ Answered(k, a) /\ a \in Values /\ late' = late
    BY <1>9 DEF ServiceAnswers
  <2>2. SameKind' /\ (known' => up')
    BY <1>1, <1>7, <2>1
  <2>3. ASSUME ~ lapsed' PROVE Honest'
    <3>1. ~ lapsed /\ a = 0
      BY <1>9, <2>3 DEF ServiceAnswers
    <3>2. ASSUME NEW t \in Threads, Busy(t), thread[t].kind = "register" PROVE Fits(a)'
      <4>1. calls[k].kind = "register"
        BY <1>0, <1>2, <1>4, <1>6, <3>2 DEF SameKind
      <4>2. known'
        <5>1. known' = IF calls[k].kind = "register" THEN known \/ a >= 0 ELSE FALSE
          BY <1>9, Zenon DEF ServiceAnswers
        <5>2. a >= 0
          BY <3>1
        <5> QED
          BY <4>1, <5>1, <5>2, Zenon
      <4> QED
        BY <1>1, <2>1, <3>1, <4>2 DEF Fits
    <3> QED
      BY <1>8, <2>1, <3>1, <3>2
  <2> QED
    BY <1>5, <2>2, <2>3 DEF Truth
<1>10. CASE BusAnswers(k)
  <2>1. ~ up /\ Answered(k, -1) /\ late' = late /\ known' = known /\ lapsed' = lapsed
    BY <1>10 DEF BusAnswers, service, history
  <2>2. SameKind' /\ (known' => up')
    BY <1>0, <1>1, <1>7, <2>1
  <2>3. Fits(-1)'
    BY <1>1, <2>1 DEF Fits
  <2>4. ~ lapsed' => Honest'
    BY <1>8, <2>1, <2>3
  <2> QED
    BY <1>5, <2>2, <2>4 DEF Truth
<1>11. CASE TimesOut(k)
  <2>1. Answered(k, -1) /\ lapsed' /\ known' = known
    BY <1>11 DEF TimesOut
  <2> QED
    BY <1>0, <1>1, <1>5, <1>7, <2>1 DEF Truth
<1> QED
  BY <1>9, <1>10, <1>11

(* The steps of the callers.                                               *)
LEMMA TruthCaller ==
  ASSUME RegTypeOK, Handshake, Truth, NEW t \in Threads, Caller(t) \/ SpuriousWakeup(t)
  PROVE  Truth'
<1> USE RegisterFacts
<1>0. SignalsTell /\ SameKind /\ (known => up) /\ Owners /\ Channel(t)
  BY DEF Truth, Handshake
<1>1. thread \in [Threads -> Thread] /\ cmds \in Seq(Threads) /\ gDbusPendingRvalue \in Values
  BY DEF RegTypeOK, Thread, Places
<1>2. UNCHANGED <<up, known, late>>
  BY DEF Caller, CheckPending, SpuriousWakeup, ResetPending, TakeResult,
     DoSendPasRegister,
         RegisterToPasStore, InitStore, DeinitStore, service
<1>3. Busy(t)
  BY DEF Caller, CheckPending, SpuriousWakeup, ResetPending, TakeResult,
     DoSendPasRegister,
         RegisterToPasStore, InitStore, DeinitStore, At, Busy
<1>4. \A s \in Threads \ {t} : thread[s].pc = "idle"
  BY <1>3, HandshakeFacts
<1>5. ASSUME UNCHANGED <<signals, library, gPasRegistered, lapsed>>, Busy(t)',
             \A s \in Threads \ {t} : thread'[s] = thread[s], thread'[t].kind = thread[t].kind,
             \A v \in Values : Told(t, v)' => Told(t, v), SameKind'
      PROVE  Truth'
  <2>1. SignalsTell'
    BY <1>0, <1>2, <1>5 DEF SignalsTell
  <2>2. ASSUME ~ lapsed' PROVE Honest'
    <3>1. Honest
      BY <1>5, <2>2 DEF Truth
    <3>2. ASSUME NEW s \in Threads, NEW v \in Values, Busy(s)', thread'[s].kind = "register",
                 Told(s, v)'
          PROVE  Fits(v)'
      <4>1. s = t
        BY <1>4, <1>5, <3>2 DEF Busy
      <4> QED
        BY <1>2, <1>3, <1>5, <3>1, <3>2, <4>1, ToldAsBefore
    <3>3. ~ NobodyWaits'
      BY <1>5 DEF NobodyWaits, At, Busy
    <3>4. \A s \in Spawned : Busy(s)' => gPasRegistered' = 0
      BY <1>3, <1>4, <1>5, <3>1 DEF Honest, Busy
    <3> QED
      BY <1>2, <1>5, <3>1, <3>2, <3>3, <3>4 DEF Honest
  <2> QED
    BY <1>0, <1>2, <1>5, <2>1, <2>2 DEF Truth
<1>6. ASSUME NEW place \in Places, Goto(t, place)
      PROVE  /\ thread'[t] = [pc |-> place, kind |-> thread[t].kind, rval |-> thread[t].rval]
             /\ thread'[t].pc = place /\ thread'[t].kind = thread[t].kind
             /\ \A s \in Threads \ {t} : thread'[s] = thread[s]
  BY <1>1, <1>6, GotoType
<1>7. CASE CheckPending(t)
  <2> DEFINE place == IF gDbusPendingCondValue = 0 THEN "blocked" ELSE "reset"
  <2>1. /\ thread[t].pc = "check" /\ Goto(t, place) /\ place \in Places
        /\ UNCHANGED <<signals, calls, gDbusPendingRvalue, library, gPasRegistered, lapsed>>
    BY <1>7 DEF CheckPending, At, Places, cond, session, history, mishaps
  <2>2. /\ thread'[t].pc = place /\ thread'[t].kind = thread[t].kind
        /\ \A s \in Threads \ {t} : thread'[s] = thread[s]
    BY <1>6, <2>1
  <2>3. Busy(t)' /\ SameKind'
    BY <1>0, <2>1, <2>2 DEF Busy, SameKind
  <2>4. \A v \in Values : Told(t, v)' => Told(t, v)
    BY <2>1, <2>2 DEF Told
  <2> QED
    BY <1>5, <2>1, <2>2, <2>3, <2>4
<1>8. CASE SpuriousWakeup(t)
  <2>1. /\ thread[t].pc = "blocked" /\ Goto(t, "check") /\ "check" \in Places
        /\ UNCHANGED <<signals, calls, gDbusPendingRvalue, library, gPasRegistered, lapsed>>
    BY <1>8 DEF SpuriousWakeup, At, Places, cond, session, history, mishaps
  <2>2. /\ thread'[t].pc = "check" /\ thread'[t].kind = thread[t].kind
        /\ \A s \in Threads \ {t} : thread'[s] = thread[s]
    BY <1>6, <2>1
  <2>3. Busy(t)' /\ SameKind'
    BY <1>0, <2>1, <2>2 DEF Busy, SameKind
  <2>4. calls # <<>>
    <3>1. Len(calls) = 1
      BY <1>0, <2>1 DEF Channel, Called
    <3> QED
      BY <3>1, EmptySeq
  <2>5. \A v \in Values : Told(t, v)' => Told(t, v)
    BY <2>1, <2>2, <2>4 DEF Told
  <2> QED
    BY <1>5, <2>1, <2>2, <2>3, <2>5
<1>9. CASE ResetPending(t)
  <2>1. /\ thread[t].pc = "reset" /\ Goto(t, "result") /\ "result" \in Places
        /\ UNCHANGED <<signals, calls, gDbusPendingRvalue, library, gPasRegistered, lapsed>>
    BY <1>9 DEF ResetPending, At, Places, session, history, mishaps
  <2>2. /\ thread'[t].pc = "result" /\ thread'[t].kind = thread[t].kind
        /\ \A s \in Threads \ {t} : thread'[s] = thread[s]
    BY <1>6, <2>1
  <2>3. Busy(t)' /\ SameKind'
    BY <1>0, <2>1, <2>2 DEF Busy, SameKind
  <2>4. \A v \in Values : Told(t, v)' => Told(t, v)
    BY <2>1, <2>2 DEF Told
  <2> QED
    BY <1>5, <2>1, <2>2, <2>3, <2>4
<1>10. CASE TakeResult(t)
  <2>1. /\ thread[t].pc = "result" /\ UNCHANGED <<signals, calls, library, gPasRegistered, lapsed>>
        /\ thread' = [thread EXCEPT ![t].pc = "store", ![t].rval = gDbusPendingRvalue]
    BY <1>10 DEF TakeResult, At, session, history, mishaps
  <2>2. /\ thread'[t].pc = "store" /\ thread'[t].kind = thread[t].kind
        /\ thread'[t].rval = gDbusPendingRvalue
        /\ \A s \in Threads \ {t} : thread'[s] = thread[s]
    BY <1>1, <2>1 DEF Thread
  <2>3. Busy(t)' /\ SameKind'
    BY <1>0, <2>1, <2>2 DEF Busy, SameKind
  <2>4. calls = <<>>
    BY <1>0, <2>1 DEF Channel, Nothing
  <2>5. \A v \in Values : Told(t, v)' => Told(t, v)
    BY <2>1, <2>2, <2>4 DEF Told
  <2> QED
    BY <1>5, <2>1, <2>2, <2>3, <2>5
<1>11. CASE DoSendPasRegister(t)
  <2>1. /\ thread[t].pc = "start" /\ Deliver(t, "register") /\ "register" \in Kinds
        /\ UNCHANGED <<signals, calls, library, gPasRegistered, lapsed>>
    BY <1>11 DEF DoSendPasRegister, At, Kinds, session, history, mishaps
  <2>2. /\ thread'[t] = [pc |-> "deliver", kind |-> "register", rval |-> 0]
        /\ \A s \in Threads \ {t} : thread'[s] = thread[s]
    BY <1>1, <2>1, DeliverType
  <2>3. thread'[t].kind = thread[t].kind
    BY <1>0, <2>1, <2>2 DEF Owners
  <2>4. Busy(t)' /\ SameKind' /\ calls' = <<>>
    BY <1>0, <2>1, <2>2 DEF Busy, SameKind, Channel, Nothing
  <2>5. \A v \in Values : Told(t, v)' => Told(t, v)
    BY <2>2, <2>4 DEF Told
  <2> QED
    BY <1>5, <2>1, <2>2, <2>3, <2>4, <2>5
<1>12. ASSUME thread[t].pc = "store", Goto(t, "idle"), UNCHANGED <<signals, calls>>
       PROVE  SignalsTell' /\ SameKind' /\ (known' => up') /\ (\A s \in Threads : ~ Busy(s)')
  <2>1. \A s \in Threads : thread'[s].pc = "idle"
    BY <1>4, <1>6, <1>12 DEF Places
  <2> QED
    BY <1>0, <1>2, <1>12, <2>1 DEF SignalsTell, SameKind, Busy
<1>13. ASSUME thread[t].pc = "store", thread[t].kind = "register", ~ lapsed,
              UNCHANGED signals, gPasRegistered = 0,
              gPasRegistered' = IF thread[t].rval = 0 THEN 1 ELSE gPasRegistered
       PROVE  thread[t].rval \in {0, -1} /\ Settled'
  <2>1. Honest /\ thread[t].rval \in Values /\ Told(t, thread[t].rval)
    BY <1>1, <1>13 DEF Truth, Told, Thread
  <2>2. Fits(thread[t].rval)
    BY <1>3, <1>13, <2>1 DEF Honest
  <2>3. thread[t].rval \in {0, -1}
    BY <2>2 DEF Fits
  <2>4. CASE thread[t].rval = 0
    <3>1. NoLoss => up' /\ known' /\ gPasRegistered' = 1
      BY <1>2, <1>13, <2>2, <2>4 DEF Fits
    <3>2. NoLoss' => NoLoss
      BY <1>13 DEF NoLoss
    <3> QED
      BY <2>3, <3>1, <3>2 DEF Settled, NoLoss
  <2>5. CASE thread[t].rval = -1
    <3>1. gPasRegistered' = 0 /\ (signals' = <<>> => ~ up' /\ ~ known')
      BY <1>0, <1>2, <1>13, <2>2, <2>5 DEF Fits
    <3> QED
      BY <2>3, <3>1 DEF Settled
  <2> QED
    BY <2>3, <2>4, <2>5
<1>14. CASE RegisterToPasStore(t)
  <2>1. /\ thread[t].pc = "store" /\ t \in Spawned /\ Goto(t, "idle")
        /\ UNCHANGED <<signals, calls, library, lapsed>>
        /\ gPasRegistered' = IF thread[t].rval = -1 THEN gPasRegistered ELSE 1
    BY <1>14 DEF RegisterToPasStore, At, session, history, mishaps
  <2>2. SignalsTell' /\ SameKind' /\ (known' => up') /\ (\A s \in Threads : ~ Busy(s)')
    BY <1>12, <2>1
  <2>3. ASSUME ~ lapsed' PROVE Honest'
    <3>1. /\ Honest /\ thread[t].kind = "register" /\ gPasRegistered = 0
          /\ library \in {"failed", "on"}
      BY <1>0, <1>3, <2>1, <2>3 DEF Truth, Owners, Honest
    <3>2. thread[t].rval \in {0, -1}
      <4>1. thread[t].rval \in Values /\ Told(t, thread[t].rval)
        BY <1>1, <2>1 DEF Told, Thread
      <4> QED
        BY <1>3, <3>1, <4>1 DEF Honest, Fits
    <3>3. gPasRegistered' = IF thread[t].rval = 0 THEN 1 ELSE gPasRegistered
      BY <2>1, <3>2
    <3>4. Settled'
      BY <1>13, <2>1, <2>3, <3>1, <3>3
    <3> QED
      BY <1>2, <2>1, <2>2, <3>1, <3>4 DEF Honest
  <2> QED
    BY <2>2, <2>3 DEF Truth
<1>15. CASE t = Main /\ InitStore
  <2>1. /\ thread[t].pc = "store" /\ t = Main /\ Goto(t, "idle") /\ library = "starting"
        /\ UNCHANGED <<signals, calls, lapsed>>
        /\ gPasRegistered' = IF thread[t].rval >= 0 THEN 1 ELSE gPasRegistered
        /\ library' = IF thread[t].rval < -1 THEN "failed" ELSE "on"
    BY <1>15 DEF InitStore, At, history
  <2>2. SignalsTell' /\ SameKind' /\ (known' => up') /\ (\A s \in Threads : ~ Busy(s)')
    BY <1>12, <2>1
  <2>3. ASSUME ~ lapsed' PROVE Honest'
    <3>1. Honest /\ thread[t].kind = "register" /\ gPasRegistered = 0
      BY <1>0, <1>3, <2>1, <2>3 DEF Truth, Owners, Honest
    <3>2. thread[t].rval \in {0, -1}
      <4>1. thread[t].rval \in Values /\ Told(t, thread[t].rval)
        BY <1>1, <2>1 DEF Told, Thread
      <4> QED
        BY <1>3, <3>1, <4>1 DEF Honest, Fits
    <3>3. gPasRegistered' = (IF thread[t].rval = 0 THEN 1 ELSE gPasRegistered) /\ library' = "on"
      BY <2>1, <3>2
    <3>4. Settled'
      BY <1>13, <2>1, <2>3, <3>1, <3>3
    <3> QED
      BY <1>2, <2>2, <3>1, <3>3, <3>4 DEF Honest
  <2> QED
    BY <2>2, <2>3 DEF Truth
<1>16. CASE t = Main /\ DeinitStore
  <2>1. /\ thread[t].pc = "store" /\ t = Main /\ Goto(t, "idle")
        /\ signals' = <<>> /\ calls' = <<>> /\ library' = "off"
        /\ gPasRegistered' = IF thread[t].rval = 0 THEN 0 ELSE gPasRegistered
        /\ lapsed' = (lapsed \/ thread[t].rval # 0)
    BY <1>16 DEF DeinitStore, At
  <2>2. \A s \in Threads : ~ Busy(s)'
    BY <1>4, <1>6, <2>1 DEF Places, Busy
  <2>3. SignalsTell' /\ SameKind'
    BY <2>1 DEF SignalsTell, SameKind
  <2>4. ASSUME ~ lapsed' PROVE Honest'
    <3>1. ~ lapsed /\ thread[t].rval = 0
      BY <2>1, <2>4
    <3>2. Honest
      BY <3>1 DEF Truth
    <3> QED
      BY <1>2, <2>1, <2>2, <3>1, <3>2 DEF Honest
  <2> QED
    BY <1>0, <1>2, <2>3, <2>4 DEF Truth
<1> QED
  BY <1>7, <1>8, <1>9, <1>10, <1>11, <1>14, <1>15, <1>16 DEF Caller

(* The steps of pclInitLibrary, pclDeinitLibrary and the loop thread.      *)
LEMMA TruthLoop ==
  ASSUME ~ crossed', ~ unsent', ~ overtaken', RegTypeOK, Handshake, Truth, RegNext,
         PclInitLibrary \/ DeinitLibrary \/ Loop
  PROVE  Truth'
<1> USE RegisterFacts
<1>0. SignalsTell /\ SameKind /\ (known => up) /\ Owners /\ \A t \in Threads : Channel(t)
  BY DEF Truth, Handshake
<1>1. /\ thread \in [Threads -> Thread] /\ cmds \in Seq(Threads) /\ calls \in Seq(NoAnswer)
      /\ gPasRegistered \in {0, 1}
  BY DEF RegTypeOK, Thread, Places
<1>2. UNCHANGED <<up, known, late, lapsed>>
  BY DEF PclInitLibrary, DeinitLibrary, Loop, ProcessSendPasRegister, SendWithReply,
     SendFails,
     MsgPendingFunc, Appeared, Disappeared, service, history
<1>3. ASSUME signals' = signals PROVE SignalsTell'
  BY <1>0, <1>2, <1>3 DEF SignalsTell
<1>4. CASE PclInitLibrary \/ DeinitLibrary
  <2>1. NobodyWaits /\ Nothing
    BY <1>4, HistoryFacts DEF Handshake
  <2>2. \A s \in Threads : thread[s].pc = "idle"
    BY <2>1 DEF NobodyWaits, At
  <2>3. \/ Deliver(Main, "register") /\ library' = "starting" /\ library \in {"off", "failed"}
        \/ Deliver(Main, "unregister") /\ library' = "ending"
    BY <1>4 DEF PclInitLibrary, DeinitLibrary
  <2>4. /\ thread'[Main].pc = "deliver"
        /\ \A s \in Threads \ {Main} : thread'[s] = thread[s]
    BY <1>1, <2>3, DeliverType DEF Kinds
  <2>5. UNCHANGED <<calls, signals, gPasRegistered>>
    BY <1>4 DEF PclInitLibrary, DeinitLibrary
  <2>6. SameKind' /\ SignalsTell'
    BY <1>3, <2>1, <2>5 DEF SameKind, Nothing
  <2>7. ASSUME ~ lapsed' PROVE Honest'
    <3>1. Honest
      BY <1>2, <2>7 DEF Truth
    <3>2. \A t \in Threads, v \in Values : Busy(t)' => ~ Told(t, v)'
      BY <2>1, <2>2, <2>4, <2>5 DEF Busy, Told, Nothing
    <3>3. \A t \in Spawned : ~ Busy(t)'
      BY <2>2, <2>4 DEF Busy
    <3>4. library' \in {"starting", "ending"} /\ (library' = "starting" => gPasRegistered' = 0)
      BY <2>3, <2>5, <3>1 DEF Honest
    <3> QED
      BY <1>2, <3>1, <3>2, <3>3, <3>4 DEF Honest
  <2> QED
    BY <1>0, <1>2, <2>6, <2>7 DEF Truth
<1>5. CASE ProcessSendPasRegister
  <2>1. PICK t \in Threads : thread[t].pc = "deliver" /\ cmds = <<t>> /\ calls = <<>>
    BY <1>5, HandshakeFacts DEF ProcessSendPasRegister
  <2>2. Head(cmds) = t
    BY <2>1
  <2>3. /\ Goto(t, "check") /\ "check" \in Places /\ UNCHANGED <<signals, library, gPasRegistered>>
        /\ calls' = Append(<<>>, [kind |-> thread[t].kind, answered |-> FALSE, arg |-> 0])
    BY <1>5, <2>1, <2>2 DEF ProcessSendPasRegister, SendWithReply, SendFails, Places,
       session
  <2>4. /\ thread'[t].pc = "check" /\ thread'[t].kind = thread[t].kind
        /\ \A s \in Threads \ {t} : thread'[s] = thread[s]
    BY <1>1, <2>3, GotoType
  <2>5. \A s \in Threads \ {t} : thread[s].pc = "idle"
    BY <2>1, HandshakeFacts DEF Busy
  <2>6. calls' # <<>> /\ calls'[1].kind = thread[t].kind /\ ~ calls'[1].answered
    BY <2>3
  <2>7. SameKind' /\ SignalsTell'
    BY <1>3, <2>3, <2>4, <2>5, <2>6 DEF SameKind
  <2>8. ASSUME ~ lapsed' PROVE Honest'
    <3>1. Honest
      BY <1>2, <2>8 DEF Truth
    <3>2. \A s \in Threads, v \in Values : Busy(s)' => ~ Told(s, v)'
      BY <2>4, <2>5, <2>6 DEF Busy, Told
    <3>3. \A s \in Spawned : Busy(s)' => gPasRegistered' = 0
      BY <2>1, <2>3, <2>4, <2>5, <3>1 DEF Honest, Busy
    <3>4. ~ NobodyWaits'
      BY <2>4 DEF NobodyWaits, At
    <3> QED
      BY <1>2, <2>3, <3>1, <3>2, <3>3, <3>4 DEF Honest
  <2> QED
    BY <1>0, <1>2, <2>7, <2>8 DEF Truth
<1>6. ASSUME NEW k \in DOMAIN calls, MsgPendingFunc(k) PROVE Truth'
  <2>1. calls # <<>> /\ k \in 1 .. Len(calls)
    BY <1>1
  <2>2. Called
    BY <2>1, HandshakeFacts
  <2>3. PICK t \in Threads : thread[t].pc \in {"check", "blocked"}
    BY <2>1, HandshakeFacts
  <2>4. \A s \in Threads \ {t} : thread[s].pc = "idle"
    BY <2>3, HandshakeFacts DEF Busy
  <2>5. k = 1
    BY <1>1, <2>1, <2>2 DEF Called
  <2>6. calls' = <<>> /\ gDbusPendingRvalue' = calls[1].arg /\ calls[1].answered
          /\ UNCHANGED <<signals, library, gPasRegistered>>
    BY <1>1, <1>6, <2>1, <2>2, <2>5, RemoveAtType DEF MsgPendingFunc, Called,
       session, history, mishaps
  <2>7. /\ thread'[t].pc = "check" /\ thread'[t].kind = thread[t].kind
        /\ \A s \in Threads \ {t} : thread'[s] = thread[s]
    <3>1. CASE thread[t].pc = "blocked"
      <4>1. Goto(t, "check") /\ "check" \in Places
        BY <1>6, <2>4, <3>1 DEF MsgPendingFunc, At, Places
      <4> QED
        BY <1>1, <4>1, GotoType
    <3>2. CASE thread[t].pc = "check"
      BY <1>6, <2>4, <3>2 DEF MsgPendingFunc, At
    <3> QED
      BY <2>3, <3>1, <3>2
  <2>8. SameKind' /\ SignalsTell'
    BY <1>3, <2>6 DEF SameKind
  <2>9. ASSUME ~ lapsed' PROVE Honest'
    <3>1. Honest
      BY <1>2, <2>9 DEF Truth
    <3>2. \A v \in Values : Told(t, v)' => Told(t, v)
      BY <2>1, <2>6, <2>7 DEF Told
    <3>3. ASSUME NEW s \in Threads, NEW v \in Values, Busy(s)', thread'[s].kind = "register",
                 Told(s, v)'
          PROVE  Fits(v)'
      <4>1. s = t
        BY <2>4, <2>7, <3>3 DEF Busy
      <4>2. Busy(t)
        BY <2>3 DEF Busy
      <4> QED
        BY <1>2, <2>6, <2>7, <3>1, <3>2, <3>3, <4>1, <4>2, ToldAsBefore
    <3>4. \A s \in Spawned : Busy(s)' => gPasRegistered' = 0
      BY <2>3, <2>4, <2>6, <2>7, <3>1 DEF Honest, Busy
    <3>5. ~ NobodyWaits'
      BY <2>7 DEF NobodyWaits, At
    <3> QED
      BY <1>2, <2>6, <3>1, <3>3, <3>4, <3>5 DEF Honest
  <2> QED
    BY <1>0, <1>2, <2>8, <2>9 DEF Truth
<1>7. CASE Appeared \/ Disappeared
  <2>1. NobodyWaits /\ Nothing /\ library \in {"failed", "on"}
    BY <1>7, HandshakeFacts, HistoryFacts DEF Appeared, Disappeared, Handled, Handshake
  <2>2. \A s \in Threads : thread[s].pc = "idle"
    BY <2>1 DEF NobodyWaits, At
  <2>3. signals # <<>> /\ signals' = Tail(signals) /\ UNCHANGED <<calls, library>>
    BY <1>7 DEF Appeared, Disappeared, Handled, session
  <2>4. /\ SignalsTell'
        /\ signals' = <<>> => Len(signals) = 1 /\ (signals[1] = "appeared" <=> up)
        /\ Head(signals) = signals[1]
        /\ Head(signals) = "appeared" /\ NoLoss' => signals' = <<>>
    BY <1>0, <1>2, <2>3, SignalTaken
  <2>5. SameKind'
    BY <2>1, <2>3 DEF SameKind, Nothing
  <2>6. ASSUME ~ lapsed' PROVE Honest'
    <3>1. Honest /\ library = "on" /\ Settled
      BY <1>2, <2>1, <2>6 DEF Truth, Honest
    <3>2. CASE Disappeared
      <4>1. Head(signals) = "disappeared" /\ gPasRegistered' = 0 /\ thread' = thread
        BY <3>2 DEF Disappeared, Handled
      <4>2. signals' = <<>> => ~ up' /\ ~ known'
        BY <1>0, <1>2, <2>4, <4>1
      <4>3. Settled'
        BY <4>1, <4>2 DEF Settled
      <4>4. \A t \in Threads : ~ Busy(t)'
        BY <2>2, <4>1 DEF Busy
      <4> QED
        BY <1>2, <2>3, <3>1, <4>1, <4>3, <4>4 DEF Honest
    <3>3. CASE Appeared /\ gPasRegistered = 0
      <4>1. PICK t \in Spawned : Goto(t, "start")
        BY <3>3 DEF Appeared
      <4>2. thread'[t].pc = "start" /\ \A s \in Threads \ {t} : thread'[s] = thread[s]
        BY <1>1, <4>1, GotoType DEF Places
      <4>3. gPasRegistered' = 0 /\ ~ NobodyWaits'
        BY <3>3, <4>2 DEF Appeared, NobodyWaits, At
      <4>4. \A s \in Threads, v \in Values : Busy(s)' => ~ Told(s, v)'
        BY <2>1, <2>2, <2>3, <4>2 DEF Busy, Told, Nothing
      <4> QED
        BY <1>2, <2>3, <3>1, <4>3, <4>4 DEF Honest
    <3>4. CASE Appeared /\ gPasRegistered = 1
      <4>1. Head(signals) = "appeared" /\ gPasRegistered' = 1 /\ thread' = thread
        BY <3>4 DEF Appeared, Handled
      <4>2. NoLoss' => signals' = <<>> /\ NoLoss
        BY <2>4, <4>1 DEF NoLoss
      <4>3. NoLoss' => up' /\ known'
        BY <1>0, <1>2, <3>1, <3>4, <4>2 DEF Settled
      <4>4. Settled'
        BY <4>1, <4>3 DEF Settled, NoLoss
      <4>5. \A t \in Threads : ~ Busy(t)'
        BY <2>2, <4>1 DEF Busy
      <4> QED
        BY <1>2, <2>3, <3>1, <4>4, <4>5 DEF Honest
    <3> QED
      BY <1>1, <1>7, <3>2, <3>3, <3>4
  <2> QED
    BY <1>0, <1>2, <2>4, <2>5, <2>6 DEF Truth
<1> QED
  BY <1>4, <1>5, <1>6, <1>7 DEF Loop

(* The inductive invariant.                                                *)
LEMMA RegInvInit == RegInit => RegInv
  BY RegisterTypeInit, HandshakeInit, TruthInit DEF RegInv, RegInit

(* A caller whose message could not be sent stays where it is, and nobody  *)
(* else begins without crossing it.                                        *)
LEMMA StuckStep ==
  ASSUME RegTypeOK, Stuck, RegNext, ~ crossed' PROVE Stuck'
<1>0. thread \in [Threads -> Thread]
  BY DEF RegTypeOK, Thread, Places
<1>1. PICK t \in Threads : Forsaken(t)
  BY DEF Stuck
<1>2. ~ NobodyWaits /\ cmds = <<>> /\ calls = <<>> /\ gDbusPendingCondValue = 0
  BY <1>1 DEF Forsaken, NobodyWaits, At, Stuck, Nothing
<1>3. ASSUME UNCHANGED <<thread, cmds, calls, gDbusPendingCondValue>> PROVE Stuck'
  BY <1>1, <1>2, <1>3 DEF Stuck, Forsaken, Nothing
<1>4. CASE ServiceAppears \/ ServiceDisappears \/ LateCall \/ Disappeared
  BY <1>3, <1>4 DEF ServiceAppears, ServiceDisappears, LateCall, Disappeared, cond
<1>5. CASE Appeared
  BY <1>2, <1>3, <1>5, HistoryFacts DEF Appeared, cond
<1>6. CASE PclInitLibrary \/ DeinitLibrary
  BY <1>2, <1>6, HistoryFacts
<1>7. CASE Bus \/ \E k \in DOMAIN calls : MsgPendingFunc(k)
  BY <1>2, <1>7 DEF Bus
<1>8. CASE ProcessSendPasRegister
  BY <1>2, <1>8 DEF ProcessSendPasRegister
<1>9. ASSUME NEW s \in Threads, Caller(s) \/ SpuriousWakeup(s) PROVE Stuck'
  <2>1. thread[s].pc # "idle"
    BY <1>9 DEF Caller, SpuriousWakeup, CheckPending, ResetPending, TakeResult,
       DoSendPasRegister, RegisterToPasStore, InitStore, DeinitStore, At
  <2>2. s = t
    BY <1>1, <2>1 DEF Forsaken
  <2>3. PICK place \in {"check", "blocked"} : Goto(t, place)
    BY <1>1, <1>2, <1>9, <2>2 DEF Forsaken, Caller, SpuriousWakeup, CheckPending,
       ResetPending,
       TakeResult, DoSendPasRegister, RegisterToPasStore, InitStore, DeinitStore, At
  <2>4. UNCHANGED <<cmds, calls, gDbusPendingCondValue>>
    BY <1>1, <1>2, <1>9, <2>2 DEF Forsaken, Caller, SpuriousWakeup, CheckPending,
       ResetPending,
       TakeResult, DoSendPasRegister, RegisterToPasStore, InitStore, DeinitStore, At, cond
  <2>5. thread'[t].pc = place /\ \A r \in Threads \ {t} : thread'[r] = thread[r]
    BY <1>0, <2>3, GotoType DEF Places
  <2> QED
    BY <1>1, <1>2, <2>4, <2>5 DEF Stuck, Forsaken, Nothing
<1> QED
  BY <1>4, <1>5, <1>6, <1>7, <1>8, <1>9 DEF RegNext, Loop

(* A message that cannot be sent leaves its caller behind.                 *)
LEMMA StuckBegins ==
  ASSUME RegTypeOK, Handshake, ProcessSendPasRegister, ~ unsent, unsent' PROVE Stuck'
<1>0. thread \in [Threads -> Thread]
  BY DEF RegTypeOK, Thread, Places
<1>1. PICK t \in Threads : thread[t].pc = "deliver" /\ cmds = <<t>> /\ calls = <<>>
  BY HandshakeFacts DEF ProcessSendPasRegister
<1>2. Head(cmds) = t /\ Tail(cmds) = <<>>
  BY <1>1
<1>3. SendFails(thread[t].kind)
  BY <1>2 DEF ProcessSendPasRegister, SendWithReply
<1>4. gDbusPendingCondValue = 0
  BY <1>1 DEF Handshake, Channel
<1>5. Nothing' /\ Goto(t, "check")
  BY <1>1, <1>2, <1>3, <1>4 DEF ProcessSendPasRegister, SendFails, Nothing, cond
<1>6. thread'[t].pc = "check" /\ \A s \in Threads \ {t} : thread'[s] = thread[s]
  BY <1>0, <1>5, GotoType DEF Places
<1>7. \A s \in Threads \ {t} : thread[s].pc = "idle"
  BY <1>1, HandshakeFacts DEF Busy
<1> QED
  BY <1>5, <1>6, <1>7 DEF Stuck, Forsaken

(* Every step preserves it.                                                *)
LEMMA RegStep == RegInv /\ [RegNext]_regVars => RegInv'
<1> SUFFICES ASSUME RegInv, [RegNext]_regVars PROVE RegInv'
  OBVIOUS
<1>1. RegTypeOK /\ RegTypeOK'
  BY RegisterTypeStep DEF RegInv
<1>2. CASE RegNext
  <2>1. /\ ~ crossed' => ~ crossed
        /\ ~ overtaken' => ~ overtaken
        /\ ~ unsent' => ~ unsent
        /\ unsent' # unsent => ProcessSendPasRegister
    BY <1>1, <1>2, HistoryFacts
  <2>2. ASSUME ~ crossed', ~ unsent' PROVE Handshake /\ Handshake'
    BY <1>1, <1>2, <2>1, <2>2, HandshakeStep DEF RegInv
  <2>3. ASSUME ~ crossed', ~ unsent', ~ overtaken' PROVE Truth'
    <3>1. Handshake /\ Truth
      BY <2>1, <2>3 DEF RegInv
    <3> QED
      BY <1>1, <1>2, <2>3, <3>1, TruthService, TruthBus, TruthCaller, TruthLoop DEF
         RegNext, Bus
  <2>4. ASSUME ~ crossed', unsent', unsent PROVE Stuck'
    BY <1>1, <1>2, <2>1, <2>4, StuckStep DEF RegInv
  <2>5. ASSUME ~ crossed', unsent', ~ unsent PROVE Stuck'
    <3>1. ProcessSendPasRegister /\ Handshake
      BY <2>1, <2>5 DEF RegInv
    <3> QED
      BY <1>1, <2>5, <3>1, StuckBegins
  <2> QED
    BY <1>1, <2>2, <2>3, <2>4, <2>5 DEF RegInv
<1>3. CASE UNCHANGED regVars
  <2>1. UNCHANGED <<up, known, late, signals, cmds, calls, thread, gPasRegistered,
                    gDbusPendingCondValue, gDbusPendingRvalue, library, lapsed, mishaps>>
    BY <1>3 DEF regVars, service, cond, session, history
  <2>2. Handshake => Handshake'
    BY <2>1, HandshakeKept
  <2>3. SameKind /\ SignalsTell /\ (known => up) => SameKind' /\ SignalsTell' /\ (known' => up')
    BY <2>1 DEF SameKind, SignalsTell
  <2>4. Honest => Honest'
    BY <2>1 DEF Honest, Busy, Told, Fits, NoLoss, Settled, NobodyWaits, At
  <2>5. Truth => Truth'
    BY <2>1, <2>3, <2>4 DEF Truth
  <2>6. Stuck => Stuck'
    BY <2>1 DEF Stuck, Forsaken, Nothing
  <2> QED
    BY <1>1, <2>1, <2>2, <2>5, <2>6 DEF RegInv, mishaps
<1> QED
  BY <1>2, <1>3

(* The types hold however signals and registrations interleave: the        *)
(* counters and the condition stay in range, every command in the pipe is  *)
(* that of a thread.                                                       *)
THEOREM RegisterTyped == RegSpec => []RegTypeOK
  BY RegisterTypeInit, RegisterTypeStep, PTL DEF RegSpec

(* As long as no call begins in the middle of another and every message is *)
(* sent, every caller that waits has an answer to come; and until a signal *)
(* is handled in the middle of a call, gPasRegistered tells the truth      *)
(* whenever nothing is under way: for every number of threads, of restarts *)
(* of the service, of sessions and of time-outs, and any set of answers.   *)
THEOREM RegistrationCorrect == RegSpec => []RegistrationIsSound
<1>1. RegInv => RegistrationIsSound
  <2> SUFFICES ASSUME RegInv PROVE RegistrationIsSound
    OBVIOUS
  <2> USE RegisterFacts
  <2>1. RegTypeOK
    BY DEF RegInv
  <2>2. ASSUME ~ crossed, ~ unsent PROVE AnswerToCome
    <3>h. Handshake
      BY <2>2 DEF RegInv
    <3>1. Len(cmds) \in Nat /\ Len(calls) \in Nat /\ gDbusPendingCondValue \in {0, 1}
      BY <2>1 DEF RegTypeOK
    <3>2. CASE Waiting = {}
      <4>1. Cardinality(Waiting) = 0
        BY <3>2, FS_EmptySet
      <4> QED
        BY <3>1, <4>1 DEF AnswerToCome
    <3>3. CASE Waiting # {}
      <4>1. PICK t \in Threads : thread[t].pc \in {"deliver", "check", "blocked"}
        BY <3>3 DEF Waiting
      <4>2. Waiting = {t}
        BY <3>h, <4>1 DEF Waiting, Handshake, OneAtATime, Busy
      <4>3. Cardinality(Waiting) = 1
        BY <4>2, FS_Singleton
      <4>4. Channel(t)
        BY <3>h DEF Handshake
      <4>5. cmds = <<t>> \/ Len(calls) = 1 \/ gDbusPendingCondValue = 1
        BY <4>1, <4>4 DEF Channel, Called, Signaled
      <4>6. cmds = <<t>> => Len(cmds) = 1
        OBVIOUS
      <4> QED
        BY <3>1, <4>3, <4>5, <4>6 DEF AnswerToCome
    <3> QED
      BY <3>2, <3>3
  <2>3. ASSUME ~ crossed, ~ overtaken PROVE FlagTellsTheTruth
    <3> SUFFICES ASSUME Quiet PROVE (gPasRegistered = 1) = up /\ known = up
      BY DEF FlagTellsTheTruth
    <3>t. ~ Stuck
      BY DEF Stuck, Forsaken, Quiet, NobodyWaits, At
    <3>1. Settled /\ signals = <<>>
      BY <2>3, <3>t DEF RegInv, Quiet, Truth, Honest
    <3>2. (gPasRegistered = 1 <=> up) /\ (known <=> up) /\ up \in BOOLEAN /\ known \in BOOLEAN
      BY <2>1, <3>1 DEF Settled, RegTypeOK
    <3> QED
      BY <3>2, Zenon
  <2> QED
    BY <2>1, <2>2, <2>3 DEF RegistrationIsSound
<1> QED
  BY <1>1, RegInvInit, RegStep, PTL DEF RegSpec
=============================================================================

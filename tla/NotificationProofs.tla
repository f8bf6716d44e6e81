------------------------- MODULE NotificationProofs -------------------------
(***************************************************************************)
(* Two components of the loop thread that libdbus calls back.              *)
(*                                                                         *)
(* The change notifications of module Notification: what registrations     *)
(* promise, for any resources, callbacks and bounds, under the three       *)
(* conditions without which that module shows it to fail: the hashes of    *)
(* the resources differ, one API is used, and no resource is registered    *)
(* twice.                                                                  *)
(*                                                                         *)
(* The poll array of module PollInfo, proved for every size of the array,  *)
(* every set of timeouts and every bound on the commands.                  *)
(***************************************************************************)
EXTENDS Notification, PollInfo, TLAPS, FiniteSetTheorems, WellFoundedInduction

-----------------------------------------------------------------------------
(* Registrations                                                           *)

(* Types, and what the handler and a call rely on between two steps.       *)
TypeInv ==
  /\ TypeOK
  /\ mainPc = "call" => signals # <<>>
  /\ \A a \in Apis : pc[a] # "idle" => call[a] \in Requests

(* A callback that was seen is a callback; one made is one of Callbacks.   *)
LEMMA TypeSignals ==
  ASSUME TypeInv, LoopStep PROVE TypeInv'
<1>1. signals # <<>>
  BY DEF LoopStep, SignalCheck, SignalCall, TypeInv
<1>2. /\ Head(signals) \in Resources /\ Tail(signals) \in Seq(Resources)
      /\ Len(Tail(signals)) <= MaxSignals
  BY <1>1, BoundAssumption DEF TypeInv, TypeOK
<1>3. CASE SignalCheck
  <2>1. CASE gChangeNotifyCallback = NoCallback
    BY <1>2, <1>3, <2>1 DEF SignalCheck, TypeInv, TypeOK, reg
  <2>2. CASE gChangeNotifyCallback # NoCallback
    BY <1>1, <1>3, <2>2 DEF SignalCheck, TypeInv, TypeOK, reg
  <2> QED
    BY <2>1, <2>2
<1>4. CASE SignalCall
  <2>1. PICK f \in {loaded, gChangeNotifyCallback} :
             /\ mainPc' = IF f = NoCallback THEN "crashed" ELSE "poll"
             /\ last' = IF f = NoCallback THEN last ELSE <<Head(signals), f>>
    BY <1>4 DEF SignalCall
  <2>2. last' \in (Resources \X Callbacks) \cup {<<>>}
    BY <1>2, <2>1 DEF TypeInv, TypeOK, AnyCallback
  <2> QED
    BY <1>2, <1>4, <2>1, <2>2 DEF SignalCall, TypeInv, TypeOK, reg, AnyCallback
<1> QED
  BY <1>3, <1>4 DEF LoopStep

(* The rules of a resource stay within their bound.                        *)
LEMMA TypeRules ==
  ASSUME TypeInv, NEW a \in Apis, Deliver(a)
  PROVE  rules' \in [Resources -> 0 .. MaxRules]
  BY BoundAssumption DEF Deliver, ProcessRegNotification, TypeInv, TypeOK, Requests

(* The steps of a call keep the types.                                     *)
LEMMA TypeApi ==
  ASSUME TypeInv, NEW a \in Apis, ApiStep(a) PROVE TypeInv'
<1>1. ASSUME NEW r \in Resources, NEW c \in Callbacks,
             Register(a, r, c) \/ Unregister(a, r, c)
      PROVE  TypeInv'
  <2>1. PICK op \in {"register", "unregister"} : Enter(a, op, r, c)
    BY <1>1 DEF Register, Unregister
  <2>2. registered' \in [Resources -> AnyCallback]
    BY <1>1 DEF Register, Unregister, TypeInv, TypeOK, AnyCallback
  <2>3. [op |-> op, res |-> r, callback |-> c] \in Requests
    BY DEF Requests
  <2>4. /\ call' \in [Apis -> Requests \cup {NoRequest}]
        /\ pc' \in [Apis -> {"idle", "update", "deliver"}]
        /\ \A b \in Apis : pc'[b] # "idle" => call'[b] \in Requests
    BY <2>1, <2>3 DEF Enter, TypeInv, TypeOK
  <2> QED
    BY <2>1, <2>2, <2>4 DEF Enter, TypeInv, TypeOK, reg, bus, loop
<1>2. CASE Update(a)
  <2> DEFINE h == Hash[call[a].res]
  <2>1. call[a].res \in Resources /\ call[a].callback \in Callbacks /\ h \in Hashes
    BY <1>2 DEF Update, TypeInv, Requests, Hashes
  <2>2. /\ tree' \subseteq Hashes /\ dangling' \subseteq Hashes
        /\ gChangeNotifyCallback' \in AnyCallback
    BY <1>2, <2>1 DEF Update, TreeRegister, TreeUnregister, TypeInv, TypeOK, AnyCallback
  <2> QED
    BY <1>2, <2>2 DEF Update, TypeInv, TypeOK, bus, loop
<1>3. CASE Deliver(a)
  <2>1. call[a].res \in Resources /\ call[a].callback \in Callbacks
    BY <1>3 DEF Deliver, TypeInv, Requests
  <2> QED
    BY <1>3, <2>1, TypeRules
    DEF Deliver, TypeInv, TypeOK, reg, loop, AnyCallback
<1> QED
  BY <1>1, <1>2, <1>3 DEF ApiStep

(* Every step keeps the types.                                             *)
LEMMA TypeStep == TypeInv /\ [Next]_vars => TypeInv'
<1> SUFFICES ASSUME TypeInv, [Next]_vars PROVE TypeInv'
  OBVIOUS
<1>1. ASSUME NEW r \in Resources, Publish(r) PROVE TypeInv'
  BY <1>1, BoundAssumption DEF Publish, TypeInv, TypeOK, reg, loop
<1>2. CASE DeinitLibrary
  <2>1. rules' \in [Resources -> 0 .. MaxRules]
    BY <1>2, BoundAssumption DEF DeinitLibrary
  <2>2. signals' \in Seq(Resources) /\ Len(signals') <= MaxSignals /\ mainPc' # "call"
    BY <1>2, BoundAssumption DEF DeinitLibrary, loop
  <2>3. registered' \in [Resources -> AnyCallback]
    BY <1>2 DEF DeinitLibrary, AnyCallback
  <2> QED
    BY <1>2, <2>1, <2>2, <2>3 DEF DeinitLibrary, TypeInv, TypeOK, loop
<1>3. CASE InitLibrary
  BY <1>3 DEF InitLibrary, TypeInv, TypeOK, reg, bus, loop
<1>4. CASE UNCHANGED vars
  BY <1>4 DEF vars, TypeInv, TypeOK, reg, bus, loop
<1> QED
  BY <1>1, <1>2, <1>3, <1>4, TypeApi, TypeSignals DEF Next

(* The initial state is well typed.                                        *)
LEMMA TypeInit == Init => TypeInv
  BY BoundAssumption DEF Init, TypeInv, TypeOK, AnyCallback

(* The variables keep their types, whatever the application registers.     *)
THEOREM TypeCorrect == Spec => []TypeOK
<1>1. TypeInv => TypeOK
  BY DEF TypeInv
<1> QED
  BY <1>1, TypeInit, TypeStep, PTL DEF Spec

-----------------------------------------------------------------------------
(* The conditions.                                                         *)
OneApi   == \A a, b \in Apis : a = b
Distinct == \A r, s \in Resources : Hash[r] = Hash[s] => r = s

(* What a call in progress leaves for its next step.                       *)
CallInv ==
  \A a \in Apis : pc[a] # "idle" =>
     /\ registered[call[a].res] = NoCallback
     /\ call[a].op = "register" =>
          /\ rules[call[a].res] = 0
          /\ pc[a] = "update"  => gChangeNotifyCallback \in {call[a].callback, NoCallback}
          /\ pc[a] = "deliver" => /\ gChangeNotifyCallback = call[a].callback
                                 /\ Hash[call[a].res] \in tree

(* What is in the tree is registered, or a call is about to make it so.    *)
TreeInv ==
  \A r \in Resources : Hash[r] \in tree =>
     \/ registered[r] # NoCallback
     \/ \E a \in Apis : /\ call[a].res = r
                        /\ \/ pc[a] = "update" /\ call[a].op = "unregister"
                           \/ pc[a] = "deliver" /\ call[a].op = "register"

RegisteredInv ==
  \A r \in Resources : registered[r] # NoCallback =>
     Hash[r] \in tree /\ rules[r] > 0 /\ gChangeNotifyCallback = registered[r]

RuleInv == \A r \in Resources : rules[r] <= 1

IInv == /\ TypeInv /\ dangling = {}
        /\ CallInv /\ TreeInv /\ RegisteredInv /\ RuleInv /\ UnregisteredIsSilent

(* It holds initially.                                                     *)
LEMMA IInvInit == Init => IInv
  BY TypeInit DEF Init, IInv, CallInv, TreeInv, RegisteredInv, RuleInv,
                  UnregisteredIsSilent

(* A call that begins.                                                     *)
LEMMA IInvEnter ==
  ASSUME OneApi, ~ Again, IInv, TypeInv', NEW a \in Apis,
         NEW r \in Resources, NEW c \in Callbacks,
         Register(a, r, c) \/ Unregister(a, r, c)
  PROVE  IInv'
<1>1. PICK op \in {"register", "unregister"} :
         /\ Enter(a, op, r, c)
         /\ registered' = [registered EXCEPT ![r] = NoCallback]
         /\ op = "register" => /\ gChangeNotifyCallback \in {c, NoCallback}
                               /\ registered[r] = NoCallback
  <2>1. CASE Register(a, r, c)
    <3>1. registered = [registered EXCEPT ![r] = NoCallback]
      BY <2>1 DEF Register, IInv, TypeInv, TypeOK
    <3> QED
      BY <2>1, <3>1 DEF Register
  <2>2. CASE Unregister(a, r, c)
    BY <2>2 DEF Unregister
  <2> QED
    BY <2>1, <2>2
<1>2. \A b \in Apis : b = a
  BY DEF OneApi
<1>3. /\ pc[a] = "idle" /\ pc' = [pc EXCEPT ![a] = "update"]
      /\ call' = [call EXCEPT ![a] = [op |-> op, res |-> r, callback |-> c]]
      /\ UNCHANGED <<tree, dangling, gChangeNotifyCallback, rules>>
  BY <1>1 DEF Enter, reg, bus
<1>4. /\ pc'[a] = "update"
      /\ call'[a].op = op /\ call'[a].res = r /\ call'[a].callback = c
  BY <1>3 DEF IInv, TypeInv, TypeOK
<1>5. registered'[r] = NoCallback /\ \A q \in Resources : q # r => registered'[q] = registered[q]
  BY <1>1 DEF IInv, TypeInv, TypeOK
<1>6. registered[r] = NoCallback => rules[r] = 0
  BY <1>2, <1>3 DEF IInv, UnregisteredIsSilent
<1>7. CallInv'
  BY <1>1, <1>2, <1>3, <1>4, <1>5, <1>6 DEF CallInv
<1>8. TreeInv'
  BY <1>1, <1>2, <1>3, <1>4, <1>5 DEF IInv, TreeInv
<1>9. RegisteredInv' /\ RuleInv'
  BY <1>3, <1>5 DEF IInv, RegisteredInv, RuleInv
<1>10. UnregisteredIsSilent'
  BY <1>2, <1>3, <1>4, <1>5 DEF IInv, UnregisteredIsSilent
<1> QED
  BY <1>3, <1>7, <1>8, <1>9, <1>10 DEF IInv

(* The tree and the callback are updated.                                  *)
LEMMA IInvUpdate ==
  ASSUME OneApi, Distinct, IInv, TypeInv', NEW a \in Apis, Update(a) PROVE IInv'
<1> DEFINE r == call[a].res
           h == Hash[r]
<1>1. \A b \in Apis : b = a
  BY DEF OneApi
<1>2. /\ pc[a] = "update" /\ pc' = [pc EXCEPT ![a] = "deliver"]
      /\ UNCHANGED <<rules, call, registered>>
  BY DEF Update, bus
<1>3. pc'[a] = "deliver"
  BY <1>2 DEF IInv, TypeInv, TypeOK
<1>4. r \in Resources /\ registered[r] = NoCallback
  BY <1>2 DEF IInv, TypeInv, Requests, CallInv
<1>5. Finds(h) = {h \in tree}
  BY DEF Finds, IInv
<1>6. RuleInv' /\ UnregisteredIsSilent'
  BY <1>1, <1>2, <1>3 DEF IInv, RuleInv, UnregisteredIsSilent
<1>7. CASE call[a].op = "register"
  <2>1. h \notin tree
    BY <1>1, <1>2, <1>4, <1>7 DEF IInv, TreeInv
  <2>2. TreeRegister(h, call[a].callback, FALSE)
    BY <1>5, <1>7, <2>1 DEF Update
  <2>3. /\ tree' = tree \cup {h} /\ dangling' = {}
        /\ gChangeNotifyCallback' = call[a].callback
        /\ gChangeNotifyCallback \in {call[a].callback, NoCallback}
    BY <1>2, <1>7, <2>2 DEF TreeRegister, IInv, CallInv
  <2>4. CallInv'
    BY <1>1, <1>2, <1>3, <1>4, <2>3 DEF IInv, CallInv
  <2>5. TreeInv'
    BY <1>1, <1>2, <1>3, <1>4, <1>7, <2>3 DEF IInv, TreeInv, Distinct
  <2>6. RegisteredInv'
    BY <1>2, <2>3 DEF IInv, RegisteredInv
  <2> QED
    BY <1>6, <2>3, <2>4, <2>5, <2>6 DEF IInv
<1>8. CASE call[a].op = "unregister"
  <2>1. TreeUnregister(h, h \in tree)
    BY <1>5, <1>8 DEF Update
  <2>2. /\ tree' = tree \ {h} /\ dangling' = {}
        /\ tree' # {} => gChangeNotifyCallback' = gChangeNotifyCallback
    BY <2>1 DEF TreeUnregister, IInv
  <2>3. CallInv'
    BY <1>1, <1>2, <1>4, <1>8 DEF IInv, CallInv
  <2>4. TreeInv'
    BY <1>1, <1>2, <1>4, <1>8, <2>2 DEF IInv, TreeInv
  <2>5. RegisteredInv'
    BY <1>2, <1>4, <2>2 DEF IInv, RegisteredInv, Distinct
  <2> QED
    BY <1>6, <2>2, <2>3, <2>4, <2>5 DEF IInv
<1> QED
  BY <1>2, <1>7, <1>8 DEF IInv, TypeInv, Requests

(* The loop changes the rules and the call returns.                        *)
LEMMA IInvDeliver ==
  ASSUME OneApi, Distinct, IInv, TypeInv', NEW a \in Apis, Deliver(a) PROVE IInv'
<1> DEFINE r == call[a].res
<1>1. \A b \in Apis : b = a
  BY DEF OneApi
<1>2. /\ pc[a] = "deliver" /\ pc' = [pc EXCEPT ![a] = "idle"]
      /\ UNCHANGED <<tree, dangling, gChangeNotifyCallback>>
  BY DEF Deliver, reg
<1>3. pc'[a] = "idle"
  BY <1>2 DEF IInv, TypeInv, TypeOK
<1>4. r \in Resources /\ registered[r] = NoCallback
      /\ call[a].op \in {"register", "unregister"} /\ call[a].callback \in Callbacks
  BY <1>2 DEF IInv, TypeInv, Requests, CallInv
<1>5. \A q \in Resources : q # r => rules'[q] = rules[q] /\ registered'[q] = registered[q]
  BY <1>4 DEF Deliver, ProcessRegNotification, IInv, TypeInv, TypeOK
<1>6. CallInv'
  BY <1>1, <1>3 DEF CallInv
<1>7. rules[r] \in {0, 1}
  <2>1. rules[r] \in 0 .. MaxRules /\ rules[r] <= 1
    BY <1>4 DEF IInv, RuleInv, TypeInv, TypeOK
  <2> QED
    BY <2>1, BoundAssumption
<1>8. CASE call[a].op = "register"
  <2>1. rules[r] = 0 /\ gChangeNotifyCallback = call[a].callback /\ Hash[r] \in tree
    BY <1>2, <1>8 DEF IInv, CallInv
  <2>2. rules'[r] = 1 /\ registered'[r] = call[a].callback
    BY <1>4, <1>8, <2>1 DEF Deliver, ProcessRegNotification, IInv, TypeInv, TypeOK
  <2>3. registered'[r] # NoCallback
    BY <1>4, <2>2, CallbackAssumption
  <2>4. TreeInv'
    BY <1>1, <1>2, <1>5, <2>3 DEF IInv, TreeInv
  <2>5. RegisteredInv' /\ RuleInv'
    BY <1>2, <1>5, <2>1, <2>2 DEF IInv, RegisteredInv, RuleInv
  <2>6. UnregisteredIsSilent'
    BY <1>1, <1>5, <2>3 DEF IInv, UnregisteredIsSilent
  <2> QED
    BY <1>2, <1>6, <2>4, <2>5, <2>6 DEF IInv
<1>9. CASE call[a].op = "unregister"
  <2>1. rules'[r] = 0 /\ registered'[r] = NoCallback
    BY <1>4, <1>7, <1>9 DEF Deliver, ProcessRegNotification, IInv, TypeInv, TypeOK
  <2>2. TreeInv'
    BY <1>1, <1>2, <1>4, <1>5, <1>9, <2>1 DEF IInv, TreeInv
  <2>3. RegisteredInv' /\ RuleInv'
    BY <1>2, <1>5, <2>1 DEF IInv, RegisteredInv, RuleInv
  <2>4. UnregisteredIsSilent'
    BY <1>1, <1>5, <2>1 DEF IInv, UnregisteredIsSilent
  <2> QED
    BY <1>2, <1>6, <2>2, <2>3, <2>4 DEF IInv
<1> QED
  BY <1>4, <1>8, <1>9

(* Every step preserves the invariant.                                     *)
LEMMA IInvStep ==
  ASSUME OneApi, Distinct, ~ Again PROVE IInv /\ [Next]_vars => IInv'
<1> SUFFICES ASSUME IInv, [Next]_vars PROVE IInv'
  OBVIOUS
<1>1. TypeInv'
  BY TypeStep DEF IInv
<1>2. ASSUME NEW a \in Apis, ApiStep(a) PROVE IInv'
  BY <1>1, <1>2, IInvEnter, IInvUpdate, IInvDeliver DEF ApiStep
<1>3. ASSUME UNCHANGED <<reg, rules, pc, call, registered>> PROVE IInv'
  BY <1>1, <1>3 DEF reg, IInv, CallInv, TreeInv, RegisteredInv, RuleInv,
                    UnregisteredIsSilent
<1>4. ASSUME NEW r \in Resources, Publish(r) PROVE IInv'
  BY <1>3, <1>4 DEF Publish
<1>5. CASE LoopStep
  BY <1>3, <1>5 DEF LoopStep, SignalCheck, SignalCall
<1>6. CASE DeinitLibrary
  BY <1>1, <1>6 DEF DeinitLibrary, IInv, CallInv, TreeInv, RegisteredInv, RuleInv,
                    UnregisteredIsSilent
<1>7. CASE InitLibrary \/ UNCHANGED vars
  BY <1>3, <1>7 DEF InitLibrary, bus, vars
<1> QED
  BY <1>2, <1>4, <1>5, <1>6, <1>7 DEF Next

(* As long as the application is registered for a resource, its changes    *)
(* are matched and the callback is the one it passed.                      *)
THEOREM RegisteredIsNotifiedCorrect ==
  ASSUME OneApi, Distinct, ~ Again PROVE Spec => []RegisteredIsNotified
<1>1. IInv => RegisteredIsNotified
  BY DEF IInv, RegisteredInv, RegisteredIsNotified
<1> QED
  BY <1>1, IInvInit, IInvStep, PTL DEF Spec

(* No match rule outlives its registration.                                *)
THEOREM UnregisteredIsSilentCorrect ==
  ASSUME OneApi, Distinct, ~ Again PROVE Spec => []UnregisteredIsSilent
<1>1. IInv => UnregisteredIsSilent
  BY DEF IInv
<1> QED
  BY <1>1, IInvInit, IInvStep, PTL DEF Spec

-----------------------------------------------------------------------------
(* The poll array                                                          *)

(* The types of an array.                                                  *)
PollFds == [fd : Fds, events : SUBSET {"in", "out"}, revents : SUBSET {"in", "out"}]
Objects == [objtype : {"none", "watch", "timeout"}, obj : Watches \cup Timeouts \cup {NULL}]
Infos   == [nfds : 1 .. PollSize, fds : [Slots -> PollFds], objects : [Slots -> Objects]]

(* What holds of an array P when libdbus has added the timeouts T: place 0 *)
(* is the pipe's, every other place that is taken is a watch's or the only *)
(* one of a timeout of T, and no timeout is missing.                       *)
Sound(P, T) ==
  /\ P \in Infos
  /\ P.fds[0].fd = Pipe /\ P.objects[0] = NoEntry
  /\ \A k \in 1 .. P.nfds - 1 :
       \/ P.objects[k].objtype = "watch" /\ P.objects[k].obj \in Watches /\ P.fds[k].fd = Socket
       \/ /\ P.objects[k].objtype = "timeout" /\ P.objects[k].obj \in T
          /\ P.fds[k].fd = P.objects[k].obj
  /\ \A t \in T : \E k \in 1 .. P.nfds - 1 : P.objects[k].obj = t
  /\ \A k, l \in 1 .. P.nfds - 1 :
       P.objects[k].obj = P.objects[l].obj /\ P.objects[k].obj \in T => k = l

(* The watch w is polled for what it waits for.                            *)
Serves(P, w) ==
  \E k \in 1 .. P.nfds - 1 : /\ P.objects[k].objtype = "watch" /\ P.objects[k].obj = w
                             /\ Flags(w) \subseteq P.fds[k].events

(* The constants, without cardinalities.                                   *)
LEMMA PollFacts ==
  /\ PollSize \in Nat /\ PollSize > 1 /\ MaxPipe \in Nat
  /\ Watches \cap Timeouts = {} /\ NULL \notin Watches \cup Timeouts
  /\ \A w \in Watches : Flags(w) \in SUBSET {"in", "out"}
  /\ 0 \in Slots /\ 1 \in Slots
  BY PollAssumption DEF Watches, Flags, Slots

(* addWatch: the array stays sound, and a watch that is added while it is  *)
(* on is polled, if there is a place for it.                               *)
LEMMA AddWatchSound ==
  ASSUME NEW T \in SUBSET Timeouts, NEW P, Sound(P, T), NEW w \in Watches, NEW on \in BOOLEAN
  PROVE  /\ Sound(AddWatch(P, w, on), T)
         /\ \A v \in Watches : Serves(P, v) => Serves(AddWatch(P, w, on), v)
         /\ P.nfds < PollSize /\ on => Serves(AddWatch(P, w, on), w)
         /\ AddWatch(P, w, on).nfds = P.nfds + (IF on /\ P.nfds < PollSize THEN 1 ELSE 0)
<1> USE PollFacts
<1> DEFINE Q == AddWatch(P, w, on)
           n == P.nfds
<1>0. P \in Infos /\ n \in 1 .. PollSize
  BY DEF Sound, Infos
<1>1. CASE n = PollSize
  BY <1>0, <1>1 DEF AddWatch
<1>2. CASE n # PollSize
  <2>1. n \in Slots /\ n # 0 /\ n < PollSize
    BY <1>0, <1>2 DEF Slots
  <2>2. Q = [nfds    |-> IF on THEN n + 1 ELSE n,
            fds     |-> [P.fds EXCEPT ![n].fd = Socket,
                                      ![n].events = IF on THEN @ \cup Flags(w) ELSE @],
            objects |-> [P.objects EXCEPT ![n] = [objtype |-> "watch", obj |-> w]]]
    BY <1>2 DEF AddWatch
  <2>3. P.fds \in [Slots -> PollFds] /\ P.objects \in [Slots -> Objects]
    BY <1>0 DEF Infos
  <2>4. /\ Q.nfds \in 1 .. PollSize /\ Q.nfds = IF on THEN n + 1 ELSE n
        /\ Q.objects = [k \in Slots |-> IF k = n THEN [objtype |-> "watch", obj |-> w]
                                        ELSE P.objects[k]]
        /\ \A k \in Slots \ {n} : Q.fds[k] = P.fds[k]
        /\ Q.fds[n].fd = Socket
        /\ Q.fds[n].events = IF on THEN P.fds[n].events \cup Flags(w) ELSE P.fds[n].events
    BY <1>0, <2>1, <2>2, <2>3 DEF PollFds
  <2>5. Q \in Infos
    <3>1. [P.fds EXCEPT ![n].fd = Socket, ![n].events = IF on THEN @ \cup Flags(w) ELSE @]
            \in [Slots -> PollFds]
      BY SMTT(20), <2>1, <2>3 DEF PollFds, Fds
    <3>2. [objtype |-> "watch", obj |-> w] \in Objects
      BY DEF Objects
    <3>3. [P.objects EXCEPT ![n] = [objtype |-> "watch", obj |-> w]] \in [Slots -> Objects]
      BY <2>1, <2>3, <3>2
    <3> QED
      BY SMTT(20), <2>2, <2>4, <3>1, <3>3 DEF Infos
  <2>6. \A k \in 1 .. n - 1 : k \in Slots /\ k # n /\ k \in 1 .. Q.nfds - 1
    BY <1>0, <2>1, <2>4 DEF Slots
  <2>7. \A k \in 1 .. n - 1 : Q.objects[k] = P.objects[k] /\ Q.fds[k] = P.fds[k]
    BY <2>4, <2>6
  <2>8. \A k \in 1 .. Q.nfds - 1 : k \in 1 .. n - 1 \/ (k = n /\ on)
    BY <1>0, <2>4
  <2>9. Q.objects[n] = [objtype |-> "watch", obj |-> w] /\ w \notin T
    BY <2>1, <2>4
  <2> HIDE DEF Q
  <2>10. Q.fds[0].fd = Pipe /\ Q.objects[0] = NoEntry
    BY <2>1, <2>4 DEF Sound, Slots
  <2>11. \A k \in 1 .. Q.nfds - 1 :
           \/ Q.objects[k].objtype = "watch" /\ Q.objects[k].obj \in Watches /\ Q.fds[k].fd = Socket
           \/ /\ Q.objects[k].objtype = "timeout" /\ Q.objects[k].obj \in T
              /\ Q.fds[k].fd = Q.objects[k].obj
    BY <2>4, <2>7, <2>8, <2>9 DEF Sound
  <2>12. \A t \in T : \E k \in 1 .. Q.nfds - 1 : Q.objects[k].obj = t
    BY <2>6, <2>7 DEF Sound
  <2>13. \A k, l \in 1 .. Q.nfds - 1 :
           Q.objects[k].obj = Q.objects[l].obj /\ Q.objects[k].obj \in T => k = l
    BY <2>7, <2>8, <2>9 DEF Sound
  <2>14. Sound(Q, T)
    BY <2>5, <2>10, <2>11, <2>12, <2>13 DEF Sound
  <2>15. \A v \in Watches : Serves(P, v) => Serves(Q, v)
    BY <2>6, <2>7 DEF Serves
  <2>16. on => Serves(Q, w)
    <3> SUFFICES ASSUME on PROVE Serves(Q, w)
      OBVIOUS
    <3>1. n \in 1 .. Q.nfds - 1 /\ Flags(w) \subseteq Q.fds[n].events
      BY <1>0, <2>4
    <3> QED
      BY <3>1, <2>9 DEF Serves
  <2> QED
    BY <1>0, <2>1, <2>4, <2>14, <2>15, <2>16 DEF Q
<1> QED
  BY <1>1, <1>2

(* addTimeout, when there is a place.                                      *)
LEMMA AddTimeoutSound ==
  ASSUME NEW T \in SUBSET Timeouts, NEW P, Sound(P, T), NEW t \in Timeouts \ T, P.nfds < PollSize
  PROVE  /\ Sound(AddTimeout(P, t), T \cup {t})
         /\ \A v \in Watches : Serves(P, v) => Serves(AddTimeout(P, t), v)
         /\ AddTimeout(P, t).nfds = P.nfds + 1
<1> USE PollFacts
<1> DEFINE Q == AddTimeout(P, t)
           n == P.nfds
<1>0. P \in Infos /\ n \in 1 .. PollSize
  BY DEF Sound, Infos
<1>1. n \in Slots /\ n # 0 /\ n < PollSize
  BY <1>0 DEF Slots
<1>2. Q = [nfds    |-> n + 1,
           fds     |-> [P.fds EXCEPT ![n].fd = t, ![n].events = @ \cup {"in"}],
           objects |-> [P.objects EXCEPT ![n] = [objtype |-> "timeout", obj |-> t]]]
  BY DEF AddTimeout
<1>3. P.fds \in [Slots -> PollFds] /\ P.objects \in [Slots -> Objects]
  BY <1>0 DEF Infos
<1>4. /\ Q.nfds \in 1 .. PollSize /\ Q.nfds = n + 1
      /\ Q.objects = [k \in Slots |-> IF k = n THEN [objtype |-> "timeout", obj |-> t]
                                      ELSE P.objects[k]]
      /\ \A k \in Slots \ {n} : Q.fds[k] = P.fds[k]
      /\ Q.fds[n].fd = t
  <2>1. Q.nfds \in 1 .. PollSize /\ Q.nfds = n + 1
    BY <1>0, <1>1, <1>2
  <2>2. Q.objects = [k \in Slots |-> IF k = n THEN [objtype |-> "timeout", obj |-> t]
                                      ELSE P.objects[k]]
    BY <1>1, <1>2, <1>3
  <2>3. (\A k \in Slots \ {n} : Q.fds[k] = P.fds[k]) /\ Q.fds[n].fd = t
    BY <1>1, <1>2, <1>3 DEF PollFds
  <2> QED
    BY <2>1, <2>2, <2>3
<1>5. Q \in Infos
  <2>1. [P.fds EXCEPT ![n].fd = t, ![n].events = @ \cup {"in"}] \in [Slots -> PollFds]
    BY SMTT(20), <1>1, <1>3 DEF PollFds, Fds
  <2>2. [objtype |-> "timeout", obj |-> t] \in Objects
    BY DEF Objects
  <2>3. [P.objects EXCEPT ![n] = [objtype |-> "timeout", obj |-> t]] \in [Slots -> Objects]
    BY <1>1, <1>3, <2>2
  <2> QED
    BY <1>2, <1>4, <2>1, <2>3 DEF Infos
<1>6. \A k \in 1 .. n - 1 : k \in Slots /\ k # n /\ k \in 1 .. Q.nfds - 1
  BY <1>0, <1>1, <1>4 DEF Slots
<1>7. \A k \in 1 .. n - 1 : Q.objects[k] = P.objects[k] /\ Q.fds[k] = P.fds[k]
  BY <1>4, <1>6
<1>8. /\ \A k \in 1 .. Q.nfds - 1 : k \in 1 .. n - 1 \/ k = n
      /\ n \in 1 .. Q.nfds - 1
  BY <1>0, <1>4
<1>9. Q.objects[n] = [objtype |-> "timeout", obj |-> t] /\ Q.fds[n].fd = t
  BY <1>1, <1>4
<1> HIDE DEF Q
<1>10. Q.fds[0].fd = Pipe /\ Q.objects[0] = NoEntry
  BY <1>1, <1>4 DEF Sound, Slots
<1>11. \A k \in 1 .. Q.nfds - 1 :
         \/ Q.objects[k].objtype = "watch" /\ Q.objects[k].obj \in Watches /\ Q.fds[k].fd = Socket
         \/ /\ Q.objects[k].objtype = "timeout" /\ Q.objects[k].obj \in T \cup {t}
            /\ Q.fds[k].fd = Q.objects[k].obj
  BY <1>4, <1>7, <1>8, <1>9 DEF Sound
<1>12. \A u \in T \cup {t} : \E k \in 1 .. Q.nfds - 1 : Q.objects[k].obj = u
  BY <1>6, <1>7, <1>8, <1>9 DEF Sound
<1>13. \A k \in 1 .. n - 1 : P.objects[k].obj # t
  BY DEF Sound
<1>14. \A k, l \in 1 .. Q.nfds - 1 :
         Q.objects[k].obj = Q.objects[l].obj /\ Q.objects[k].obj \in T \cup {t} => k = l
  BY <1>7, <1>8, <1>9, <1>13 DEF Sound
<1>15. Sound(Q, T \cup {t})
  BY <1>5, <1>10, <1>11, <1>12, <1>14 DEF Sound
<1>16. \A v \in Watches : Serves(P, v) => Serves(Q, v)
  BY <1>6, <1>7 DEF Serves
<1> QED
  BY <1>4, <1>15, <1>16 DEF Q

(* The greatest element of a set of one.                                   *)
LEMMA MaxOfOne == ASSUME NEW p \in Int PROVE Max({p}) = p
  BY DEF Max

(* removeTimeout: the entries above the one of the timeout move down.      *)
LEMMA RemoveTimeoutSound ==
  ASSUME NEW T \in SUBSET Timeouts, NEW P, Sound(P, T), NEW t \in T
  PROVE  /\ Sound(RemoveTimeout(P, t), T \ {t})
         /\ \A v \in Watches : Serves(P, v) => Serves(RemoveTimeout(P, t), v)
         /\ RemoveTimeout(P, t).nfds = P.nfds - 1
<1> USE PollFacts
<1> DEFINE Q == RemoveTimeout(P, t)
           n == P.nfds
           top == n - 1
           places == {k \in 1 .. n - 1 : P.objects[k].obj = t}
<1>0. P \in Infos /\ n \in 1 .. PollSize
  BY DEF Sound, Infos
<1>1. P.fds \in [Slots -> PollFds] /\ P.objects \in [Slots -> Objects]
  BY <1>0 DEF Infos
<1>2. PICK p \in 1 .. n - 1 : P.objects[p].obj = t
  BY DEF Sound
<1>3. places = {p} /\ \A k \in 1 .. n - 1 : P.objects[k].obj = t => k = p
  BY <1>2 DEF Sound
<1>4. Max(places) = p /\ places # {}
  BY <1>0, <1>3, MaxOfOne
<1> DEFINE from(k) == IF p <= k /\ k < top THEN k + 1 ELSE k
<1>5. Q = [nfds    |-> top,
           fds     |-> [[k \in Slots |-> P.fds[from(k)]] EXCEPT ![top].fd = NoFd],
           objects |-> [[k \in Slots |-> P.objects[from(k)]] EXCEPT ![top].objtype = "none"]]
  BY <1>4 DEF RemoveTimeout
<1>6. top \in 1 .. PollSize - 1 /\ top \in Slots /\ top \in Int /\ p \in 1 .. top
  BY <1>0, <1>2 DEF Slots
<1>7. \A k \in Slots : from(k) \in Slots
  BY <1>6 DEF Slots
<1>8. \A k \in 1 .. top - 1 : k \in Slots /\ k # top /\ from(k) \in 1 .. n - 1 /\ from(k) # p
  BY <1>6, <1>0 DEF Slots
<1>9. \A l \in 1 .. n - 1 : l # p => \E k \in 1 .. top - 1 : from(k) = l
  <2> SUFFICES ASSUME NEW l \in 1 .. n - 1, l # p PROVE \E k \in 1 .. top - 1 : from(k) = l
    OBVIOUS
  <2>1. CASE l < p
    <3>1. l \in 1 .. top - 1 /\ from(l) = l
      BY <1>6, <2>1
    <3> QED
      BY <3>1
  <2>2. CASE l > p
    <3>1. l - 1 \in 1 .. top - 1 /\ from(l - 1) = l
      BY <1>6, <1>0, <2>2
    <3> QED
      BY <3>1
  <2> QED
    BY <1>6, <2>1, <2>2
<1>10. \A k, l \in 1 .. top - 1 : from(k) = from(l) => k = l
  BY <1>6
<1>11. from(0) = 0 /\ 0 # top
  BY <1>6
<1> HIDE DEF from
<1> DEFINE F == [k \in Slots |-> P.fds[from(k)]]
           O == [k \in Slots |-> P.objects[from(k)]]
<1>12. F \in [Slots -> PollFds] /\ O \in [Slots -> Objects]
  BY <1>1, <1>7
<1>13. /\ Q.nfds = top
       /\ \A k \in Slots \ {top} : Q.fds[k] = P.fds[from(k)] /\ Q.objects[k] = P.objects[from(k)]
  <2>1. Q.nfds = top /\ Q.fds = [F EXCEPT ![top].fd = NoFd]
          /\ Q.objects = [O EXCEPT ![top].objtype = "none"]
    BY <1>5
  <2> QED
    BY <2>1, <1>12
<1>14. Q \in Infos
  <2>1. [F EXCEPT ![top].fd = NoFd] \in [Slots -> PollFds]
    BY <1>6, <1>12 DEF PollFds, Fds
  <2>2. [O EXCEPT ![top].objtype = "none"] \in [Slots -> Objects]
    BY <1>6, <1>12 DEF Objects
  <2>3. top \in 1 .. PollSize
    BY <1>6
  <2> QED
    BY <1>5, <2>1, <2>2, <2>3 DEF Infos
<1> HIDE DEF Q, F, O
<1>15. \A k \in 1 .. top - 1 : Q.fds[k] = P.fds[from(k)] /\ Q.objects[k] = P.objects[from(k)]
  BY <1>8, <1>13
<1>16. Q.fds[0].fd = Pipe /\ Q.objects[0] = NoEntry
  BY <1>11, <1>13 DEF Sound
<1>17. \A k \in 1 .. Q.nfds - 1 :
         \/ Q.objects[k].objtype = "watch" /\ Q.objects[k].obj \in Watches /\ Q.fds[k].fd = Socket
         \/ /\ Q.objects[k].objtype = "timeout" /\ Q.objects[k].obj \in T \ {t}
            /\ Q.fds[k].fd = Q.objects[k].obj
  BY <1>3, <1>8, <1>13, <1>15 DEF Sound
<1>18. \A u \in T \ {t} : \E k \in 1 .. Q.nfds - 1 : Q.objects[k].obj = u
  <2> SUFFICES ASSUME NEW u \in T \ {t} PROVE \E k \in 1 .. Q.nfds - 1 : Q.objects[k].obj = u
    OBVIOUS
  <2>1. PICK l \in 1 .. n - 1 : P.objects[l].obj = u
    BY DEF Sound
  <2>2. l # p
    BY <1>2, <2>1
  <2> QED
    BY <1>9, <1>13, <1>15, <2>1, <2>2
<1>19. \A k, l \in 1 .. Q.nfds - 1 :
         Q.objects[k].obj = Q.objects[l].obj /\ Q.objects[k].obj \in T \ {t} => k = l
  BY <1>8, <1>10, <1>13, <1>15 DEF Sound
<1>20. Sound(Q, T \ {t})
  BY <1>14, <1>16, <1>17, <1>18, <1>19 DEF Sound
<1>21. ASSUME NEW v \in Watches, Serves(P, v) PROVE Serves(Q, v)
  <2>1. PICK l \in 1 .. n - 1 : /\ P.objects[l].objtype = "watch" /\ P.objects[l].obj = v
                                /\ Flags(v) \subseteq P.fds[l].events
    BY <1>21 DEF Serves
  <2>2. l # p
    BY <1>2, <2>1
  <2> QED
    BY <1>9, <1>13, <1>15, <2>1, <2>2 DEF Serves
<1> QED
  BY <1>13, <1>20, <1>21 DEF Q

(* The timeouts that libdbus has added.                                    *)
Pending == {t \in Timeouts : timer[t] # "none"}

(* The types, and of the array and its watches what is true while the loop *)
(* runs.                                                                   *)
LoopTyped ==
  /\ gPollInfo \in Infos
  /\ loopPc \in {"dispatch", "poll", "each", "exit", "ended"} /\ i \in 0 .. PollSize
  /\ enabled \subseteq Watches
  /\ timer \in [Timeouts -> {"none", "armed", "expired"}]
  /\ pipe \in 0 .. MaxPipe /\ incoming \in BOOLEAN
  /\ grown \in Nat /\ refused \subseteq Watches

Registered ==
  /\ Sound(gPollInfo, Pending)
  /\ gPollInfo.nfds = 1 + grown + Cardinality(Pending)
  /\ \A w \in enabled \ refused : Serves(gPollInfo, w)

ArrayInv == LoopTyped /\ IF Alive THEN Registered ELSE Pending = {}

(* Every set of natural numbers that is not empty has a least element.     *)
LEMMA LeastOf ==
  ASSUME NEW S \in SUBSET Nat, S # {}
  PROVE  Min(S) \in S
<1> DEFINE R == OpToRel(<, Nat)
<1>1. \A x, y \in Nat : <<x, y>> \in R <=> x < y
  BY DEF OpToRel
<1>2. IsWellFoundedOn(R, Nat)
  BY NatLessThanWellFounded
<1>3. S \subseteq Nat
  OBVIOUS
<1> HIDE DEF R
<1>4. PICK x \in S : \A y \in S : ~ (<<y, x>> \in R)
  BY <1>2, <1>3, WFMin
<1>5. \A y \in S : ~ (y < x)
  BY <1>1, <1>3, <1>4
<1>6. \E z \in S : \A y \in S : z =< y
  BY <1>3, <1>4, <1>5
<1> QED
  BY <1>6, Zenon DEF Min

(* The loop goes on at a place, or behind the last one.                    *)
LEMMA GoOnPlace ==
  ASSUME NEW P \in Infos, NEW k
  PROVE  Min({j \in Slots : k <= j /\ j < P.nfds /\ P.fds[j].revents # {}} \cup {P.nfds})
           \in 0 .. PollSize
<1> DEFINE S == {j \in Slots : k <= j /\ j < P.nfds /\ P.fds[j].revents # {}} \cup {P.nfds}
<1>1. P.nfds \in 1 .. PollSize
  BY DEF Infos
<1>2. S \subseteq 0 .. PollSize /\ S # {}
  BY <1>1, PollFacts DEF Slots
<1>3. S \in SUBSET Nat
  BY <1>2
<1> HIDE DEF S
<1>4. Min(S) \in S
  BY <1>2, <1>3, LeastOf
<1> QED
  BY <1>2, <1>4 DEF S

(* The timeouts are finitely many.                                         *)
LEMMA PendingFinite ==
  Pending \subseteq Timeouts /\ IsFiniteSet(Pending) /\ Cardinality(Pending) \in Nat
<1>1. Pending \subseteq Timeouts
  BY DEF Pending
<1>2. IsFiniteSet(Pending)
  BY <1>1, PollAssumption, FS_Subset
<1> QED
  BY <1>1, <1>2, FS_CardinalityType

(* A timer that is armed is a timeout more,                                *)
LEMMA PendingGrows ==
  ASSUME timer \in [Timeouts -> {"none", "armed", "expired"}], NEW t \in Timeouts,
         timer[t] = "none", timer' = [timer EXCEPT ![t] = "armed"]
  PROVE  /\ timer' \in [Timeouts -> {"none", "armed", "expired"}]
         /\ t \notin Pending /\ Pending' = Pending \cup {t}
         /\ Cardinality(Pending') = Cardinality(Pending) + 1
<1>1. t \notin Pending /\ Pending' = Pending \cup {t}
  BY DEF Pending
<1> QED
  BY <1>1, PendingFinite, FS_AddElement

(* and one that is closed is a timeout less.                               *)
LEMMA PendingShrinks ==
  ASSUME timer \in [Timeouts -> {"none", "armed", "expired"}], NEW t \in Timeouts,
         timer[t] # "none", timer' = [timer EXCEPT ![t] = "none"]
  PROVE  /\ timer' \in [Timeouts -> {"none", "armed", "expired"}]
         /\ t \in Pending /\ Pending' = Pending \ {t}
         /\ Cardinality(Pending') = Cardinality(Pending) - 1
<1>1. t \in Pending /\ Pending' = Pending \ {t}
  BY DEF Pending
<1> QED
  BY <1>1, PendingFinite, FS_RemoveElement

(* Nothing is pending when all timers are closed.                          *)
LEMMA PendingNone ==
  ASSUME timer = [t \in Timeouts |-> "none"] PROVE Pending = {} /\ Cardinality(Pending) = 0
<1>1. Pending = {}
  BY DEF Pending
<1> QED
  BY <1>1, FS_EmptySet

(* What libdbus does with its watches keeps an array sound, counts the     *)
(* places that it takes, and serves every watch that it did not refuse.    *)
LEMMA ToggleSound ==
  ASSUME NEW T \in SUBSET Timeouts, NEW P, Sound(P, T), NEW c \in Nat,
         enabled \subseteq Watches, refused \subseteq Watches, grown \in Nat,
         P.nfds = 1 + grown + c, \A w \in enabled \ refused : Serves(P, w),
         Toggle(P)
  PROVE  /\ Sound(gPollInfo', T) /\ gPollInfo'.nfds = 1 + grown' + c
         /\ \A w \in enabled' \ refused' : Serves(gPollInfo', w)
         /\ enabled' \subseteq Watches /\ refused' \subseteq Watches /\ grown' \in Nat
<1>1. CASE gPollInfo' = P /\ UNCHANGED <<enabled, hist>>
  BY <1>1 DEF hist
<1>2. CASE \E w \in enabled : gPollInfo' = P /\ enabled' = enabled \ {w} /\ UNCHANGED hist
  BY <1>2 DEF hist
<1>3. ASSUME NEW w \in Watches \ enabled,
             gPollInfo' = AddWatch(P, w, TRUE), enabled' = enabled \cup {w},
             grown' = grown + (IF P.nfds < PollSize THEN 1 ELSE 0),
             refused' = IF P.nfds < PollSize THEN refused ELSE refused \cup {w}
      PROVE  /\ Sound(gPollInfo', T) /\ gPollInfo'.nfds = 1 + grown' + c
             /\ \A v \in enabled' \ refused' : Serves(gPollInfo', v)
             /\ enabled' \subseteq Watches /\ refused' \subseteq Watches /\ grown' \in Nat
  <2> DEFINE Q == AddWatch(P, w, TRUE)
  <2>1. /\ Sound(Q, T)
        /\ \A v \in Watches : Serves(P, v) => Serves(Q, v)
        /\ P.nfds < PollSize => Serves(Q, w)
        /\ Q.nfds = P.nfds + (IF P.nfds < PollSize THEN 1 ELSE 0)
    BY AddWatchSound
  <2> HIDE DEF Q
  <2>2. gPollInfo' = Q
    BY <1>3 DEF Q
  <2>3. ASSUME NEW v \in enabled' \ refused' PROVE Serves(Q, v)
    <3>1. CASE v = w
      BY <1>3, <2>1, <3>1
    <3>2. CASE v # w
      <4>1. v \in enabled \ refused
        BY <1>3, <3>2
      <4> QED
        BY <2>1, <4>1
    <3> QED
      BY <3>1, <3>2
  <2>4. gPollInfo'.nfds = 1 + grown' + c /\ grown' \in Nat
    <3>1. P.nfds < PollSize => Q.nfds = P.nfds + 1 /\ grown' = grown + 1
      BY <1>3, <2>1
    <3>2. ~ (P.nfds < PollSize) => Q.nfds = P.nfds + 0 /\ grown' = grown + 0
      BY <1>3, <2>1
    <3> QED
      BY <2>2, <3>1, <3>2
  <2>5. enabled' \subseteq Watches /\ refused' \subseteq Watches
    BY <1>3
  <2> QED
    BY <2>1, <2>2, <2>3, <2>4, <2>5
<1> QED
  BY <1>1, <1>2, <1>3 DEF Toggle

(* setup_dbus_mainloop makes a sound array that serves the reader.         *)
LEMMA StartSound == Sound(StartInfo, {}) /\ StartInfo.nfds = 2 /\ Serves(StartInfo, Reader)
<1> USE PollFacts
<1> DEFINE zero == [nfds    |-> 1,
               fds     |-> [k \in Slots |-> IF k = 0
                                            THEN [fd |-> Pipe, events |-> {"in"}, revents |-> {}]
                                            ELSE NoPoll],
               objects |-> [k \in Slots |-> NoEntry]]
<1>1. zero \in Infos
  <2>1. [fd |-> Pipe, events |-> {"in"}, revents |-> {}] \in PollFds /\ NoPoll \in PollFds
    BY DEF PollFds, NoPoll, Fds
  <2>2. NoEntry \in Objects
    BY DEF NoEntry, Objects
  <2> QED
    BY <2>1, <2>2 DEF Infos
<1>2. Sound(zero, {}) /\ zero.nfds = 1
  BY <1>1 DEF Sound
<1> DEFINE one == AddWatch(zero, Reader, TRUE)
           two == AddWatch(one, Writer, FALSE)
<1>3. StartInfo = two
  BY DEF StartInfo
<1>4. Reader \in Watches /\ Writer \in Watches /\ {} \in SUBSET Timeouts
  BY DEF Watches
<1> HIDE DEF zero
<1>5. Sound(one, {}) /\ one.nfds = 2 /\ Serves(one, Reader)
  <2>1. /\ Sound(one, {})
        /\ zero.nfds < PollSize => Serves(one, Reader)
        /\ one.nfds = zero.nfds + (IF zero.nfds < PollSize THEN 1 ELSE 0)
    BY <1>2, <1>4, AddWatchSound
  <2>2. zero.nfds < PollSize
    BY <1>2
  <2>3. one.nfds = zero.nfds + 1
    BY <2>1, <2>2, Zenon
  <2> HIDE DEF one
  <2>4. one.nfds = 2
    BY <1>2, <2>3
  <2> QED
    BY <2>1, <2>2, <2>4, Zenon
<1> HIDE DEF one
<1>6. Sound(two, {}) /\ two.nfds = 2 /\ Serves(two, Reader)
  <2>1. /\ Sound(two, {})
        /\ \A v \in Watches : Serves(one, v) => Serves(two, v)
        /\ two.nfds = one.nfds + (IF FALSE /\ one.nfds < PollSize THEN 1 ELSE 0)
    BY <1>4, <1>5, AddWatchSound
  <2>2. two.nfds = one.nfds + 0
    BY <2>1, Zenon
  <2> HIDE DEF two
  <2>3. two.nfds = 2
    BY <1>5, <2>2
  <2> QED
    BY <1>4, <1>5, <2>1, <2>3, Zenon
<1> QED
  BY <1>3, <1>6, Zenon

(* The same, when P is what the callbacks for timeouts have left.          *)
LEMMA Toggled ==
  ASSUME LoopTyped, NEW P, Sound(P, Pending'), P.nfds = 1 + grown + Cardinality(Pending'),
         \A w \in enabled \ refused : Serves(P, w), Toggle(P)
  PROVE  /\ Registered' /\ gPollInfo' \in Infos
         /\ enabled' \subseteq Watches /\ refused' \subseteq Watches /\ grown' \in Nat
<1> DEFINE T == Pending'
           c == Cardinality(T)
<1>1. T \in SUBSET Timeouts
  BY DEF Pending
<1>2. IsFiniteSet(T)
  BY <1>1, PollAssumption, FS_Subset
<1>3. c \in Nat
  BY <1>2, FS_CardinalityType
<1> HIDE DEF T, c
<1>4. Sound(P, T) /\ P.nfds = 1 + grown + c
  BY DEF T, c
<1>5. enabled \subseteq Watches /\ refused \subseteq Watches /\ grown \in Nat
  BY DEF LoopTyped
<1>6. /\ Sound(gPollInfo', T) /\ gPollInfo'.nfds = 1 + grown' + c
      /\ \A w \in enabled' \ refused' : Serves(gPollInfo', w)
      /\ enabled' \subseteq Watches /\ refused' \subseteq Watches /\ grown' \in Nat
  BY <1>1, <1>3, <1>4, <1>5, ToggleSound
<1>7. gPollInfo' \in Infos
  BY <1>6 DEF Sound
<1> QED
  BY <1>6, <1>7 DEF Registered, T, c, Sound, Serves

(* The initial array is the one that setup_dbus_mainloop makes.            *)
LEMMA ArrayInit == PollInit => ArrayInv
<1> SUFFICES ASSUME PollInit PROVE ArrayInv
  OBVIOUS
<1>1. Pending = {} /\ Cardinality(Pending) = 0
  BY PendingNone DEF PollInit
<1>2. gPollInfo \in Infos
  BY StartSound DEF PollInit, Sound
<1>3. LoopTyped
  <2>1. incoming \in BOOLEAN
    BY Zenon DEF PollInit
  <2>2. i \in 0 .. PollSize /\ pipe \in 0 .. MaxPipe /\ grown \in Nat
    BY PollFacts DEF PollInit
  <2>3. /\ loopPc \in {"dispatch", "poll", "each", "exit", "ended"}
        /\ enabled \subseteq Watches /\ refused \subseteq Watches
    BY DEF PollInit, Watches
  <2>4. timer \in [Timeouts -> {"none", "armed", "expired"}]
    BY DEF PollInit
  <2> QED
    BY <1>2, <2>1, <2>2, <2>3, <2>4, Zenon DEF LoopTyped
<1>4. Registered
  <2>1. gPollInfo = StartInfo /\ enabled = {Reader} /\ grown = 1
    BY DEF PollInit
  <2>2. gPollInfo.nfds = 1 + grown + Cardinality(Pending)
    BY <1>1, <2>1, StartSound
  <2> QED
    BY <1>1, <2>1, <2>2, StartSound DEF Registered
<1> QED
  BY <1>3, <1>4 DEF ArrayInv, Alive, PollInit

(* Every step of the loop, of libdbus and of what is outside preserves the *)
(* invariant.                                                              *)
LEMMA ArrayStep == ArrayInv /\ [PollNext]_pollVars => ArrayInv'
<1> SUFFICES ASSUME ArrayInv, [PollNext]_pollVars PROVE ArrayInv'
  OBVIOUS
<1> USE PollFacts
<1>t. LoopTyped
  BY DEF ArrayInv
<1>a. Alive => Registered
  BY DEF ArrayInv
<1>b. ~ Alive => Pending = {}
  BY DEF ArrayInv
<1>g. ASSUME NEW k, gPollInfo' \in Infos, GoOn(gPollInfo', k) PROVE i' \in 0 .. PollSize
  BY <1>g, GoOnPlace DEF GoOn
<1>s. ASSUME timer' = timer PROVE Pending' = Pending
  BY <1>s DEF Pending
<1>k. ASSUME UNCHANGED <<gPollInfo, timer, enabled, grown, refused>>, Alive PROVE Registered'
  <2>1. Pending' = Pending
    BY <1>k, <1>s
  <2> QED
    BY <1>k, <1>a, <2>1 DEF Registered, Sound, Serves
<1>n. ASSUME timer' = timer, Alive, Toggle(gPollInfo)
      PROVE  /\ Registered' /\ gPollInfo' \in Infos
             /\ enabled' \subseteq Watches /\ refused' \subseteq Watches /\ grown' \in Nat
  <2>1. Pending' = Pending
    BY <1>n, <1>s
  <2>2. /\ Sound(gPollInfo, Pending') /\ gPollInfo.nfds = 1 + grown + Cardinality(Pending')
        /\ \A w \in enabled \ refused : Serves(gPollInfo, w)
    BY <1>a, <1>n, <2>1 DEF Registered
  <2> QED
    BY <1>n, <1>t, <2>2, Toggled
<1>1. CASE Dispatch
  <2>1. Alive /\ Alive' /\ timer' = timer /\ Toggle(gPollInfo)
    BY <1>1 DEF Dispatch, Alive
  <2>2. /\ Registered' /\ gPollInfo' \in Infos
        /\ enabled' \subseteq Watches /\ refused' \subseteq Watches /\ grown' \in Nat
    BY <1>n, <2>1
  <2>3. LoopTyped'
    BY <1>1, <1>t, <2>2 DEF Dispatch, LoopTyped
  <2> QED
    BY <2>1, <2>2, <2>3 DEF ArrayInv
<1>2. CASE Poll
  <2> DEFINE P == gPollInfo
             Q == gPollInfo'
  <2>1. Alive /\ Alive' /\ timer' = timer /\ UNCHANGED <<enabled, hist, pipe, incoming>>
    BY <1>2 DEF Poll, Alive, libdbus
  <2>2. P \in Infos /\ P.fds \in [Slots -> PollFds] /\ P.objects \in [Slots -> Objects]
          /\ P.nfds \in 1 .. PollSize
    BY <1>t DEF LoopTyped, Infos
  <2>3. /\ Q.nfds = P.nfds /\ Q.objects = P.objects
        /\ Q.fds = [k \in Slots |-> IF k \in Polled
                                       THEN [P.fds[k] EXCEPT !.revents = Ready(P.fds[k])]
                                       ELSE P.fds[k]]
        /\ Q = [nfds |-> Q.nfds, fds |-> Q.fds, objects |-> Q.objects]
    BY <1>2, <2>2 DEF Poll, Infos
  <2>4. \A k \in Slots : P.fds[k] \in PollFds /\ Ready(P.fds[k]) \subseteq P.fds[k].events
    BY <2>2 DEF Ready
  <2>5. ASSUME NEW k \in Slots
        PROVE  /\ Q.fds[k] \in PollFds
               /\ Q.fds[k].fd = P.fds[k].fd /\ Q.fds[k].events = P.fds[k].events
    <3> DEFINE p == P.fds[k]
               r == Ready(P.fds[k])
    <3>1. p \in PollFds /\ r \in SUBSET p.events
      BY <2>4
    <3>2. Q.fds[k] = IF k \in Polled THEN [p EXCEPT !.revents = r] ELSE p
      BY <2>3
    <3> HIDE DEF p, r
    <3>3. /\ [p EXCEPT !.revents = r] \in PollFds
          /\ [p EXCEPT !.revents = r].fd = p.fd /\ [p EXCEPT !.revents = r].events = p.events
      BY <3>1 DEF PollFds
    <3>4. /\ Q.fds[k] \in PollFds /\ Q.fds[k].fd = p.fd /\ Q.fds[k].events = p.events
      BY <3>1, <3>2, <3>3
    <3> QED
      BY <3>4 DEF p
  <2>6. Q.fds \in [Slots -> PollFds]
    BY <2>3, <2>5
  <2>7. Q \in Infos
    BY <2>2, <2>3, <2>6 DEF Infos
  <2>8. \A k \in 1 .. P.nfds - 1 : k \in Slots
    BY <2>2 DEF Slots
  <2>9. Sound(Q, Pending)
    <3>1. Sound(P, Pending)
      BY <1>a, <2>1 DEF Registered
    <3> HIDE DEF P, Q
    <3> QED
      BY <3>1, <2>3, <2>5, <2>7, <2>8 DEF Sound
  <2>10. \A w \in Watches : Serves(P, w) => Serves(Q, w)
    <3> HIDE DEF P, Q
    <3> QED
      BY <2>3, <2>5, <2>8 DEF Serves
  <2>11. Pending' = Pending
    BY <1>s, <2>1
  <2>12. Registered'
    <3>1. gPollInfo'.nfds = 1 + grown' + Cardinality(Pending')
      BY <1>a, <2>1, <2>3, <2>11 DEF Registered, hist
    <3>2. \A w \in enabled' \ refused' : Serves(gPollInfo', w)
      BY <1>a, <1>t, <2>1, <2>10 DEF Registered, hist, LoopTyped
    <3>3. Sound(gPollInfo', Pending')
      BY <2>9, <2>11
    <3> QED
      BY <3>1, <3>2, <3>3 DEF Registered, Sound, Serves
  <2>13. i' \in 0 .. PollSize
    BY <1>2, <1>g, <2>7 DEF Poll
  <2>14. LoopTyped'
    BY <1>2, <1>t, <2>1, <2>7, <2>13 DEF Poll, LoopTyped, hist
  <2> QED
    BY <2>1, <2>12, <2>14 DEF ArrayInv
<1>3. CASE RoundEnds
  <2>1. Alive /\ Alive' /\ UNCHANGED <<gPollInfo, timer, enabled, grown, refused>>
    BY <1>3 DEF RoundEnds, Alive, libdbus, hist
  <2>2. LoopTyped'
    BY <1>3, <1>t, <2>1 DEF RoundEnds, LoopTyped
  <2> QED
    BY <1>k, <2>1, <2>2 DEF ArrayInv
<1>4. CASE HandleTimeout
  <2> DEFINE t == gPollInfo.objects[i].obj
  <2>1. /\ loopPc = "each" /\ loopPc' = "each" /\ i \in Polled
        /\ gPollInfo.objects[i].objtype = "timeout"
        /\ gPollInfo' = RemoveTimeout(gPollInfo, t) /\ timer' = [timer EXCEPT ![t] = "none"]
        /\ UNCHANGED <<enabled, pipe, incoming, hist>> /\ GoOn(gPollInfo', i + 1)
    BY <1>4 DEF HandleTimeout, Here, NextEntry
  <2>2. Alive /\ Alive'
    BY <2>1 DEF Alive
  <2>3. Registered
    BY <1>a, <2>2
  <2>4. t \in Pending
    <3>1. i \in 1 .. gPollInfo.nfds - 1
      <4>1. i # 0
        BY <2>1, <2>3 DEF Registered, Sound, NoEntry
      <4>2. gPollInfo.nfds \in 1 .. PollSize
        BY <1>t DEF LoopTyped, Infos
      <4> QED
        BY <2>1, <4>1, <4>2 DEF Polled
    <3> QED
      BY <2>1, <2>3, <3>1 DEF Registered, Sound
  <2>5. t \in Timeouts /\ timer[t] # "none"
    BY <2>4 DEF Pending
  <2> HIDE DEF t
  <2>6. /\ timer' \in [Timeouts -> {"none", "armed", "expired"}] /\ Pending' = Pending \ {t}
        /\ Cardinality(Pending') = Cardinality(Pending) - 1
    BY <1>t, <2>1, <2>5, PendingShrinks DEF LoopTyped
  <2>7. /\ Sound(gPollInfo', Pending') /\ gPollInfo'.nfds = gPollInfo.nfds - 1
        /\ \A w \in Watches : Serves(gPollInfo, w) => Serves(gPollInfo', w)
    <3>1. Pending \in SUBSET Timeouts /\ Sound(gPollInfo, Pending)
      BY <2>3 DEF Registered, Pending
    <3> QED
      BY <2>1, <2>4, <2>6, <3>1, RemoveTimeoutSound
  <2>8. Registered'
    <3>1. gPollInfo'.nfds = 1 + grown' + Cardinality(Pending')
      BY <1>t, <2>1, <2>3, <2>6, <2>7, PendingFinite DEF Registered, hist, LoopTyped
    <3>2. \A w \in enabled' \ refused' : Serves(gPollInfo', w)
      BY <1>t, <2>1, <2>3, <2>7 DEF Registered, hist, LoopTyped
    <3> QED
      BY <2>7, <3>1, <3>2 DEF Registered, Sound, Serves
  <2>9. gPollInfo' \in Infos
    BY <2>7 DEF Sound
  <2>10. i' \in 0 .. PollSize
    BY <1>g, <2>1, <2>9
  <2>11. LoopTyped'
    BY <1>t, <2>1, <2>6, <2>9, <2>10 DEF LoopTyped, hist
  <2> QED
    BY <2>2, <2>8, <2>11 DEF ArrayInv
<1>5. CASE HandlePipe
  <2>1. /\ loopPc = "each" /\ pipe' \in 0 .. MaxPipe /\ incoming' = incoming
    BY <1>5, <1>t DEF HandlePipe, Here, LoopTyped
  <2>2. Alive /\ Registered
    BY <1>a, <2>1 DEF Alive
  <2>3. ASSUME Toggle(gPollInfo), timer' = timer, NextEntry PROVE ArrayInv'
    <3>1. /\ Registered' /\ gPollInfo' \in Infos
          /\ enabled' \subseteq Watches /\ refused' \subseteq Watches /\ grown' \in Nat
      BY <1>n, <2>2, <2>3
    <3>2. i' \in 0 .. PollSize /\ loopPc' = "each"
      BY <1>g, <2>1, <2>3, <3>1 DEF NextEntry
    <3>3. LoopTyped'
      BY <1>t, <2>1, <2>3, <3>1, <3>2 DEF LoopTyped
    <3> QED
      BY <3>1, <3>2, <3>3 DEF ArrayInv, Alive
  <2>4. ASSUME gPollInfo.nfds < PollSize, NEW t \in Timeouts, timer[t] = "none",
               timer' = [timer EXCEPT ![t] = "armed"], Toggle(AddTimeout(gPollInfo, t)), NextEntry
        PROVE  ArrayInv'
    <3> DEFINE P == AddTimeout(gPollInfo, t)
    <3>1. /\ timer' \in [Timeouts -> {"none", "armed", "expired"}]
          /\ t \notin Pending /\ Pending' = Pending \cup {t}
          /\ Cardinality(Pending') = Cardinality(Pending) + 1
      BY <1>t, <2>4, PendingGrows DEF LoopTyped
    <3>2. /\ Sound(P, Pending') /\ P.nfds = gPollInfo.nfds + 1
          /\ \A w \in Watches : Serves(gPollInfo, w) => Serves(P, w)
      <4>1. Pending \in SUBSET Timeouts /\ Sound(gPollInfo, Pending) /\ t \in Timeouts \ Pending
        BY <2>2, <3>1 DEF Registered, Pending
      <4> QED
        BY <2>4, <3>1, <4>1, AddTimeoutSound
    <3> HIDE DEF P
    <3>3. P.nfds = 1 + grown + Cardinality(Pending')
      BY <1>t, <2>2, <3>1, <3>2, PendingFinite DEF Registered, LoopTyped
    <3>4. \A w \in enabled \ refused : Serves(P, w)
      BY <1>t, <2>2, <3>2 DEF Registered, LoopTyped
    <3>5. /\ Registered' /\ gPollInfo' \in Infos
          /\ enabled' \subseteq Watches /\ refused' \subseteq Watches /\ grown' \in Nat
      <4>1. Toggle(P)
        BY <2>4 DEF P
      <4> QED
        BY <1>t, <3>2, <3>3, <3>4, <4>1, Toggled
    <3>6. i' \in 0 .. PollSize /\ loopPc' = "each"
      BY <1>g, <2>1, <2>4, <3>5 DEF NextEntry
    <3>7. LoopTyped'
      BY <1>t, <2>1, <3>1, <3>5, <3>6 DEF LoopTyped
    <3> QED
      BY <3>5, <3>6, <3>7 DEF ArrayInv, Alive
  <2>5. ASSUME loopPc' = "exit", UNCHANGED <<gPollInfo, i, libdbus, hist>> PROVE ArrayInv'
    <3>1. Registered'
      BY <1>k, <2>2, <2>5 DEF libdbus, hist
    <3>2. LoopTyped'
      BY <1>t, <2>1, <2>5 DEF LoopTyped, libdbus, hist
    <3> QED
      BY <2>5, <3>1, <3>2 DEF ArrayInv, Alive
  <2> QED
    BY <1>5, <2>3, <2>4, <2>5 DEF HandlePipe, CallWithReply
<1>6. CASE HandleWatch
  <2>1. loopPc = "each" /\ pipe' = pipe /\ incoming' \in BOOLEAN /\ NextEntry
    BY <1>6, <1>t DEF HandleWatch, Here, LoopTyped
  <2>2. Alive /\ Registered
    BY <1>a, <2>1 DEF Alive
  <2>3. ASSUME Toggle(gPollInfo), timer' = timer PROVE ArrayInv'
    <3>1. /\ Registered' /\ gPollInfo' \in Infos
          /\ enabled' \subseteq Watches /\ refused' \subseteq Watches /\ grown' \in Nat
      BY <1>n, <2>2, <2>3
    <3>2. i' \in 0 .. PollSize /\ loopPc' = "each"
      BY <1>g, <2>1, <3>1 DEF NextEntry
    <3>3. LoopTyped'
      BY <1>t, <2>1, <2>3, <3>1, <3>2 DEF LoopTyped
    <3> QED
      BY <3>1, <3>2, <3>3 DEF ArrayInv, Alive
  <2>4. ASSUME NEW t \in Timeouts, timer[t] # "none", timer' = [timer EXCEPT ![t] = "none"],
               Toggle(RemoveTimeout(gPollInfo, t))
        PROVE  ArrayInv'
    <3> DEFINE P == RemoveTimeout(gPollInfo, t)
    <3>1. /\ timer' \in [Timeouts -> {"none", "armed", "expired"}]
          /\ t \in Pending /\ Pending' = Pending \ {t}
          /\ Cardinality(Pending') = Cardinality(Pending) - 1
      BY <1>t, <2>4, PendingShrinks DEF LoopTyped
    <3>2. /\ Sound(P, Pending') /\ P.nfds = gPollInfo.nfds - 1
          /\ \A w \in Watches : Serves(gPollInfo, w) => Serves(P, w)
      <4>1. Pending \in SUBSET Timeouts /\ Sound(gPollInfo, Pending)
        BY <2>2 DEF Registered, Pending
      <4> QED
        BY <3>1, <4>1, RemoveTimeoutSound
    <3> HIDE DEF P
    <3>3. P.nfds = 1 + grown + Cardinality(Pending')
      BY <1>t, <2>2, <3>1, <3>2, PendingFinite DEF Registered, LoopTyped
    <3>4. \A w \in enabled \ refused : Serves(P, w)
      BY <1>t, <2>2, <3>2 DEF Registered, LoopTyped
    <3>5. /\ Registered' /\ gPollInfo' \in Infos
          /\ enabled' \subseteq Watches /\ refused' \subseteq Watches /\ grown' \in Nat
      <4>1. Toggle(P)
        BY <2>4 DEF P
      <4> QED
        BY <1>t, <3>2, <3>3, <3>4, <4>1, Toggled
    <3>6. i' \in 0 .. PollSize /\ loopPc' = "each"
      BY <1>g, <2>1, <3>5 DEF NextEntry
    <3>7. LoopTyped'
      BY <1>t, <2>1, <3>1, <3>5, <3>6 DEF LoopTyped
    <3> QED
      BY <3>5, <3>6, <3>7 DEF ArrayInv, Alive
  <2> QED
    BY <1>6, <2>3, <2>4 DEF HandleWatch
<1>7. CASE Exit
  <2>1. Pending' = {}
    BY <1>7 DEF Exit, Pending
  <2>2. incoming' \in BOOLEAN
    BY <1>7, Zenon DEF Exit
  <2>3. pipe' \in 0 .. MaxPipe
    BY <1>7 DEF Exit
  <2>4. timer' \in [Timeouts -> {"none", "armed", "expired"}]
    BY <1>7 DEF Exit
  <2>5. LoopTyped'
    BY <1>7, <1>t, <2>2, <2>3, <2>4 DEF Exit, LoopTyped, hist
  <2> QED
    BY <1>7, <2>1, <2>5 DEF ArrayInv, Alive, Exit
<1>8. CASE Setup
  <2>1. Pending' = {} /\ Cardinality(Pending') = 0
    BY <1>8, <1>b, <1>s, FS_EmptySet DEF Setup, Alive
  <2>2. gPollInfo' = StartInfo /\ enabled' = {Reader} /\ grown' = 1 /\ refused' = {}
    BY <1>8 DEF Setup
  <2>3. Registered'
    <3>1. gPollInfo'.nfds = 1 + grown' + Cardinality(Pending')
      BY <2>1, <2>2, StartSound
    <3>2. Sound(gPollInfo', Pending') /\ \A w \in enabled' \ refused' : Serves(gPollInfo', w)
      BY <2>1, <2>2, StartSound
    <3> QED
      BY <3>1, <3>2 DEF Registered, Sound, Serves
  <2>4. gPollInfo' \in Infos
    BY <2>2, StartSound DEF Sound
  <2>5. LoopTyped'
    BY <1>8, <1>t, <2>2, <2>4 DEF Setup, LoopTyped, Watches
  <2> QED
    BY <1>8, <2>3, <2>5 DEF ArrayInv, Alive, Setup
<1>9. CASE Post \/ Arrive
  <2>1. Alive /\ Alive' /\ UNCHANGED <<gPollInfo, timer, enabled, grown, refused>>
    BY <1>9 DEF Post, Arrive, Alive, libdbus, hist
  <2>2. loopPc' = loopPc /\ i' = i /\ pipe' \in 0 .. MaxPipe
    BY <1>9, <1>t DEF Post, Arrive, LoopTyped
  <2>3. incoming' \in BOOLEAN
    BY <1>9, <1>t, Zenon DEF Post, Arrive, LoopTyped
  <2>4. LoopTyped'
    BY <1>t, <2>1, <2>2, <2>3 DEF LoopTyped
  <2> QED
    BY <1>k, <2>1, <2>4 DEF ArrayInv
<1>10. ASSUME NEW t \in Timeouts, Expire(t) PROVE ArrayInv'
  <2>1. Pending' = Pending /\ t \in Pending
    BY <1>10, <1>t DEF Expire, Pending, LoopTyped
  <2>2. Alive /\ Alive'
    BY <1>10, <1>b, <2>1 DEF Expire, Alive
  <2>3. Registered'
    BY <1>10, <1>a, <2>1, <2>2 DEF Expire, Registered, Sound, Serves, hist
  <2>4. LoopTyped'
    BY <1>10, <1>t DEF Expire, LoopTyped, hist
  <2> QED
    BY <2>2, <2>3, <2>4 DEF ArrayInv
<1>11. CASE UNCHANGED pollVars
  <2>1. UNCHANGED <<gPollInfo, timer, enabled, grown, refused, loopPc, i, pipe, incoming>>
    BY <1>11 DEF pollVars, libdbus, hist
  <2>2. LoopTyped' /\ Alive' = Alive /\ Pending' = Pending
    BY <1>t, <2>1, <1>s DEF LoopTyped, Alive
  <2> QED
    BY <1>b, <1>k, <2>1, <2>2 DEF ArrayInv
<1> QED
  BY <1>1, <1>2, <1>3, <1>4, <1>5, <1>6, <1>7, <1>8, <1>9, <1>10, <1>11 DEF PollNext, Loop

(* Whatever the callbacks move while mainLoop iterates, the array is what  *)
(* libdbus takes it for: proved for every size of the array, every set of  *)
(* timeouts and every number of commands.                                  *)
THEOREM ArrayCorrect == PollSpec => []ArrayIsSound
<1>1. ArrayInv => ArrayIsSound
  <2> SUFFICES ASSUME ArrayInv PROVE ArrayIsSound
    OBVIOUS
  <2> USE PollFacts
  <2>1. LoopTyped /\ (Alive => Registered)
    BY DEF ArrayInv
  <2>2. PollTypeOK
    BY <2>1 DEF LoopTyped, PollTypeOK, Infos, PollFds, Objects
  <2>3. gPollInfo.nfds \in 1 .. PollSize
    BY <2>1 DEF LoopTyped, Infos
  <2>4. Polled \ {0} = 1 .. gPollInfo.nfds - 1 /\ 0 \in Polled
    BY <2>3 DEF Polled
  <2>5. ASSUME Alive, NEW t \in Timeouts
        PROVE  Cardinality(Places(t)) = IF timer[t] = "none" THEN 0 ELSE 1
    <3>1. Sound(gPollInfo, Pending) /\ t # NULL
      BY <2>1, <2>5 DEF Registered
    <3>2. gPollInfo.objects[0].obj # t
      BY <3>1 DEF Sound, NoEntry
    <3>3. CASE timer[t] = "none"
      <4>1. t \notin Pending /\ t \notin Watches
        BY <3>3 DEF Pending
      <4>2. Places(t) = {}
        BY <2>4, <3>1, <3>2, <4>1 DEF Places, Sound
      <4> QED
        BY <3>3, <4>2, FS_EmptySet
    <3>4. CASE timer[t] # "none"
      <4>1. t \in Pending
        BY <3>4 DEF Pending
      <4>2. PICK k \in 1 .. gPollInfo.nfds - 1 : gPollInfo.objects[k].obj = t
        BY <3>1, <4>1 DEF Sound
      <4>3. Places(t) = {k}
        BY <2>4, <3>1, <3>2, <4>1, <4>2 DEF Places, Sound
      <4> QED
        BY <3>4, <4>3, FS_Singleton
    <3> QED
      BY <3>3, <3>4
  <2>6. EntriesMatch
    <3> SUFFICES ASSUME Alive PROVE EntriesMatch
      BY DEF EntriesMatch
    <3>1. Registered
      BY <2>1
    <3>2. gPollInfo.fds[0].fd = Pipe /\ gPollInfo.objects[0].obj = NULL
      BY <3>1 DEF Registered, Sound, NoEntry
    <3>3. \A k \in Polled \ {0} :
            gPollInfo.fds[k].fd = IF gPollInfo.objects[k].objtype = "timeout"
                                    THEN gPollInfo.objects[k].obj ELSE Socket
      BY <2>4, <3>1 DEF Registered, Sound
    <3>4. gPollInfo.nfds = 1 + grown + Cardinality({t \in Timeouts : timer[t] # "none"})
      BY <3>1 DEF Registered, Pending
    <3> QED
      BY <2>5, <3>2, <3>3, <3>4 DEF EntriesMatch
  <2>7. EnabledIsPolled
    BY <2>1, <2>4 DEF EnabledIsPolled, Registered, Serves, Places
  <2> QED
    BY <2>2, <2>6, <2>7 DEF ArrayIsSound
<1> QED
  BY <1>1, ArrayInit, ArrayStep, PTL DEF PollSpec
=============================================================================

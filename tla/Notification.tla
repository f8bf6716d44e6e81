---------------------------- MODULE Notification ----------------------------
(***************************************************************************)
(* Change notifications: pclKeyRegisterNotifyOnChange and its relatives of *)
(* persistence_client_library_key.c, persistence_notify_on_change of       *)
(* persistence_client_library_db_access.c, the match rules of              *)
(* process_reg_notification_signal in persistence_client_library_dbus_cmd.c*)
(* and the signal handler of persistence_client_library_dbus_service.c.    *)
(*                                                                         *)
(* A registration is looked at in three steps: the check of the callback,  *)
(* the update of gNotificationTree and gChangeNotifyCallback, and the      *)
(* command that the main loop thread executes while the caller waits.  The *)
(* key API and the handle API each have a mutex of their own.              *)
(*                                                                         *)
(* Abstractions.  A resource is a ldbid, a name, a user and a seat; of its *)
(* dbKey only the hash matters.  The bus delivers to the loop every signal *)
(* of a resource that has a match rule, in order.  The change itself is in *)
(* module KeyValue, the handshake with the loop in module MainLoop.  Calls *)
(* that are refused (not initialised, another callback, a local resource)  *)
(* change nothing.                                                         *)
(***************************************************************************)
EXTENDS Integers, Sequences

CONSTANTS
  Apis,           \* the key API, the handle API
  Resources, Callbacks, NoCallback,
  Hash,           \* resource -> pclCrc32 of its dbKey
  Again,          \* the application may register a registered resource
  MaxRules,       \* bound on the match rules of one resource
  MaxSignals      \* bound on the signals waiting on the bus

ASSUME CallbackAssumption == NoCallback \notin Callbacks
ASSUME HashAssumption     == Hash \in [Resources -> Nat]
ASSUME ModeAssumption     == Again \in BOOLEAN
ASSUME BoundAssumption    == MaxRules \in Nat \ {0} /\ MaxSignals \in Nat \ {0}

VARIABLES
  initialized,      \* gPclInitCounter > 0
  tree,             \* hashes in gNotificationTree
  dangling,         \* those whose item has been freed
  gChangeNotifyCallback,
  rules,            \* match rules of each resource at the bus
  signals,          \* resources whose signal waits for the loop
  mainPc, loaded,   \* the signal handler, the callback it has seen
  pc, call,         \* the call of each API
  registered,       \* history: what the application is registered for
  last              \* history: the last callback made

reg  == <<tree, dangling, gChangeNotifyCallback>>
bus  == <<rules, signals>>
loop == <<mainPc, loaded, last>>
vars == <<initialized, reg, bus, loop, pc, call, registered>>

AnyCallback == Callbacks \cup {NoCallback}
Requests    == [op : {"register", "unregister"}, res : Resources, callback : Callbacks]
NoRequest   == [op |-> "none"]
Hashes      == {Hash[r] : r \in Resources}

TypeOK ==
  /\ initialized \in BOOLEAN
  /\ tree \subseteq Hashes /\ dangling \subseteq Hashes
  /\ gChangeNotifyCallback \in AnyCallback
  /\ rules \in [Resources -> 0 .. MaxRules]
  /\ signals \in Seq(Resources) /\ Len(signals) <= MaxSignals
  /\ mainPc \in {"poll", "call", "crashed"}
  /\ loaded \in AnyCallback
  /\ pc \in [Apis -> {"idle", "update", "deliver"}]
  /\ call \in [Apis -> Requests \cup {NoRequest}]
  /\ registered \in [Resources -> AnyCallback]
  /\ last \in (Resources \X Callbacks) \cup {<<>>}

Init ==
  /\ initialized = TRUE
  /\ tree = {} /\ dangling = {} /\ gChangeNotifyCallback = NoCallback
  /\ rules = [r \in Resources |-> 0] /\ signals = <<>>
  /\ mainPc = "poll" /\ loaded = NoCallback
  /\ pc = [a \in Apis |-> "idle"] /\ call = [a \in Apis |-> NoRequest]
  /\ registered = [r \in Resources |-> NoCallback]
  /\ last = <<>>

-----------------------------------------------------------------------------
(* Registration                                                            *)

Enter(a, op, r, c) ==
  /\ initialized /\ pc[a] = "idle"
  /\ pc' = [pc EXCEPT ![a] = "update"]
  /\ call' = [call EXCEPT ![a] = [op |-> op, res |-> r, callback |-> c]]
  /\ UNCHANGED <<initialized, reg, bus, loop>>

(* pclKeyRegisterNotifyOnChange, pclKeyHandleRegisterNotifyOnChange: only  *)
(* the callback that is set already, or any if there is none.              *)
Register(a, r, c) ==
  /\ Again \/ registered[r] = NoCallback
  /\ gChangeNotifyCallback \in {c, NoCallback}
  /\ Enter(a, "register", r, c)
  /\ UNCHANGED registered

(* The callback a caller passes to unregister is not looked at.            *)
Unregister(a, r, c) ==
  /\ Enter(a, "unregister", r, c)
  /\ registered' = [registered EXCEPT ![r] = NoCallback]

(* jsw_rbfind.  A search that meets a freed item may end anywhere.         *)
Finds(h) == IF dangling = {} THEN {h \in tree} ELSE BOOLEAN

(* persistence_notify_on_change: registering what is in the tree frees the *)
(* item in the tree; the last one to go takes the callback along.          *)
TreeRegister(h, c, found) ==
  /\ tree' = tree \cup {h}
  /\ dangling' = IF found THEN dangling \cup {h} ELSE dangling
  /\ gChangeNotifyCallback' = IF found THEN gChangeNotifyCallback ELSE c

(* Mutant: the callback goes with the first resource that is unregistered. *)
TreeUnregister_Always(h, found) ==
  /\ tree' = tree \ {h} /\ dangling' = dangling \ {h}
  /\ gChangeNotifyCallback' = IF found THEN NoCallback ELSE gChangeNotifyCallback

TreeUnregister(h, found) ==
  /\ tree' = IF found THEN tree \ {h} ELSE tree
  /\ dangling' = IF found THEN dangling \ {h} ELSE dangling
  /\ gChangeNotifyCallback' =
       IF found /\ tree' = {} THEN NoCallback ELSE gChangeNotifyCallback

Update(a) ==
  /\ pc[a] = "update"
  /\ LET h == Hash[call[a].res]
     IN  \E found \in Finds(h) :
           \/ call[a].op = "register"   /\ TreeRegister(h, call[a].callback, found)
           \/ call[a].op = "unregister" /\ TreeUnregister(h, found)
  /\ pc' = [pc EXCEPT ![a] = "deliver"]
  /\ UNCHANGED <<initialized, bus, loop, call, registered>>

(* Mutant: a rule that is not there is counted off.                        *)
ProcessRegNotification_Unchecked(r, op) ==
  rules' = [rules EXCEPT ![r] = IF op = "register" THEN @ + 1 ELSE @ - 1]

(* Mutant: the rules are not removed.                                      *)
ProcessRegNotification_Kept(r, op) ==
  rules' = IF op = "register" THEN [rules EXCEPT ![r] = @ + 1] ELSE rules

(* process_reg_notification_signal: rules are counted by the bus; one that *)
(* is not there cannot be removed, which is not an error.                  *)
ProcessRegNotification(r, op) ==
  rules' = [rules EXCEPT ![r] = CASE op = "register" -> @ + 1
                                  [] op = "unregister" /\ @ > 0 -> @ - 1
                                  [] OTHER -> @]

(* The command reaches the loop and the call returns.                      *)
Deliver(a) ==
  LET r == call[a].res
      op == call[a].op
  IN  /\ pc[a] = "deliver" /\ mainPc = "poll"
      /\ op = "register" => rules[r] < MaxRules
      /\ ProcessRegNotification(r, op)
      /\ registered' = IF op = "register" THEN [registered EXCEPT ![r] = call[a].callback]
                                          ELSE registered
      /\ pc' = [pc EXCEPT ![a] = "idle"]
      /\ call' = [call EXCEPT ![a] = NoRequest]
      /\ UNCHANGED <<initialized, reg, signals, loop>>

-----------------------------------------------------------------------------
(* Signals                                                                 *)

(* Some process, perhaps this one, changes or deletes the resource:        *)
(* process_send_notification_signal.  However many rules match, the bus    *)
(* delivers one signal.                                                    *)
Publish(r) ==
  /\ rules[r] > 0 /\ Len(signals) < MaxSignals
  /\ signals' = Append(signals, r)
  /\ UNCHANGED <<initialized, reg, rules, loop, pc, call, registered>>

(* Mutant: the check is inverted.                                          *)
SignalCheck_Inverted ==
  /\ mainPc = "poll" /\ signals # <<>>
  /\ IF gChangeNotifyCallback # NoCallback
       THEN signals' = Tail(signals) /\ UNCHANGED <<mainPc, loaded>>
       ELSE /\ mainPc' = "call" /\ loaded' = gChangeNotifyCallback
            /\ UNCHANGED signals
  /\ UNCHANGED <<initialized, reg, rules, last, pc, call, registered>>

(* handleObjectPathMessageFallback looks whether there is a callback ...   *)
SignalCheck ==
  /\ mainPc = "poll" /\ signals # <<>>
  /\ IF gChangeNotifyCallback = NoCallback
       THEN signals' = Tail(signals) /\ UNCHANGED <<mainPc, loaded>>
       ELSE /\ mainPc' = "call" /\ loaded' = gChangeNotifyCallback
            /\ UNCHANGED signals
  /\ UNCHANGED <<initialized, reg, rules, last, pc, call, registered>>

(* ... and calls it.  Nothing protects the variable: the call may use the  *)
(* value seen before or read it again.                                     *)
SignalCall ==
  /\ mainPc = "call"
  /\ \E f \in {loaded, gChangeNotifyCallback} :
       /\ mainPc' = IF f = NoCallback THEN "crashed" ELSE "poll"
       /\ last' = IF f = NoCallback THEN last ELSE <<Head(signals), f>>
  /\ signals' = Tail(signals) /\ loaded' = NoCallback
  /\ UNCHANGED <<initialized, reg, rules, pc, call, registered>>

-----------------------------------------------------------------------------
(* The last pclDeinitLibrary: the connection goes, and the tree with       *)
(* deleteNotifyTree; gChangeNotifyCallback stays.                          *)
DeinitLibrary ==
  /\ initialized /\ mainPc = "poll" /\ \A a \in Apis : pc[a] = "idle"
  /\ initialized' = FALSE
  /\ tree' = {} /\ dangling' = {}
  /\ rules' = [r \in Resources |-> 0] /\ signals' = <<>>
  /\ registered' = [r \in Resources |-> NoCallback]
  /\ UNCHANGED <<gChangeNotifyCallback, loop, pc, call>>

InitLibrary ==
  /\ ~ initialized /\ initialized' = TRUE
  /\ UNCHANGED <<reg, bus, loop, pc, call, registered>>

ApiStep(a) ==
  \/ \E r \in Resources, c \in Callbacks : Register(a, r, c) \/ Unregister(a, r, c)
  \/ Update(a) \/ Deliver(a)

LoopStep == SignalCheck \/ SignalCall

Next ==
  /\ mainPc # "crashed"
  /\ \/ \E a \in Apis : ApiStep(a)
     \/ \E r \in Resources : Publish(r)
     \/ LoopStep
     \/ DeinitLibrary \/ InitLibrary

(* The loop thread runs: it serves the bus.                                *)
Spec == Init /\ [][Next]_vars /\ WF_vars(LoopStep)

-----------------------------------------------------------------------------
(* Properties                                                              *)

(* persistence_client_library_key.h: after the content of the given        *)
(* resource has been changed, the passed callback will be called.  As long *)
(* as the application is registered, the bus has a rule for the resource   *)
(* and the callback is the one it passed, whatever else it registers and   *)
(* unregisters.                                                            *)
RegisteredIsNotified ==
  \A r \in Resources : registered[r] # NoCallback
     => rules[r] > 0 /\ gChangeNotifyCallback = registered[r]

(* A resource that is not registered, and about which no call is in        *)
(* progress, has no rule left at the bus.                                  *)
UnregisteredIsSilent ==
  \A r \in Resources :
     (registered[r] = NoCallback /\ \A a \in Apis : pc[a] # "idle" => call[a].res # r)
        => rules[r] = 0

(* A signal of a registered resource reaches the callback, unless the      *)
(* application unregisters first or the loop dies.                         *)
ChangeIsNotified ==
  \A r \in Resources, c \in Callbacks :
     (registered[r] = c /\ \E i \in 1 .. Len(signals) : signals[i] = r)
        ~> (last = <<r, c>> \/ registered[r] # c \/ mainPc = "crashed")

=============================================================================

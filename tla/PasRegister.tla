---------------------------- MODULE PasRegister -----------------------------
(***************************************************************************)
(* Registration with the persistence administration service (PAS):         *)
(* pclInitLibrary and pclDeinitLibrary, the threads that the handler of    *)
(* NameOwnerChanged starts, the loop thread that sends the method calls    *)
(* and takes their replies, and the condition on which the callers wait.   *)
(*                                                                         *)
(* Abstractions.  The handshake of deliverToMainloop is in MainLoop: here  *)
(* a caller goes on when the loop has dispatched its command.  registerTo- *)
(* Pas only joins the thread that it starts, so the two are one thread.    *)
(* The bus answers a call to a service that is gone, or that does not      *)
(* answer in time, with an error.                                          *)
(***************************************************************************)
EXTENDS Integers, Sequences, SequencesExt, FiniteSets

CONSTANTS
  Main,       \* the thread of pclInitLibrary and pclDeinitLibrary
  Spawned,    \* threads the handler may start
  Answers,    \* what the service answers a registration
  MaxChanges, MaxSessions, MaxTimeouts

Threads == {Main} \cup Spawned

ASSUME RegisterAssumption ==
  /\ Main \notin Spawned /\ IsFiniteSet(Spawned)
  /\ Answers \subseteq Int
  /\ {MaxChanges, MaxSessions, MaxTimeouts} \subseteq Nat

VARIABLES
  up, known, late,     \* the service, whether it knows this client, calls it answers too late
  signals,             \* NameOwnerChanged on its way
  cmds, calls,         \* commands, and pending calls with their answer
  thread,              \* where each thread is, what it asked for and was told
  gPasRegistered, gDbusPendingCondValue, gDbusPendingRvalue,
  library,             \* pclInitLibrary and the loop thread
  changes, sessions, timeouts,
  \* history variables
  lapsed,              \* an answer, or the unregistration, was an error
  crossed,             \* a call was begun while another one was under way
  overtaken,           \* a signal was handled while a call was under way
  unsent               \* a command was dispatched of which no reply will come

service == <<up, known, late, changes>>
cond    == <<gDbusPendingCondValue, gDbusPendingRvalue>>
session == <<library, sessions>>
mishaps == <<crossed, overtaken, unsent>>
history == <<timeouts, lapsed, mishaps>>
regVars == <<service, signals, cmds, calls, thread, gPasRegistered, cond, session, history>>

Kinds == {"register", "unregister"}
Idle  == [pc |-> "idle", kind |-> "register", rval |-> 0]
Values == Answers \cup {-1, 0}
NoAnswer == [kind : Kinds, answered : BOOLEAN, arg : Values]

RegTypeOK ==
  /\ up \in BOOLEAN /\ known \in BOOLEAN /\ late \in Seq(Kinds)
  /\ signals \in Seq({"appeared", "disappeared"})
  /\ cmds \in Seq(Threads) /\ calls \in Seq(NoAnswer)
  /\ thread \in [Threads -> [pc : {"idle", "start", "deliver", "check", "blocked", "reset",
                                   "result", "store"},
                             kind : Kinds, rval : Values]]
  /\ gPasRegistered \in {0, 1}
  /\ gDbusPendingCondValue \in {0, 1} /\ gDbusPendingRvalue \in Values
  /\ library \in {"off", "starting", "failed", "on", "ending"}
  /\ changes \in 0 .. MaxChanges /\ sessions \in 0 .. MaxSessions
  /\ timeouts \in 0 .. MaxTimeouts /\ lapsed \in BOOLEAN
  /\ crossed \in BOOLEAN /\ overtaken \in BOOLEAN /\ unsent \in BOOLEAN

RegInit ==
  /\ up \in BOOLEAN /\ known = FALSE /\ late = <<>> /\ signals = <<>>
  /\ cmds = <<>> /\ calls = <<>> /\ thread = [t \in Threads |-> Idle]
  /\ gPasRegistered = 0 /\ gDbusPendingCondValue = 0 /\ gDbusPendingRvalue = 0
  /\ library = "off" /\ changes = 0 /\ sessions = 0 /\ timeouts = 0 /\ lapsed = FALSE
  /\ crossed = FALSE /\ overtaken = FALSE /\ unsent = FALSE

At(t, place) == thread[t].pc = place
Goto(t, place) == thread' = [thread EXCEPT ![t].pc = place]
NobodyWaits == \A t \in Threads : At(t, "idle")
Crossing    == crossed' = (crossed \/ ~ NobodyWaits)

-----------------------------------------------------------------------------
(* The service and the bus (external)                                      *)

ServiceAppears ==
  /\ ~ up /\ changes < MaxChanges
  /\ up' = TRUE /\ changes' = changes + 1
  /\ signals' = IF library = "off" THEN signals ELSE Append(signals, "appeared")
  /\ UNCHANGED <<known, late, cmds, calls, thread, gPasRegistered, cond, session, history>>

(* It forgets its clients.                                                 *)
ServiceDisappears ==
  /\ up /\ changes < MaxChanges
  /\ up' = FALSE /\ known' = FALSE /\ late' = <<>> /\ changes' = changes + 1
  /\ signals' = IF library = "off" THEN signals ELSE Append(signals, "disappeared")
  /\ UNCHANGED <<cmds, calls, thread, gPasRegistered, cond, session, history>>

Answered(k, arg) == calls' = [calls EXCEPT ![k].answered = TRUE, ![k].arg = arg]

ServiceAnswers(k, arg) ==
  /\ up /\ ~ calls[k].answered
  /\ known' = IF calls[k].kind = "register" THEN known \/ arg >= 0 ELSE FALSE
  /\ Answered(k, arg)
  /\ lapsed' = (lapsed \/ arg # 0)
  /\ UNCHANGED <<up, late, changes, signals, cmds, thread, gPasRegistered, cond, session,
                 timeouts, mishaps>>

BusAnswers(k) ==
  /\ ~ up /\ ~ calls[k].answered
  /\ Answered(k, -1)
  /\ UNCHANGED <<service, signals, cmds, thread, gPasRegistered, cond, session, history>>

(* The service handles the call after its time has run out.                *)
TimesOut(k) ==
  /\ up /\ ~ calls[k].answered /\ timeouts < MaxTimeouts
  /\ Answered(k, -1)
  /\ late' = Append(late, calls[k].kind)
  /\ timeouts' = timeouts + 1 /\ lapsed' = TRUE
  /\ UNCHANGED <<up, known, changes, signals, cmds, thread, gPasRegistered, cond, session, mishaps>>

LateCall ==
  /\ up /\ late # <<>>
  /\ known' = (Head(late) = "register")
  /\ late' = Tail(late)
  /\ UNCHANGED <<up, changes, signals, cmds, calls, thread, gPasRegistered, cond, session, history>>

-----------------------------------------------------------------------------
(* The callers: register_pers_admin_service, unregister_pers_admin_service *)

(* deliverToMainloop                                                       *)
Deliver(t, kind) ==
  /\ cmds' = Append(cmds, t)
  /\ thread' = [thread EXCEPT ![t] = [pc |-> "deliver", kind |-> kind, rval |-> 0]]

PclInitLibrary ==
  /\ library \in {"off", "failed"} /\ At(Main, "idle") /\ sessions < MaxSessions
  /\ Crossing
  /\ library' = "starting" /\ sessions' = sessions + 1
  /\ Deliver(Main, "register")
  /\ UNCHANGED <<service, signals, calls, gPasRegistered, cond, timeouts, lapsed, overtaken,
                 unsent>>

DeinitLibrary ==
  /\ library = "on" /\ At(Main, "idle") /\ Crossing
  /\ library' = "ending"
  /\ Deliver(Main, "unregister")
  /\ UNCHANGED <<service, signals, calls, gPasRegistered, cond, sessions, timeouts, lapsed,
                 overtaken, unsent>>

DoSendPasRegister(t) ==
  /\ At(t, "start")
  /\ Deliver(t, "register")
  /\ UNCHANGED <<service, signals, calls, gPasRegistered, cond, session, history>>

(* Mutant: the thread waits without looking.                               *)
CheckPending_NoTest(t) ==
  /\ At(t, "check")
  /\ Goto(t, "blocked")
  /\ UNCHANGED <<service, signals, cmds, calls, gPasRegistered, cond, session, history>>

(* Under gDbusPendingRegMtx.                                               *)
CheckPending(t) ==
  /\ At(t, "check")
  /\ Goto(t, IF gDbusPendingCondValue = 0 THEN "blocked" ELSE "reset")
  /\ UNCHANGED <<service, signals, cmds, calls, gPasRegistered, cond, session, history>>

SpuriousWakeup(t) ==
  /\ At(t, "blocked")
  /\ Goto(t, "check")
  /\ UNCHANGED <<service, signals, cmds, calls, gPasRegistered, cond, session, history>>

(* Mutant: the condition is not reset.                                     *)
ResetPending_Missing(t) ==
  /\ At(t, "reset")
  /\ Goto(t, "result")
  /\ UNCHANGED <<service, signals, cmds, calls, gPasRegistered, cond, session, history>>

(* After the mutex has been released.                                      *)
ResetPending(t) ==
  /\ At(t, "reset")
  /\ gDbusPendingCondValue' = 0
  /\ Goto(t, "result")
  /\ UNCHANGED <<service, signals, cmds, calls, gPasRegistered, gDbusPendingRvalue, session,
                 history>>

TakeResult(t) ==
  /\ At(t, "result")
  /\ thread' = [thread EXCEPT ![t].pc = "store", ![t].rval = gDbusPendingRvalue]
  /\ UNCHANGED <<service, signals, cmds, calls, gPasRegistered, cond, session, history>>

(* private_pclInitLibrary: an answer below -1 ends it, but not the loop.   *)
InitStore ==
  /\ At(Main, "store") /\ library = "starting"
  /\ gPasRegistered' = IF thread[Main].rval >= 0 THEN 1 ELSE gPasRegistered
  /\ library' = IF thread[Main].rval < -1 THEN "failed" ELSE "on"
  /\ Goto(Main, "idle")
  /\ UNCHANGED <<service, signals, cmds, calls, cond, sessions, history>>

(* private_pclDeinitLibrary: then the loop ends and closes the connection. *)
DeinitStore ==
  /\ At(Main, "store") /\ library = "ending"
  /\ gPasRegistered' = IF thread[Main].rval = 0 THEN 0 ELSE gPasRegistered
  /\ lapsed' = (lapsed \/ thread[Main].rval # 0)
  /\ library' = "off" /\ signals' = <<>> /\ calls' = <<>> /\ cmds' = <<>>
  /\ Goto(Main, "idle")
  /\ UNCHANGED <<service, cond, sessions, timeouts, mishaps>>

(* registerToPas                                                           *)
RegisterToPasStore(t) ==
  /\ At(t, "store") /\ t \in Spawned
  /\ gPasRegistered' = IF thread[t].rval = -1 THEN gPasRegistered ELSE 1
  /\ Goto(t, "idle")
  /\ UNCHANGED <<service, signals, cmds, calls, cond, session, history>>

-----------------------------------------------------------------------------
(* The loop thread                                                         *)

SendWithReply(kind) ==
  /\ calls' = Append(calls, [kind |-> kind, answered |-> FALSE, arg |-> 0])
  /\ UNCHANGED <<late, unsent>>

(* No connection name, message, pending call or notification.  Without the *)
(* last two the message may still reach the service.                       *)
SendFails(kind) ==
  /\ UNCHANGED calls /\ unsent' = TRUE
  /\ (up /\ late' = Append(late, kind)) \/ UNCHANGED late

(* process_send_pas_register, which reports no failure to the caller.      *)
ProcessSendPasRegister ==
  /\ library # "off" /\ cmds # <<>>
  /\ cmds' = Tail(cmds) /\ Goto(Head(cmds), "check")
  /\ LET kind == thread[Head(cmds)].kind IN SendWithReply(kind) \/ SendFails(kind)
  /\ UNCHANGED <<up, known, changes, signals, gPasRegistered, cond, session, timeouts, lapsed,
                 crossed, overtaken>>

(* msg_pending_func: one of the waiting threads is woken.                  *)
MsgPendingFunc(k) ==
  /\ library # "off" /\ calls[k].answered
  /\ gDbusPendingRvalue' = calls[k].arg /\ gDbusPendingCondValue' = 1
  /\ calls' = RemoveAt(calls, k)
  /\ IF \E t \in Threads : At(t, "blocked")
       THEN \E t \in Threads : At(t, "blocked") /\ Goto(t, "check")
       ELSE UNCHANGED thread
  /\ UNCHANGED <<service, signals, cmds, gPasRegistered, session, history>>

(* handleObjectPathMessageFallback, for NameOwnerChanged of the service    *)
Handled(signal) ==
  /\ library # "off" /\ signals # <<>> /\ Head(signals) = signal
  /\ signals' = Tail(signals)
  /\ overtaken' = (overtaken \/ ~ NobodyWaits)

Appeared ==
  /\ Handled("appeared")
  /\ IF gPasRegistered = 0
       THEN Crossing /\ \E t \in Spawned : At(t, "idle") /\ Goto(t, "start")
       ELSE UNCHANGED <<crossed, thread>>
  /\ UNCHANGED <<service, cmds, calls, gPasRegistered, cond, session, timeouts, lapsed, unsent>>

Disappeared ==
  /\ Handled("disappeared")
  /\ gPasRegistered' = 0
  /\ UNCHANGED <<service, cmds, calls, thread, cond, session, timeouts, lapsed, crossed, unsent>>

-----------------------------------------------------------------------------
Bus == \E k \in DOMAIN calls : \/ \E a \in Answers : ServiceAnswers(k, a)
                               \/ BusAnswers(k) \/ TimesOut(k)

Loop == ProcessSendPasRegister \/ (\E k \in DOMAIN calls : MsgPendingFunc(k))
          \/ Appeared \/ Disappeared

Caller(t) == CheckPending(t) \/ ResetPending(t) \/ TakeResult(t) \/ DoSendPasRegister(t)
               \/ RegisterToPasStore(t) \/ (t = Main /\ (InitStore \/ DeinitStore))

RegNext ==
  \/ ServiceAppears \/ ServiceDisappears \/ LateCall \/ Bus
  \/ PclInitLibrary \/ DeinitLibrary
  \/ Loop
  \/ \E t \in Threads : Caller(t) \/ SpuriousWakeup(t)

(* Threads and the loop are scheduled, and every call is answered, if only *)
(* by the bus when its time has run out.                                   *)
RegSpec == /\ RegInit /\ [][RegNext]_regVars
           /\ WF_regVars(Bus) /\ WF_regVars(Loop) /\ \A t \in Threads : WF_regVars(Caller(t))

-----------------------------------------------------------------------------
(* Properties                                                              *)

Waiting == {t \in Threads : thread[t].pc \in {"deliver", "check", "blocked"}}

(* Whoever waits for an answer has one to come: in the pipe, on the bus,   *)
(* or in the condition.                                                    *)
AnswerToCome == Cardinality(Waiting) <= Len(cmds) + Len(calls) + gDbusPendingCondValue

Quiet == library = "on" /\ NobodyWaits /\ signals = <<>> /\ calls = <<>> /\ ~ lapsed

(* When all signals are handled and no answer was an error of the service, *)
(* the flag is set exactly when the service is there and knows the client: *)
(* a service that restarts, even in the middle of a registration, is       *)
(* registered with again, once.                                            *)
FlagTellsTheTruth == Quiet => (gPasRegistered = 1) = up /\ known = up

(* Neither the callers nor gPasRegistered lose track of the service.  The  *)
(* callers do once two of them overlap, for they share one condition, and  *)
(* once a message could not be sent; the flag does once two calls overlap, *)
(* or a signal is handled in the middle of one.                            *)
RegistrationIsSound ==
  /\ RegTypeOK
  /\ ~ crossed /\ ~ unsent => AnswerToCome
  /\ ~ crossed /\ ~ overtaken => FlagTellsTheTruth

(* Every registration and unregistration returns to its caller, whatever   *)
(* signals are handled meanwhile, unless calls overlap or a message could  *)
(* not be sent.                                                            *)
EveryRegistrationReturns ==
  \A t \in Threads : ~ At(t, "idle") ~> At(t, "idle") \/ crossed \/ unsent

=============================================================================

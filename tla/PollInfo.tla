------------------------------ MODULE PollInfo ------------------------------
(***************************************************************************)
(* gPollInfo of persistence_client_library_dbus_service.c: the array of    *)
(* poll descriptors that the callbacks addWatch, removeWatch, addTimeout   *)
(* and removeTimeout change while mainLoop iterates over it.  All of it    *)
(* runs on the loop thread.                                                *)
(*                                                                         *)
(* Abstractions.  libdbus is external: in any call it may switch a watch   *)
(* on or off, a message that it reads may be the reply to a pending call,  *)
(* and a pending call whose timeout is handled is over.  Both watches      *)
(* belong to one socket.  A timer descriptor is named by its timeout.  A   *)
(* command is a call that waits for a reply, the quit, or anything else.   *)
(* The connection is not lost.                                             *)
(***************************************************************************)
EXTENDS Integers, FiniteSets, FiniteSetsExt

CONSTANTS
  PollSize,           \* ARRAY_SIZE(gPollInfo.fds)
  Reader, Writer,     \* the watches of the connection
  Timeouts,
  Pipe, Socket, NoFd, \* descriptors; a timer's is its timeout
  NULL,
  MaxPipe

Watches == {Reader, Writer}
Fds     == {Pipe, Socket, NoFd} \cup Timeouts
Flags(w) == IF w = Reader THEN {"in"} ELSE {"out"}

ASSUME PollAssumption ==
  /\ PollSize \in Nat /\ PollSize > 1 /\ MaxPipe \in Nat
  /\ IsFiniteSet(Timeouts) /\ Reader # Writer
  /\ ({Reader, Writer} \cap Timeouts) = {} /\ NULL \notin Watches \cup Timeouts
  /\ Cardinality({Pipe, Socket, NoFd}) = 3 /\ ({Pipe, Socket, NoFd} \cap Timeouts) = {}

VARIABLES
  gPollInfo,      \* nfds, fds and objects
  loopPc, i,      \* mainLoop
  enabled,        \* the watches that libdbus has switched on
  timer,          \* the timeouts that libdbus has added, and their timers
  pipe, incoming, \* commands in the pipe, a message on the socket
  grown,          \* history: how often a watch has taken a place
  refused         \* history: watches for which there was no place

libdbus  == <<enabled, timer>>
hist     == <<grown, refused>>
pollVars == <<gPollInfo, loopPc, i, libdbus, pipe, incoming, hist>>

Slots   == 0 .. PollSize - 1
NoPoll  == [fd |-> NoFd, events |-> {}, revents |-> {}]
NoEntry == [objtype |-> "none", obj |-> NULL]

PollTypeOK ==
  /\ gPollInfo.nfds \in 1 .. PollSize
  /\ gPollInfo.fds \in [Slots -> [fd : Fds, events : SUBSET {"in", "out"},
                                  revents : SUBSET {"in", "out"}]]
  /\ gPollInfo.objects \in [Slots -> [objtype : {"none", "watch", "timeout"},
                                      obj : Watches \cup Timeouts \cup {NULL}]]
  /\ loopPc \in {"dispatch", "poll", "each", "exit", "ended"} /\ i \in 0 .. PollSize
  /\ enabled \subseteq Watches
  /\ timer \in [Timeouts -> {"none", "armed", "expired"}]
  /\ pipe \in 0 .. MaxPipe /\ incoming \in BOOLEAN
  /\ grown \in Nat /\ refused \subseteq Watches

-----------------------------------------------------------------------------
(* The callbacks, as functions of the array                                *)

(* A watch that is off is written to the next place, which is not taken.   *)
(* Of the poll descriptor revents is left as it was, and bits are only     *)
(* added to events.                                                        *)
AddWatch(P, w, on) ==
  LET n == P.nfds
  IN  IF n = PollSize THEN P
      ELSE [nfds    |-> IF on THEN n + 1 ELSE n,
            fds     |-> [P.fds EXCEPT ![n].fd = Socket,
                                      ![n].events = IF on THEN @ \cup Flags(w) ELSE @],
            objects |-> [P.objects EXCEPT ![n] = [objtype |-> "watch", obj |-> w]]]

AddTimeout(P, t) ==
  LET n == P.nfds
  IN  [nfds    |-> n + 1,
       fds     |-> [P.fds EXCEPT ![n].fd = t, ![n].events = @ \cup {"in"}],
       objects |-> [P.objects EXCEPT ![n] = [objtype |-> "timeout", obj |-> t]]]

(* Mutant: the objects are not moved down with the descriptors.            *)
RemoveTimeout_FdsOnly(P, t) ==
  LET places == {k \in 1 .. P.nfds - 1 : P.objects[k].obj = t}
      last   == P.nfds - 1
      moved(k) == Max(places) <= k /\ k < last
  IN  IF places = {} THEN P
      ELSE [nfds    |-> last,
            fds     |-> [[k \in Slots |-> P.fds[IF moved(k) THEN k + 1 ELSE k]]
                           EXCEPT ![last].fd = NoFd],
            objects |-> [P.objects EXCEPT ![last].objtype = "none"]]

(* The entries above the removed one move down.  The place behind the last *)
(* entry keeps its events and revents.                                     *)
RemoveTimeout(P, t) ==
  LET places == {k \in 1 .. P.nfds - 1 : P.objects[k].obj = t}
      last   == P.nfds - 1
      moved(k) == Max(places) <= k /\ k < last
  IN  IF places = {} THEN P
      ELSE [nfds    |-> last,
            fds     |-> [[k \in Slots |-> P.fds[IF moved(k) THEN k + 1 ELSE k]]
                           EXCEPT ![last].fd = NoFd],
            objects |-> [[k \in Slots |-> P.objects[IF moved(k) THEN k + 1 ELSE k]]
                           EXCEPT ![last].objtype = "none"]]

-----------------------------------------------------------------------------
(* setup_dbus_mainloop: the pipe, then the reader, then the writer, which  *)
(* is off.                                                                 *)
StartInfo ==
  LET zero == [nfds    |-> 1,
               fds     |-> [k \in Slots |->
                              IF k = 0 THEN [fd |-> Pipe, events |-> {"in"}, revents |-> {}]
                                       ELSE NoPoll],
               objects |-> [k \in Slots |-> NoEntry]]
  IN  AddWatch(AddWatch(zero, Reader, TRUE), Writer, FALSE)

PollInit ==
  /\ gPollInfo = StartInfo /\ loopPc = "dispatch" /\ i = 0
  /\ enabled = {Reader} /\ timer = [t \in Timeouts |-> "none"]
  /\ pipe = 0 /\ incoming = FALSE
  /\ grown = 1 /\ refused = {}

(* What libdbus may do with its watches in a call: nothing, or switch one  *)
(* on or off (watchToggled; removeWatch leaves the array alone).           *)
Toggle(P) ==
  \/ gPollInfo' = P /\ UNCHANGED <<enabled, hist>>
  \/ \E w \in enabled : gPollInfo' = P /\ enabled' = enabled \ {w} /\ UNCHANGED hist
  \/ \E w \in Watches \ enabled :
       /\ gPollInfo' = AddWatch(P, w, TRUE) /\ enabled' = enabled \cup {w}
       /\ grown' = grown + (IF P.nfds < PollSize THEN 1 ELSE 0)
       /\ refused' = IF P.nfds < PollSize THEN refused ELSE refused \cup {w}

-----------------------------------------------------------------------------
(* mainLoop                                                                *)

Dispatch ==
  /\ loopPc = "dispatch" /\ loopPc' = "poll"
  /\ Toggle(gPollInfo)
  /\ UNCHANGED <<i, timer, pipe, incoming>>

Ready(p) ==
  p.events \cap
    CASE p.fd = Pipe      -> IF pipe > 0 THEN {"in"} ELSE {}
      [] p.fd = Socket    -> IF incoming THEN {"in", "out"} ELSE {"out"}
      [] p.fd \in Timeouts -> IF timer[p.fd] = "expired" THEN {"in"} ELSE {}
      [] p.fd = NoFd      -> {}

Polled == 0 .. gPollInfo.nfds - 1

(* The loop goes on at k with the next entry that there is anything to do  *)
(* for.                                                                    *)
GoOn(P, k) ==
  i' = Min({j \in Slots : k <= j /\ j < P.nfds /\ P.fds[j].revents # {}} \cup {P.nfds})

(* Mutant: the last entry is not polled.                                   *)
Poll_OffByOne ==
  /\ loopPc = "poll"
  /\ \E k \in Polled : Ready(gPollInfo.fds[k]) # {}
  /\ gPollInfo' = [gPollInfo EXCEPT !.fds =
                     [k \in Slots |-> IF k < gPollInfo.nfds - 1
                                        THEN [@[k] EXCEPT !.revents = Ready(gPollInfo.fds[k])]
                                        ELSE @[k]]]
  /\ loopPc' = "each" /\ GoOn(gPollInfo', 0)
  /\ UNCHANGED <<libdbus, pipe, incoming, hist>>

(* Only the places that are taken get their revents.                       *)
Poll ==
  /\ loopPc = "poll"
  /\ \E k \in Polled : Ready(gPollInfo.fds[k]) # {}
  /\ gPollInfo' = [gPollInfo EXCEPT !.fds =
                     [k \in Slots |-> IF k \in Polled
                                        THEN [@[k] EXCEPT !.revents = Ready(gPollInfo.fds[k])]
                                        ELSE @[k]]]
  /\ loopPc' = "each" /\ GoOn(gPollInfo', 0)
  /\ UNCHANGED <<libdbus, pipe, incoming, hist>>

Here(objtype) ==
  /\ loopPc = "each" /\ i \in Polled
  /\ objtype = IF gPollInfo.objects[i].objtype = "timeout" THEN "timeout"
               ELSE IF gPollInfo.fds[i].fd = Pipe THEN "pipe" ELSE "watch"

NextEntry == GoOn(gPollInfo', i + 1) /\ UNCHANGED loopPc

RoundEnds ==
  /\ loopPc = "each" /\ i \notin Polled
  /\ loopPc' = "dispatch" /\ i' = 0
  /\ UNCHANGED <<gPollInfo, libdbus, pipe, incoming, hist>>

(* read() waits until the timer has expired; dbus_timeout_handle then ends *)
(* the pending call, which removes the timeout.                            *)
HandleTimeout ==
  /\ Here("timeout")
  /\ timer[gPollInfo.fds[i].fd] = "expired"
  /\ LET t == gPollInfo.objects[i].obj
     IN  /\ gPollInfo' = RemoveTimeout(gPollInfo, t)
         /\ timer' = [timer EXCEPT ![t] = "none"]
  /\ NextEntry
  /\ UNCHANGED <<enabled, pipe, incoming, hist>>

(* process_send_pas_register: libdbus gives up the call if it cannot add   *)
(* its timeout.                                                            *)
CallWithReply ==
  IF gPollInfo.nfds < PollSize
    THEN \E t \in Timeouts : /\ timer[t] = "none"
                             /\ timer' = [timer EXCEPT ![t] = "armed"]
                             /\ Toggle(AddTimeout(gPollInfo, t))
    ELSE Toggle(gPollInfo) /\ UNCHANGED timer

HandlePipe ==
  /\ Here("pipe") /\ pipe > 0 /\ pipe' = pipe - 1
  /\ \/ CallWithReply /\ NextEntry
     \/ Toggle(gPollInfo) /\ UNCHANGED timer /\ NextEntry
     \/ loopPc' = "exit" /\ UNCHANGED <<gPollInfo, i, libdbus, hist>>
  /\ UNCHANGED incoming

(* dbus_watch_handle: a message is read, it may be a reply.                *)
HandleWatch ==
  /\ Here("watch")
  /\ LET w == gPollInfo.objects[i].obj
     IN  IF w = Reader /\ "in" \in gPollInfo.fds[i].revents /\ incoming
           THEN /\ incoming' = FALSE
                /\ \/ Toggle(gPollInfo) /\ UNCHANGED timer
                   \/ \E t \in Timeouts : timer[t] # "none" /\ Toggle(RemoveTimeout(gPollInfo, t))
                                            /\ timer' = [timer EXCEPT ![t] = "none"]
           ELSE Toggle(gPollInfo) /\ UNCHANGED <<timer, incoming>>
  /\ NextEntry
  /\ UNCHANGED pipe

(* The connection is closed.                                               *)
Exit ==
  /\ loopPc = "exit" /\ loopPc' = "ended"
  /\ enabled' = {} /\ timer' = [t \in Timeouts |-> "none"]
  /\ pipe' = 0 /\ incoming' = FALSE
  /\ UNCHANGED <<gPollInfo, i, hist>>

(* setup_dbus_mainloop by a new pclInitLibrary                             *)
Setup ==
  /\ loopPc = "ended" /\ loopPc' = "dispatch" /\ i' = 0
  /\ gPollInfo' = StartInfo /\ enabled' = {Reader} /\ grown' = 1 /\ refused' = {}
  /\ UNCHANGED <<timer, pipe, incoming>>

-----------------------------------------------------------------------------
(* Outside: callers, the bus and the clock (external)                      *)

Post ==
  /\ loopPc # "ended" /\ pipe < MaxPipe /\ pipe' = pipe + 1
  /\ UNCHANGED <<gPollInfo, loopPc, i, libdbus, incoming, hist>>

Arrive ==
  /\ loopPc # "ended" /\ ~ incoming /\ incoming' = TRUE
  /\ UNCHANGED <<gPollInfo, loopPc, i, libdbus, pipe, hist>>

Expire(t) ==
  /\ timer[t] = "armed" /\ timer' = [timer EXCEPT ![t] = "expired"]
  /\ UNCHANGED <<gPollInfo, loopPc, i, enabled, pipe, incoming, hist>>

Loop == Dispatch \/ Poll \/ RoundEnds \/ HandleTimeout \/ HandlePipe
          \/ HandleWatch \/ Exit

PollNext == Loop \/ Setup \/ Post \/ Arrive \/ \E t \in Timeouts : Expire(t)

(* The loop thread is scheduled and timers run out.                        *)
PollSpec == /\ PollInit /\ [][PollNext]_pollVars
            /\ WF_pollVars(Loop) /\ \A t \in Timeouts : WF_pollVars(Expire(t))

-----------------------------------------------------------------------------
(* Properties                                                              *)

Alive == loopPc # "ended"

Places(o) == {k \in Polled : gPollInfo.objects[k].obj = o}

(* Whatever the callbacks move while mainLoop iterates: the pipe is in     *)
(* place 0, every pending call has one entry with its own timer, no entry  *)
(* is left of a timer that is closed, and every place is accounted for.    *)
EntriesMatch ==
  Alive =>
    /\ gPollInfo.fds[0].fd = Pipe /\ gPollInfo.objects[0].obj = NULL
    /\ \A t \in Timeouts : Cardinality(Places(t)) = IF timer[t] = "none" THEN 0 ELSE 1
    /\ \A k \in Polled \ {0} :
         gPollInfo.fds[k].fd = IF gPollInfo.objects[k].objtype = "timeout"
                                 THEN gPollInfo.objects[k].obj ELSE Socket
    /\ gPollInfo.nfds = 1 + grown + Cardinality({t \in Timeouts : timer[t] # "none"})

(* A watch that libdbus has switched on is polled for what it waits for,   *)
(* unless the array was full.                                              *)
EnabledIsPolled ==
  Alive => \A w \in enabled \ refused :
             \E k \in Places(w) : /\ gPollInfo.objects[k].objtype = "watch"
                                  /\ Flags(w) \subseteq gPollInfo.fds[k].events

(* The array is what libdbus takes it for after any sequence of callbacks, *)
(* the last place and the refusals of a full array included.               *)
ArrayIsSound == PollTypeOK /\ EntriesMatch /\ EnabledIsPolled

(* A timeout is handled though removals make the loop skip entries, and    *)
(* though it may be waiting in read() for another timer.                   *)
TimeoutIsHandled == \A t \in Timeouts : timer[t] = "expired" ~> timer[t] # "expired"

(* What the comment in mainLoop says: a timer is read when its time-out    *)
(* has occurred.                                                           *)
OnlyExpiredIsRead == Here("timeout") => timer[gPollInfo.fds[i].fd] = "expired"

=============================================================================

---------------------------- MODULE CustomLoader ----------------------------
(***************************************************************************)
(* persistence_client_library_custom_loader.c: the configuration file of   *)
(* the custom libraries, loading them in pclInitLibrary or on demand, and  *)
(* unloading them in a full shutdown on the loop thread.                   *)
(*                                                                         *)
(* Abstractions.  A file is the sequence of its tokens; after the newline  *)
(* at its end there is one more, empty token.  gKeyAPIAccessMtx lets one   *)
(* call through at a time, so one caller is modelled; gInitMutex does the  *)
(* same for init and deinit.  What a full shutdown does besides unloading  *)
(* is in Lifecycle and HandlePool.  After undefined behaviour (a call      *)
(* through a null pointer, a write behind the array) the process stops.    *)
(***************************************************************************)
EXTENDS Integers, Sequences, FiniteSets, FiniteSetsExt, Functions

CONSTANTS
  Names,           \* the predefined names, in the order of their ids
  TokenArraySize,  \* TOKENARRAYSIZE
  Libs, Exports,   \* the libraries that can be opened, and their symbols
  Vars,            \* those of them that have the variables of a default library
  Files,           \* configuration files, as sequences of tokens
  NoFile,          \* a file that cannot be read
  NULL, MaxInits, MaxRefs

LastEntry == Len(Names)   \* PersCustomLib_LastEntry
Ids       == 0 .. LastEntry - 1
Default   == 0
Ops       == {"get_data", "set_data", "get_size", "delete_data"}
Functions == Ops \cup {"init", "init_async", "deinit"}

ASSUME LoaderAssumption ==
  /\ Names # <<>> /\ Names \in Seq(Range(Names)) /\ IsInjective(Names)
  /\ {MaxInits, MaxRefs} \subseteq Nat
  /\ TokenArraySize \in Nat /\ TokenArraySize % 4 = 3
  /\ Exports \in [Libs -> SUBSET Functions] /\ Vars \subseteq Libs
  /\ NULL \notin Libs /\ NoFile \notin Files
  /\ \A f \in Files : f # <<>> /\ f \in Seq(Range(f)) /\ NULL \notin Range(f)

VARIABLES
  gpCustomTokenArray, gCustomLibArray, gPersCustomFuncs,
  refs,      \* how often dlopen has opened a library
  plugin,    \* what the library has been told last: "fresh", "ready", "down"
  initPc, initIdx, initRval, inits, file,
  gPclInitCounter, open,
  running,   \* gDbusMainloopRunning
  pc, op, idx, inside,          \* the call in progress
  loop, loopIdx,                \* the full shutdown in progress
  broken,
  leaked,    \* history: what a failed init left open, or was opened as the default
  complete,  \* history: nothing has been unloaded since the last init
  overlapped \* history: a shutdown has met a call or an init

conf   == <<gpCustomTokenArray, gCustomLibArray, file>>
libs   == <<gPersCustomFuncs, refs, plugin>>
init   == <<initPc, initIdx, initRval, inits>>
gate   == <<gPclInitCounter, open, running>>
call   == <<pc, op, idx, inside>>
loops  == <<loop, loopIdx>>
hist   == <<leaked, complete>>
vars   == <<conf, libs, init, gate, call, loops, broken, hist, overlapped>>

NoFuncts == [handle |-> NULL, functs |-> {}]
NoInfo   == [libname |-> NULL, valid |-> FALSE, loadingType |-> "init", initFunction |-> "sync"]

Tokens  == UNION {{f[k] : k \in DOMAIN f} : f \in Files}

TypeOK ==
  /\ gpCustomTokenArray \in [0 .. TokenArraySize - 1 -> Tokens \cup {NULL}]
  /\ gCustomLibArray \in [Ids -> [libname : Tokens \cup {NULL}, valid : BOOLEAN,
                                  loadingType : {"init", "od", "undefined"},
                                  initFunction : {"sync", "async", "undefined"}]]
  /\ gPersCustomFuncs \in [Ids -> [handle : Libs \cup {NULL}, functs : SUBSET Functions]]
  /\ refs \in [Libs -> 0 .. MaxRefs]
  /\ plugin \in [Libs -> {"fresh", "ready", "down"}]
  /\ initPc \in {"idle", "load", "init", "quit"} /\ initIdx \in 0 .. LastEntry
  /\ initRval \in -1 .. 1 /\ inits \in 0 .. MaxInits
  /\ file \in Files \cup {NoFile, <<>>}
  /\ gPclInitCounter \in 0 .. 1 /\ open \in BOOLEAN /\ running \in BOOLEAN
  /\ pc \in {"idle", "check", "load", "init", "call", "inside"}
  /\ op \in Ops /\ idx \in Ids /\ inside \in Libs \cup {NULL}
  /\ loop \in {"idle", "deinit", "close", "invalidate"} /\ loopIdx \in 0 .. LastEntry
  /\ broken \in {"no", "null", "array"}
  /\ leaked \subseteq Libs /\ complete \in BOOLEAN /\ overlapped \in BOOLEAN

Init ==
  /\ gpCustomTokenArray = [i \in 0 .. TokenArraySize - 1 |-> NULL]
  /\ gCustomLibArray = [i \in Ids |-> NoInfo]
  /\ gPersCustomFuncs = [i \in Ids |-> NoFuncts]
  /\ refs = [l \in Libs |-> 0] /\ plugin = [l \in Libs |-> "fresh"]
  /\ initPc = "idle" /\ initIdx = 0 /\ initRval = 0 /\ inits = 0 /\ file = <<>>
  /\ gPclInitCounter = 0 /\ open = TRUE /\ running = FALSE
  /\ pc = "idle" /\ op = "get_size" /\ idx = 0 /\ inside = NULL
  /\ loop = "idle" /\ loopIdx = 0
  /\ broken = "no" /\ leaked = {} /\ complete = FALSE /\ overlapped = FALSE

-----------------------------------------------------------------------------
(* The configuration file                                                  *)

(* getLoadingType and getInitType                                          *)
Known(token, names) == IF token \in names THEN token ELSE "undefined"

(* fillCustomCharTokenArray: what is behind the tokens of this file stays. *)
FillCustomCharTokenArray(f) ==
  [i \in DOMAIN gpCustomTokenArray |->
     IF i < Len(f) THEN f[i + 1] ELSE gpCustomTokenArray[i]]

(* The first token of every entry that get_custom_libraries looks at.      *)
Entries(T) ==
  LET full(e)  == \A k \in 0 .. 3 : T[4 * e + k] # NULL
      places == 0 .. (TokenArraySize - 3) \div 4 - 1
  IN  {4 * e : e \in {e \in places : \A d \in 0 .. e : full(d)}}

CustomClientNameToId(name) ==
  IF name \in Range(Names) THEN (CHOOSE k \in DOMAIN Names : Names[k] = name) - 1
  ELSE LastEntry

UnknownName(T) == \E e \in Entries(T) : CustomClientNameToId(T[e]) = LastEntry

(* Mutant: the array is not reset.                                         *)
GetCustomLibraries_NotReset(T) ==
  [i \in Ids |->
     LET mine == {e \in Entries(T) : CustomClientNameToId(T[e]) = i}
         last == Max(mine)
     IN  IF mine = {} THEN gCustomLibArray[i]
         ELSE [libname      |-> T[last + 1], valid |-> TRUE,
               loadingType  |-> Known(T[last + 2], {"init", "od"}),
               initFunction |-> Known(T[last + 3], {"sync", "async"})]]

(* The later of two entries with one name wins.                            *)
GetCustomLibraries(T) ==
  [i \in Ids |->
     LET mine == {e \in Entries(T) : CustomClientNameToId(T[e]) = i}
         last == Max(mine)
     IN  IF mine = {} THEN [gCustomLibArray[i] EXCEPT !.valid = FALSE]
         ELSE [libname      |-> T[last + 1], valid |-> TRUE,
               loadingType  |-> Known(T[last + 2], {"init", "od"}),
               initFunction |-> Known(T[last + 3], {"sync", "async"})]]

-----------------------------------------------------------------------------
(* load_custom_library, in two steps: the symbols, then the plugin's init. *)

Handle(i) ==
  LET name == gCustomLibArray[i].libname
  IN  IF name \in Libs THEN name ELSE NULL

(* The functions of the default library are not kept per library; it is    *)
(* never closed.                                                           *)
Dlopen(i) ==
  LET lib == Handle(i)
  IN  /\ lib # NULL => refs[lib] < MaxRefs
      /\ gPersCustomFuncs' =
           [gPersCustomFuncs EXCEPT
              ![i] = [handle |-> lib,
                      functs |-> IF lib = NULL \/ i = Default THEN @.functs ELSE Exports[lib]]]
      /\ refs' = IF lib = NULL THEN refs ELSE [refs EXCEPT ![lib] = @ + 1]
      /\ leaked' = leaked \cup (IF i = Default THEN {lib} \cap Libs ELSE {})

(* The result once the library is open: 1, or the negative error.          *)
OpenResult(i) ==
  IF i = Default THEN (IF Handle(i) \in Vars THEN 1 ELSE -1)
  ELSE IF Handle(i) = NULL THEN -1 ELSE 1

InitFunction(i) ==
  CASE gCustomLibArray[i].initFunction = "sync"  -> "init"
    [] gCustomLibArray[i].initFunction = "async" -> "init_async"
    [] OTHER -> NULL

Initialisable(i) == InitFunction(i) \in gPersCustomFuncs[i].functs

(* What the plugin's init returns is ignored.                              *)
PluginInit(i) ==
  plugin' = IF Initialisable(i)
              THEN [plugin EXCEPT ![gPersCustomFuncs[i].handle] = "ready"]
              ELSE plugin

-----------------------------------------------------------------------------
(* pclInitLibrary: load_custom_plugins                                     *)

(* A step with which a shutdown meets a call or an init, or does not.      *)
Met(other) == overlapped' = (overlapped \/ other)

AtInit(info) == info.valid /\ info.loadingType = "init"

(* Mutant: the loop stops before the last library.                         *)
NextLib_OffByOne(A, i) ==
  Min({j \in Ids : j >= i /\ j < LastEntry - 1 /\ AtInit(A[j])} \cup {LastEntry})

(* The next library to load, from i on.                                    *)
NextLib(A, i) == Min({j \in Ids : j >= i /\ AtInit(A[j])} \cup {LastEntry})

(* The file is missing or empty: get_custom_libraries returns before the   *)
(* functions are invalidated.                                              *)
InitNoFile(f) ==
  /\ broken = "no" /\ initPc = "idle" /\ gPclInitCounter = 0 /\ inits < MaxInits
  /\ Met(loop # "idle")
  /\ gCustomLibArray' = [i \in Ids |-> [gCustomLibArray[i] EXCEPT !.valid = FALSE]]
  /\ file' = f /\ inits' = inits + 1 /\ running' = TRUE
  /\ UNCHANGED <<gpCustomTokenArray, libs, initPc, initIdx, initRval, gPclInitCounter, open,
                 call, loops, broken, hist>>

(* An entry with an unknown name is written behind the array.              *)
InitBegin(f) ==
  LET T == FillCustomCharTokenArray(f)
  IN  /\ broken = "no" /\ initPc = "idle" /\ gPclInitCounter = 0 /\ inits < MaxInits
      /\ Met(loop # "idle")
      /\ gpCustomTokenArray' = T /\ gCustomLibArray' = GetCustomLibraries(T)
      /\ broken' = IF UnknownName(T) THEN "array" ELSE broken
      /\ gPersCustomFuncs' = [i \in Ids |-> NoFuncts]
      /\ initPc' = "load" /\ initIdx' = NextLib(GetCustomLibraries(T), 0) /\ initRval' = 0
      /\ file' = f /\ inits' = inits + 1 /\ running' = TRUE
      /\ UNCHANGED <<refs, plugin, gPclInitCounter, open, call, loops, hist>>

InitLoad ==
  /\ broken = "no" /\ initPc = "load" /\ initIdx < LastEntry
  /\ Dlopen(initIdx)
  /\ initRval' = OpenResult(initIdx)
  /\ IF initIdx = Default \/ OpenResult(initIdx) < 0
       THEN initPc' = "load" /\ initIdx' = NextLib(gCustomLibArray, initIdx + 1)
       ELSE initPc' = "init" /\ UNCHANGED initIdx
  /\ UNCHANGED <<conf, plugin, inits, gate, call, loops, broken, complete>>

InitPlugin ==
  /\ broken = "no" /\ initPc = "init"
  /\ PluginInit(initIdx)
  /\ initRval' = IF Initialisable(initIdx) THEN 1 ELSE -1
  /\ initPc' = "load" /\ initIdx' = NextLib(gCustomLibArray, initIdx + 1)
  /\ UNCHANGED <<conf, gPersCustomFuncs, refs, inits, gate, call, loops, broken, hist>>

(* The result is that of the last library.                                 *)
InitEnd ==
  /\ broken = "no" /\ initPc = "load" /\ initIdx = LastEntry
  /\ initPc' = "idle"
  /\ IF initRval < 0
       THEN /\ leaked' = leaked \cup {l \in Libs : refs[l] > 0}
            /\ UNCHANGED <<gPclInitCounter, open, complete>>
       ELSE /\ gPclInitCounter' = 1 /\ open' = TRUE /\ complete' = TRUE
            /\ UNCHANGED leaked
  /\ UNCHANGED <<conf, libs, running, initIdx, initRval, inits, call, loops, broken>>

-----------------------------------------------------------------------------
(* The key-value calls on custom storage (persistence_get_data, _set_data, *)
(* _get_data_size and _delete_data)                                        *)

(* The function whose absence makes the call load the library.             *)
Looked(o) == IF o = "get_data" THEN "get_size" ELSE o

(* pclKeyGetSize does not ask whether access is locked.                    *)
Gated(o) == o # "get_size"

Call(o, i) ==
  /\ broken = "no" /\ pc = "idle" /\ gPclInitCounter > 0
  /\ Gated(o) => open
  /\ Met(loop # "idle" \/ initPc # "idle")
  /\ pc' = "check" /\ op' = o /\ idx' = i
  /\ UNCHANGED <<conf, libs, init, gate, inside, loops, broken, hist>>

(* Mutant: a library that is loaded on demand is always loaded.            *)
CallCheck_AlwaysLoad ==
  /\ broken = "no" /\ pc = "check"
  /\ pc' = CASE gCustomLibArray[idx].loadingType = "od" -> "load"
             [] Looked(op) \in gPersCustomFuncs[idx].functs -> "call"
             [] OTHER -> "idle"
  /\ UNCHANGED <<conf, libs, init, gate, op, idx, inside, loops, broken, hist>>

CallCheck ==
  /\ broken = "no" /\ pc = "check"
  /\ LET functs == gPersCustomFuncs[idx].functs
         type   == gCustomLibArray[idx].loadingType
     IN  pc' = CASE Looked(op) \in functs -> "call"
                 [] Looked(op) \notin functs /\ type = "od" -> "load"
                 [] Looked(op) \notin functs /\ type = "init" /\ op \in functs -> "call"
                 [] OTHER -> "idle"
  /\ UNCHANGED <<conf, libs, init, gate, op, idx, inside, loops, broken, hist>>

CallLoad ==
  /\ broken = "no" /\ pc = "load"
  /\ Dlopen(idx)
  /\ pc' = IF idx # Default /\ OpenResult(idx) = 1 THEN "init" ELSE "idle"
  /\ UNCHANGED <<conf, plugin, init, gate, op, idx, inside, loops, broken, complete>>

CallInit ==
  /\ broken = "no" /\ pc = "init"
  /\ PluginInit(idx)
  /\ pc' = IF Initialisable(idx) /\ op \in gPersCustomFuncs[idx].functs THEN "call" ELSE "idle"
  /\ UNCHANGED <<conf, gPersCustomFuncs, refs, init, gate, op, idx, inside, loops, broken, hist>>

(* The pointer is read once more for the call.                             *)
CallEnter ==
  /\ broken = "no" /\ pc = "call"
  /\ IF op \in gPersCustomFuncs[idx].functs
       THEN pc' = "inside" /\ inside' = gPersCustomFuncs[idx].handle /\ UNCHANGED broken
       ELSE broken' = "null" /\ UNCHANGED <<pc, inside>>
  /\ UNCHANGED <<conf, libs, init, gate, op, idx, loops, hist>>

CallLeave ==
  /\ broken = "no" /\ pc = "inside"
  /\ pc' = "idle" /\ inside' = NULL
  /\ UNCHANGED <<conf, libs, init, gate, op, idx, loops, broken, hist>>

-----------------------------------------------------------------------------
(* process_prepare_shutdown with a full shutdown, on the loop thread       *)

NextLoaded(F, i) ==
  Min({j \in Ids : j >= i /\ "deinit" \in F[j].functs} \cup {LastEntry})

(* The loop over the libraries F goes on at i, or the shutdown is done;    *)
(* that of pclDeinitLibrary ends the loop thread too.                      *)
LoopFrom(F, i) ==
  LET next == NextLoaded(F, i)
  IN  /\ gPersCustomFuncs' = F /\ loopIdx' = next
      /\ loop' = IF next = LastEntry THEN "idle" ELSE "deinit"
      /\ IF initPc = "quit" /\ next = LastEntry
           THEN gPclInitCounter' = 0 /\ running' = FALSE /\ initPc' = "idle"
           ELSE UNCHANGED <<gPclInitCounter, running, initPc>>

(* Asked for by the node state manager or by pclDeinitLibrary.             *)
ShutdownBegin ==
  /\ broken = "no" /\ loop = "idle" /\ running
  /\ Met(pc # "idle" \/ initPc \notin {"idle", "quit"})
  /\ open' = FALSE /\ complete' = FALSE
  /\ LoopFrom(gPersCustomFuncs, 0)
  /\ UNCHANGED <<conf, refs, plugin, initIdx, initRval, inits, call, broken, leaked>>

ShutdownDeinit ==
  /\ broken = "no" /\ loop = "deinit" /\ loop' = "close"
  /\ LET custom == gPersCustomFuncs[loopIdx]
     IN  IF "deinit" \in custom.functs
           THEN plugin' = [plugin EXCEPT ![custom.handle] = "down"] /\ UNCHANGED broken
           ELSE broken' = "null" /\ UNCHANGED plugin
  /\ UNCHANGED <<conf, gPersCustomFuncs, refs, init, gate, call, loopIdx, hist>>

ShutdownClose ==
  /\ broken = "no" /\ loop = "close" /\ loop' = "invalidate"
  /\ LET handle == gPersCustomFuncs[loopIdx].handle
     IN  refs' = IF handle = NULL THEN refs ELSE [refs EXCEPT ![handle] = @ - 1]
  /\ UNCHANGED <<conf, gPersCustomFuncs, plugin, init, gate, call, loopIdx, broken, hist>>

(* Mutant: the functions stay after dlclose.                               *)
ShutdownInvalidate_Missing ==
  /\ broken = "no" /\ loop = "invalidate"
  /\ LoopFrom(gPersCustomFuncs, loopIdx + 1)
  /\ UNCHANGED <<conf, refs, plugin, initIdx, initRval, inits, open, call, broken, hist>>

ShutdownInvalidate ==
  /\ broken = "no" /\ loop = "invalidate"
  /\ LoopFrom([gPersCustomFuncs EXCEPT ![loopIdx] = NoFuncts], loopIdx + 1)
  /\ UNCHANGED <<conf, refs, plugin, initIdx, initRval, inits, open, call, broken, hist>>

(* pclDeinitLibrary posts the full shutdown and waits for the loop.        *)
DeinitLibrary ==
  /\ broken = "no" /\ initPc = "idle" /\ gPclInitCounter = 1 /\ loop = "idle"
  /\ Met(pc # "idle")
  /\ initPc' = "quit"
  /\ UNCHANGED <<conf, libs, initIdx, initRval, inits, gate, call, loops, broken, hist>>

(* The administration service unblocks access.                             *)
Unblock ==
  /\ broken = "no" /\ ~ open /\ loop = "idle" /\ running
  /\ open' = TRUE
  /\ UNCHANGED <<conf, libs, init, gPclInitCounter, running, call, loops, broken, hist>>

(* The steps with which something begins, and the steps of what has begun. *)
BeginStep ==
  \/ \E f \in {NoFile, <<>>} : InitNoFile(f)
  \/ \E f \in Files : InitBegin(f)
  \/ \E o \in Ops, i \in Ids : Call(o, i)
  \/ ShutdownBegin \/ DeinitLibrary

InnerStep ==
  \/ InitLoad \/ InitPlugin \/ InitEnd
  \/ CallCheck \/ CallLoad \/ CallInit \/ CallEnter \/ CallLeave
  \/ ShutdownDeinit \/ ShutdownClose \/ ShutdownInvalidate
  \/ Unblock

Next == BeginStep \/ (InnerStep /\ UNCHANGED overlapped)

Spec == Init /\ [][Next]_vars

-----------------------------------------------------------------------------
(* Properties                                                              *)

Initialised == gPclInitCounter = 1 /\ initPc = "idle"

(* Where the entries of a file begin; what is behind the array is not read. *)
Starts(f) ==
  {k \in DOMAIN f : k % 4 = 1 /\ k + 3 \in DOMAIN f /\ k <= TokenArraySize - 3}

(* Tokens of a longer file read before are left in the token array.        *)
Leftover ==
  \E n \in DOMAIN gpCustomTokenArray : n >= Len(file) /\ gpCustomTokenArray[n] # NULL

(* The library array has every library that the file of this session       *)
(* names, and others only if a longer file has been read before: an entry  *)
(* of an earlier session is not taken over by itself.                      *)
TableIsTheFile ==
  (initPc # "idle" \/ gPclInitCounter = 1) =>
     \A i \in Ids :
        LET named == \E k \in Starts(file) : file[k] = Names[i + 1]
        IN  /\ named => gCustomLibArray[i].valid
            /\ gCustomLibArray[i].valid => (named \/ Leftover)

(* Behind the library array is written only for a name in the file that is *)
(* not predefined, or for what a longer file has left.                     *)
InsideArray ==
  broken = "array" => (Leftover \/ \E k \in Starts(file) : file[k] \notin Range(Names))

(* A null pointer is called only by a read from a library that has         *)
(* plugin_get_size and not plugin_get_data, unless a shutdown meets a call *)
(* or an init: whatever else a library leaves out.                         *)
NoNullCall ==
  (broken = "null" /\ ~ overlapped) =>
     /\ pc = "call" /\ op = "get_data"
     /\ "get_size" \in gPersCustomFuncs[idx].functs
     /\ "get_data" \notin gPersCustomFuncs[idx].functs

(* A library is called only while it is open and, if it has the init       *)
(* function that the file asks for, after its init and before its deinit,  *)
(* across shutdowns and new inits.                                         *)
CallsReadyLibrary ==
  (pc = "inside" /\ ~ overlapped) =>
     refs[inside] > 0 /\ (Initialisable(idx) => plugin[inside] = "ready")

(* Whatever the file says and whichever step of loading fails, the loader  *)
(* stays inside its arrays, and a key call reaches a function of a library *)
(* that is there and ready to be called, but for the named exceptions.     *)
CallsAreSafe == TypeOK /\ InsideArray /\ NoNullCall /\ CallsReadyLibrary

(* Every library with the functions that the calls look for.               *)
Complete == {l \in Libs \ Vars : Ops \cup {"deinit"} \subseteq Exports[l]}

(* Reads, writes, shutdowns and new inits in any order open such a library *)
(* at most once for every entry that has named it; after pclDeinitLibrary  *)
(* it is closed.                                                           *)
OpenedOnce ==
  ~ overlapped =>
     \A l \in Complete \ leaked :
        refs[l] <= IF running THEN Cardinality({i \in Ids : gCustomLibArray[i].libname = l})
                   ELSE 0

(* When pclInitLibrary succeeds every library that can be loaded and is to *)
(* be loaded by it is ready, whatever became of the ones before it, until  *)
(* a shutdown unloads it.                                                  *)
ConfiguredIsReady ==
  (Initialised /\ complete /\ ~ overlapped) =>
     \A i \in Ids \ {Default} :
        (AtInit(gCustomLibArray[i]) /\ Handle(i) # NULL)
          => (InitFunction(i) \in Exports[Handle(i)] => plugin[Handle(i)] = "ready")

(* What the comments of the plugin interface say: an init function is the  *)
(* first, plugin_deinit the last function to be called.                    *)
InitIsFirst  == pc = "inside" => plugin[inside] # "fresh"
DeinitIsLast == pc = "inside" => plugin[inside] # "down"

(* What the loader's comment says: the configuration file decides which    *)
(* libraries are loaded, at init and on demand.                            *)
LoadedIsConfigured ==
  \A i \in Ids : gPersCustomFuncs[i].handle # NULL => gCustomLibArray[i].valid

(* What the description of the file says: the loading type is "init" or    *)
(* "on".                                                                   *)
LoadingTypeUnderstood ==
  \A i \in Ids : gCustomLibArray[i].valid => gCustomLibArray[i].loadingType # "undefined"

(* What the comment of pclInitLibrary says: an error is returned.          *)
ErrorIsReturned ==
  (Initialised /\ complete) =>
     \A i \in Ids : AtInit(gCustomLibArray[i]) => gPersCustomFuncs[i].handle # NULL

=============================================================================

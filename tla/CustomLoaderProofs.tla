------------------------- MODULE CustomLoaderProofs -------------------------
(***************************************************************************)
(* Loading, calling and unloading custom libraries, proved for any table   *)
(* of names, any libraries, any configuration files and any number of      *)
(* sessions.                                                               *)
(***************************************************************************)
EXTENDS CustomLoader, FiniteSetTheorems, WellFoundedInduction, TLAPS

-----------------------------------------------------------------------------
(* The inductive invariant                                                 *)

(* Init and shutdown are at a library of the table.                        *)
IndexInv ==
  /\ initPc = "init" => initIdx \in Ids \ {Default}
  /\ loop # "idle" => loopIdx \in Ids

(* Calls, inits and shutdowns take turns.                                  *)
TurnInv ==
  /\ pc # "idle" => gPclInitCounter = 1 /\ initPc = "idle" /\ loop = "idle"
  /\ loop # "idle" => initPc \in {"idle", "quit"} /\ loopIdx \in Ids /\ running
  /\ initPc \in {"load", "init"} => gPclInitCounter = 0 /\ running
  /\ initPc = "quit" => gPclInitCounter = 1
  /\ gPclInitCounter = 1 => running
  /\ complete => gPclInitCounter = 1 /\ loop = "idle"

(* A library that is loaded is the one its entry names, with the functions *)
(* that it exports; the default library has none of its own.               *)
LoadedAt(i) ==
  \/ gPersCustomFuncs[i] = NoFuncts
  \/ /\ Handle(i) # NULL
     /\ gPersCustomFuncs[i] = [handle |-> Handle(i),
                               functs |-> IF i = Default THEN {} ELSE Exports[Handle(i)]]

LoadedInv ==
  /\ \A i \in Ids : LoadedAt(i)
  /\ initPc = "init" => initIdx \in Ids \ {Default} /\ gPersCustomFuncs[initIdx].handle # NULL
  /\ pc = "init" => idx # Default /\ gPersCustomFuncs[idx].handle # NULL

(* A shutdown has unloaded what it has passed, and is at what it can       *)
(* unload.                                                                 *)
PassedInv ==
  loop # "idle" =>
    /\ "deinit" \in gPersCustomFuncs[loopIdx].functs
    /\ \A j \in Ids : j < loopIdx => "deinit" \notin gPersCustomFuncs[j].functs

(* The places of the array that hold a library open.                       *)
Holders(lib) ==
  {i \in Ids : gPersCustomFuncs[i].handle = lib /\ ~ (loop = "invalidate" /\ i = loopIdx)}

(* Every one of them has opened it.                                        *)
RefsInv == \A lib \in Libs : Cardinality(Holders(lib)) <= refs[lib]

IInv ==
  /\ TypeOK /\ IndexInv /\ RefsInv
  /\ ~ overlapped => TurnInv /\ LoadedInv /\ PassedInv

(* What an init has passed is ready, and stays so until it is unloaded.    *)
IsReady(i) ==
  (AtInit(gCustomLibArray[i]) /\ Handle(i) # NULL)
    => (InitFunction(i) \in Exports[Handle(i)] => plugin[Handle(i)] = "ready")

ConfiguredInv ==
  /\ initPc \in {"load", "init"} => \A i \in Ids \ {Default} : i < initIdx => IsReady(i)
  /\ complete => \A i \in Ids \ {Default} : IsReady(i)

(* The array of this session comes from its file, or from what is left of  *)
(* a longer one.                                                           *)
FileInv ==
  (initPc # "idle" \/ gPclInitCounter = 1) =>
    /\ file \in Files
    /\ \A i \in Ids :
         /\ (\E k \in Starts(file) : file[k] = Names[i + 1]) => gCustomLibArray[i].valid
         /\ gCustomLibArray[i].valid
              => (\E k \in Starts(file) : file[k] = Names[i + 1]) \/ Leftover

TableInv == FileInv /\ InsideArray

(* Some place of the array waits for the init of its library, or for the   *)
(* end of the shutdown that unloads it.                                    *)
Pending(i) ==
  \/ initPc = "init" /\ i = initIdx
  \/ pc = "init" /\ i = idx
  \/ loop # "idle" /\ "deinit" \in gPersCustomFuncs[i].functs

(* The library of any other place is ready, if it can be initialised.      *)
ReadyAt(i) ==
  \/ gPersCustomFuncs[i].handle = NULL
  \/ Pending(i)
  \/ Initialisable(i) => plugin[gPersCustomFuncs[i].handle] = "ready"

(* The call is about to enter a function that is there, or get_data of a   *)
(* library that has get_size.                                              *)
EnterInv ==
  LET functs == gPersCustomFuncs[idx].functs
  IN  /\ pc = "call" => op \in functs \/ (op = "get_data" /\ "get_size" \in functs)
      /\ pc = "inside" => op \in functs /\ inside = gPersCustomFuncs[idx].handle

ReadyInv == (\A i \in Ids \ {Default} : ReadyAt(i)) /\ EnterInv /\ NoNullCall

(* Every place that holds the library has opened it once, and none does    *)
(* between two sessions.                                                   *)
OpenAt(lib) ==
  /\ refs[lib] = Cardinality(Holders(lib))
  /\ gPersCustomFuncs[Default].handle # lib
  /\ gPclInitCounter = 0 /\ initPc = "idle" => \A i \in Ids : gPersCustomFuncs[i].handle # lib

(* Nothing is opened twice: an init has yet to open what is ahead of it,   *)
(* a call opens what is not there.                                         *)
OpenInv ==
  /\ initPc \in {"load", "init"} =>
       \A i \in Ids : i > initIdx \/ (i = initIdx /\ initPc = "load")
                        => gPersCustomFuncs[i].handle = NULL
  /\ pc = "load" => Looked(op) \notin gPersCustomFuncs[idx].functs
  /\ \A lib \in Complete \ leaked : OpenAt(lib)

-----------------------------------------------------------------------------
(* Operators                                                               *)

(* There is a library, and the default one is the first.                   *)
LEMMA IdFacts ==
  /\ LastEntry \in Nat /\ LastEntry >= 1 /\ Default \in Ids
  /\ \A i \in Ids : i \in Nat /\ i < LastEntry /\ i + 1 \in DOMAIN Names
  /\ IsFiniteSet(Ids)
<1>1. Len(Names) \in Nat /\ Len(Names) >= 1 /\ DOMAIN Names = 1 .. Len(Names)
  BY LoaderAssumption
<1>2. IsFiniteSet(0 .. Len(Names) - 1)
  BY <1>1, FS_Interval
<1> QED
  BY <1>1, <1>2 DEF LastEntry, Ids, Default

(* Every set of natural numbers that is not empty has a least element.     *)
LEMMA MinSpec ==
  ASSUME NEW S \in SUBSET Nat, S # {}
  PROVE  Min(S) \in S /\ \A y \in S : Min(S) <= y
<1> DEFINE R == OpToRel(<, Nat)
<1>1. \A x, y \in Nat : <<x, y>> \in R <=> x < y
  BY DEF OpToRel
<1>2. IsWellFoundedOn(R, Nat)
  BY NatLessThanWellFounded
<1>3. S \subseteq Nat
  OBVIOUS
<1> HIDE DEF R
<1>4. PICK x \in S : \A y \in S : ~ (<<y, x>> \in R)
  BY <1>2, <1>3, WFMin
<1>5. \A y \in S : ~ (y < x)
  BY <1>1, <1>3, <1>4
<1>6. \E z \in S : \A y \in S : z =< y
  BY <1>3, <1>4, <1>5
<1> QED
  BY <1>6, Zenon DEF Min

(* One that is bounded has a greatest.                                     *)
LEMMA MaxSpec ==
  ASSUME NEW n \in Nat, NEW S \in SUBSET (0 .. n), S # {}
  PROVE  Max(S) \in S /\ \A y \in S : Max(S) >= y
<1> DEFINE U == {b \in Nat : \A y \in S : y <= b}
           m == Min(U)
<1>1. n \in U /\ U \in SUBSET Nat
  OBVIOUS
<1>2. m \in U /\ \A u \in U : m <= u
  BY <1>1, MinSpec
<1> HIDE DEF m
<1>3. m \in S
  <2> SUFFICES ASSUME m \notin S PROVE FALSE
    OBVIOUS
  <2>1. \A y \in S : y <= m - 1 /\ y >= 0
    BY <1>2
  <2>2. PICK z \in S : TRUE
    OBVIOUS
  <2>3. m - 1 \in Nat
    BY <1>2, <2>1, <2>2
  <2>4. m - 1 \in U
    BY <2>1, <2>3
  <2> QED
    BY <1>2, <2>4
<1>4. \E z \in S : \A y \in S : z >= y
  BY <1>2, <1>3
<1> QED
  BY <1>4, Zenon DEF Max

(* NextLib finds the first library that is to be loaded.                   *)
LEMMA NextLibSpec ==
  ASSUME NEW A, NEW i \in 0 .. LastEntry
  PROVE  /\ NextLib(A, i) \in i .. LastEntry
         /\ NextLib(A, i) # LastEntry => AtInit(A[NextLib(A, i)])
         /\ \A j \in i .. NextLib(A, i) - 1 : ~ AtInit(A[j])
<1> DEFINE S == {j \in Ids : j >= i /\ AtInit(A[j])} \cup {LastEntry}
<1>1. S \in SUBSET Nat /\ S # {}
  BY IdFacts
<1>2. Min(S) \in S /\ \A y \in S : Min(S) <= y
  BY <1>1, MinSpec
<1>3. NextLib(A, i) = Min(S)
  BY DEF NextLib
<1>4. Min(S) \in i .. LastEntry
  BY <1>2, IdFacts DEF Ids
<1>5. ASSUME NEW j \in i .. Min(S) - 1 PROVE ~ AtInit(A[j])
  BY <1>2, <1>4, IdFacts DEF Ids
<1> QED
  BY <1>2, <1>3, <1>4, <1>5

(* NextLoaded finds the first library that has a deinit.                   *)
LEMMA NextLoadedSpec ==
  ASSUME NEW F, NEW i \in 0 .. LastEntry
  PROVE  /\ NextLoaded(F, i) \in i .. LastEntry
         /\ NextLoaded(F, i) # LastEntry => "deinit" \in F[NextLoaded(F, i)].functs
         /\ \A j \in i .. NextLoaded(F, i) - 1 : "deinit" \notin F[j].functs
<1> DEFINE S == {j \in Ids : j >= i /\ "deinit" \in F[j].functs} \cup {LastEntry}
<1>1. S \in SUBSET Nat /\ S # {}
  BY IdFacts
<1>2. Min(S) \in S /\ \A y \in S : Min(S) <= y
  BY <1>1, MinSpec
<1>3. NextLoaded(F, i) = Min(S)
  BY DEF NextLoaded
<1>4. Min(S) \in i .. LastEntry
  BY <1>2, IdFacts DEF Ids
<1>5. ASSUME NEW j \in i .. Min(S) - 1 PROVE "deinit" \notin F[j].functs
  BY <1>2, <1>4, IdFacts DEF Ids
<1> QED
  BY <1>2, <1>3, <1>4, <1>5

TokenArrays == [0 .. TokenArraySize - 1 -> Tokens \cup {NULL}]

(* An entry that get_custom_libraries looks at is inside the token array.  *)
LEMMA EntriesSpec ==
  ASSUME NEW T \in TokenArrays, NEW e \in Entries(T)
  PROVE  /\ e \in 0 .. TokenArraySize - 4 /\ e % 4 = 0
         /\ \A n \in 0 .. e + 3 : T[n] # NULL
<1> DEFINE m == (TokenArraySize - 3) \div 4
<1>1. m \in Nat /\ TokenArraySize = 4 * m + 3 /\ TokenArraySize \in Nat
  BY LoaderAssumption
<1>2. PICK d \in 0 .. m - 1 :
        e = 4 * d /\ \A c \in 0 .. d : \A k \in 0 .. 3 : T[4 * c + k] # NULL
  BY DEF Entries
<1> HIDE DEF m
<1>3. ASSUME NEW n \in 0 .. e + 3 PROVE T[n] # NULL
  <2> DEFINE c == n \div 4
             k == n % 4
  <2>1. c \in 0 .. d /\ k \in 0 .. 3 /\ n = 4 * c + k
    BY <1>2
  <2> HIDE DEF c, k
  <2> QED
    BY <1>2, <2>1
<1> QED
  BY <1>1, <1>2, <1>3

(* Every entry that is complete is looked at.                              *)
LEMMA EntriesAll ==
  ASSUME NEW T \in TokenArrays, NEW e \in Nat, e % 4 = 0, e + 7 <= TokenArraySize,
         \A n \in 0 .. e + 3 : T[n] # NULL
  PROVE  e \in Entries(T)
<1> DEFINE m == (TokenArraySize - 3) \div 4
           d == e \div 4
<1>1. m \in Nat /\ TokenArraySize = 4 * m + 3
  BY LoaderAssumption
<1>2. d \in 0 .. m - 1 /\ e = 4 * d
  BY <1>1
<1> HIDE DEF d
<1>3. \A c \in 0 .. d : \A k \in 0 .. 3 : 4 * c + k \in 0 .. e + 3
  BY <1>2
<1> QED
  BY <1>2, <1>3 DEF Entries

LibInfo == [libname : Tokens \cup {NULL}, valid : BOOLEAN,
            loadingType : {"init", "od", "undefined"},
            initFunction : {"sync", "async", "undefined"}]

(* What get_custom_libraries makes of an entry that starts at e.           *)
InfoAt(T, e) ==
  [libname      |-> T[e + 1], valid |-> TRUE,
   loadingType  |-> Known(T[e + 2], {"init", "od"}),
   initFunction |-> Known(T[e + 3], {"sync", "async"})]

(* A library without an entry keeps all but its valid flag, any other one  *)
(* is what one of its entries says.                                        *)
LEMMA LibrariesSpec ==
  ASSUME TypeOK, NEW T \in TokenArrays, NEW i \in Ids
  PROVE  \/ /\ \A e \in Entries(T) : CustomClientNameToId(T[e]) # i
            /\ GetCustomLibraries(T)[i] = [gCustomLibArray[i] EXCEPT !.valid = FALSE]
         \/ \E e \in Entries(T) : /\ CustomClientNameToId(T[e]) = i
                                  /\ GetCustomLibraries(T)[i] = InfoAt(T, e)
<1> DEFINE mine == {e \in Entries(T) : CustomClientNameToId(T[e]) = i}
           last == Max(mine)
<1>1. GetCustomLibraries(T)[i] = IF mine = {} THEN [gCustomLibArray[i] EXCEPT !.valid = FALSE]
                                 ELSE InfoAt(T, last)
  BY DEF GetCustomLibraries, InfoAt
<1>2. CASE mine = {}
  BY <1>1, <1>2
<1>3. CASE mine # {}
  <2>1. mine \in SUBSET (0 .. TokenArraySize)
    BY EntriesSpec, LoaderAssumption
  <2>2. last \in mine
    BY <1>3, <2>1, MaxSpec, LoaderAssumption
  <2> HIDE DEF last
  <2> QED
    BY <1>1, <1>3, <2>2
<1> QED
  BY <1>2, <1>3

(* The token array and the library array keep their types.                 *)
LEMMA FillType ==
  ASSUME TypeOK, NEW f \in Files
  PROVE  FillCustomCharTokenArray(f) \in TokenArrays
<1>1. f \in Seq(Range(f)) /\ gpCustomTokenArray \in TokenArrays
  BY LoaderAssumption DEF TypeOK, TokenArrays
<1>2. ASSUME NEW n \in 0 .. TokenArraySize - 1, n < Len(f) PROVE f[n + 1] \in Tokens
  BY <1>1, <1>2, LoaderAssumption DEF Tokens
<1> QED
  BY <1>1, <1>2 DEF FillCustomCharTokenArray, TokenArrays

(* get_custom_libraries makes a table of entries from any token array.     *)
LEMMA LibrariesType ==
  ASSUME TypeOK, NEW T \in TokenArrays
  PROVE  GetCustomLibraries(T) \in [Ids -> LibInfo]
<1>1. ASSUME NEW i \in Ids PROVE GetCustomLibraries(T)[i] \in LibInfo
  <2>1. gCustomLibArray[i] \in LibInfo
    BY DEF TypeOK, LibInfo
  <2>2. ASSUME NEW e \in Entries(T) PROVE InfoAt(T, e) \in LibInfo
    <3>1. e + 1 \in 0 .. TokenArraySize - 1
      BY EntriesSpec, LoaderAssumption
    <3>2. T[e + 1] \in Tokens \cup {NULL}
      BY <3>1 DEF TokenArrays
    <3> QED
      BY <3>2 DEF InfoAt, LibInfo, Known
  <2>3. [gCustomLibArray[i] EXCEPT !.valid = FALSE] \in LibInfo
    BY <2>1 DEF LibInfo
  <2> QED
    BY <2>2, <2>3, LibrariesSpec
<1>2. GetCustomLibraries(T) = [i \in Ids |-> GetCustomLibraries(T)[i]]
  BY DEF GetCustomLibraries
<1> QED
  BY <1>1, <1>2

(* A library that can be opened, or none.                                  *)
LEMMA HandleType == \A i \in Ids : Handle(i) \in Libs \cup {NULL}
  BY DEF Handle

CustomFuncs == [handle : Libs \cup {NULL}, functs : SUBSET Functions]

(* Opening a library changes its own entry and its own counter.            *)
LEMMA DlopenSpec ==
  ASSUME TypeOK, NEW i \in Ids, Dlopen(i)
  PROVE  /\ gPersCustomFuncs' \in [Ids -> CustomFuncs] /\ refs' \in [Libs -> 0 .. MaxRefs]
         /\ \A j \in Ids \ {i} : gPersCustomFuncs'[j] = gPersCustomFuncs[j]
         /\ gPersCustomFuncs'[i].handle = Handle(i)
         /\ gPersCustomFuncs'[i].functs = IF Handle(i) = NULL \/ i = Default
                                            THEN gPersCustomFuncs[i].functs ELSE Exports[Handle(i)]
         /\ \A lib \in Libs : refs'[lib] = IF lib = Handle(i) THEN refs[lib] + 1 ELSE refs[lib]
         /\ leaked' \subseteq Libs /\ leaked \subseteq leaked'
         /\ i = Default => {Handle(i)} \cap Libs \subseteq leaked'
         /\ i # Default => leaked' = leaked
<1>1. gPersCustomFuncs \in [Ids -> CustomFuncs] /\ refs \in [Libs -> 0 .. MaxRefs]
  BY DEF TypeOK, CustomFuncs
<1>2. Handle(i) \in Libs \cup {NULL} /\ NULL \notin Libs /\ MaxRefs \in Nat
      /\ Exports \in [Libs -> SUBSET Functions]
  BY HandleType, LoaderAssumption
<1> DEFINE new == [handle |-> Handle(i),
                   functs |-> IF Handle(i) = NULL \/ i = Default
                                THEN gPersCustomFuncs[i].functs ELSE Exports[Handle(i)]]
<1>3. gPersCustomFuncs' = [gPersCustomFuncs EXCEPT ![i] = new]
  BY DEF Dlopen
<1>4. new \in CustomFuncs
  BY <1>1, <1>2 DEF CustomFuncs
<1>5. gPersCustomFuncs' \in [Ids -> CustomFuncs] /\ gPersCustomFuncs'[i] = new
      /\ \A j \in Ids \ {i} : gPersCustomFuncs'[j] = gPersCustomFuncs[j]
  <2> HIDE DEF new
  <2> QED
    BY <1>1, <1>3, <1>4
<1>6. /\ refs' \in [Libs -> 0 .. MaxRefs]
      /\ \A lib \in Libs : refs'[lib] = IF lib = Handle(i) THEN refs[lib] + 1 ELSE refs[lib]
  BY <1>1, <1>2 DEF Dlopen
<1>7. /\ leaked' \subseteq Libs /\ leaked \subseteq leaked'
      /\ i = Default => {Handle(i)} \cap Libs \subseteq leaked'
      /\ i # Default => leaked' = leaked
  BY DEF Dlopen, TypeOK
<1> QED
  BY <1>5, <1>6, <1>7

(* The loop of a shutdown has gone on, from i.                             *)
GoneOn(i) ==
  /\ loopIdx' \in i .. LastEntry /\ loop' \in {"idle", "deinit"}
  /\ loop' = "idle" <=> loopIdx' = LastEntry
  /\ loop' # "idle" => "deinit" \in gPersCustomFuncs'[loopIdx'].functs
  /\ \A j \in Ids : i <= j /\ j < loopIdx' => "deinit" \notin gPersCustomFuncs'[j].functs
  /\ \/ /\ initPc = "quit" /\ loop' = "idle"
        /\ gPclInitCounter' = 0 /\ running' = FALSE /\ initPc' = "idle"
     \/ /\ ~ (initPc = "quit" /\ loop' = "idle")
        /\ gPclInitCounter' = gPclInitCounter /\ running' = running /\ initPc' = initPc

(* It starts at the first library.                                         *)
LEMMA BeginSpec ==
  ASSUME ShutdownBegin
  PROVE  gPersCustomFuncs' = gPersCustomFuncs /\ GoneOn(0)
<1> DEFINE next == NextLoaded(gPersCustomFuncs, 0)
<1>1. /\ next \in 0 .. LastEntry /\ (next # LastEntry => "deinit" \in gPersCustomFuncs[next].functs)
      /\ \A j \in 0 .. next - 1 : "deinit" \notin gPersCustomFuncs[j].functs
  BY NextLoadedSpec, IdFacts
<1>2. /\ gPersCustomFuncs' = gPersCustomFuncs /\ loopIdx' = next
      /\ loop' = IF next = LastEntry THEN "idle" ELSE "deinit"
      /\ IF initPc = "quit" /\ next = LastEntry
           THEN gPclInitCounter' = 0 /\ running' = FALSE /\ initPc' = "idle"
           ELSE UNCHANGED <<gPclInitCounter, running, initPc>>
  BY DEF ShutdownBegin, LoopFrom
<1> HIDE DEF next
<1> QED
  BY <1>1, <1>2, IdFacts DEF GoneOn

(* When one is unloaded it goes on behind it.                              *)
LEMMA InvalidateSpec ==
  ASSUME TypeOK, IndexInv, ShutdownInvalidate
  PROVE  /\ loopIdx \in Ids
         /\ gPersCustomFuncs' = [gPersCustomFuncs EXCEPT ![loopIdx] = NoFuncts]
         /\ GoneOn(loopIdx + 1)
<1> DEFINE F == [gPersCustomFuncs EXCEPT ![loopIdx] = NoFuncts]
           next == NextLoaded(F, loopIdx + 1)
<1>1. loopIdx \in Ids /\ loopIdx + 1 \in 0 .. LastEntry
  BY IdFacts DEF ShutdownInvalidate, IndexInv, Ids
<1>2. /\ next \in loopIdx + 1 .. LastEntry /\ (next # LastEntry => "deinit" \in F[next].functs)
      /\ \A j \in loopIdx + 1 .. next - 1 : "deinit" \notin F[j].functs
  <2> HIDE DEF F
  <2> QED
    BY <1>1, NextLoadedSpec
<1>3. /\ gPersCustomFuncs' = F /\ loopIdx' = next
      /\ loop' = IF next = LastEntry THEN "idle" ELSE "deinit"
      /\ IF initPc = "quit" /\ next = LastEntry
           THEN gPclInitCounter' = 0 /\ running' = FALSE /\ initPc' = "idle"
           ELSE UNCHANGED <<gPclInitCounter, running, initPc>>
  BY DEF ShutdownInvalidate, LoopFrom
<1> HIDE DEF next
<1>4. GoneOn(loopIdx + 1)
  <2> HIDE DEF F
  <2> QED
    BY <1>1, <1>2, <1>3, IdFacts DEF GoneOn
<1> QED
  BY <1>1, <1>3, <1>4

-----------------------------------------------------------------------------
(* The invariant is inductive                                              *)

(* While shutdowns, calls and inits have not met, none meets another.      *)
LEMMA Apart ==
  ASSUME ~ overlapped', [Next]_vars
  PROVE  /\ ~ overlapped
         /\ (\E f \in {NoFile, <<>>} : InitNoFile(f)) => loop = "idle"
         /\ (\E f \in Files : InitBegin(f)) => loop = "idle"
         /\ (\E o \in Ops, i \in Ids : Call(o, i)) => loop = "idle" /\ initPc = "idle"
         /\ ShutdownBegin => pc = "idle" /\ initPc \in {"idle", "quit"}
         /\ DeinitLibrary => pc = "idle"
<1>1. ASSUME NEW f, InitNoFile(f) PROVE ~ overlapped /\ loop = "idle"
  BY <1>1, Zenon DEF InitNoFile, Met
<1>2. ASSUME NEW f, InitBegin(f) PROVE ~ overlapped /\ loop = "idle"
  BY <1>2, Zenon DEF InitBegin, Met
<1>3. ASSUME NEW o, NEW i, Call(o, i) PROVE ~ overlapped /\ loop = "idle" /\ initPc = "idle"
  BY <1>3, Zenon DEF Call, Met
<1>4. ASSUME ShutdownBegin PROVE ~ overlapped /\ pc = "idle" /\ initPc \in {"idle", "quit"}
  BY <1>4, Zenon DEF ShutdownBegin, Met
<1>5. ASSUME DeinitLibrary PROVE ~ overlapped /\ pc = "idle"
  BY <1>5, Zenon DEF DeinitLibrary, Met
<1>6. ASSUME UNCHANGED overlapped PROVE ~ overlapped
  BY <1>6, Zenon
<1>7. UNCHANGED vars => UNCHANGED overlapped
  BY DEF vars
<1>8. ~ overlapped
  BY <1>1, <1>2, <1>3, <1>4, <1>5, <1>6, <1>7, Zenon DEF Next, BeginStep
<1> QED
  BY <1>1, <1>2, <1>3, <1>4, <1>5, <1>8, Zenon

(* What holds a library is a finite set, and has it open.                  *)
LEMMA HoldersSpec ==
  ASSUME TypeOK, RefsInv, NEW lib \in Libs
  PROVE  /\ IsFiniteSet(Holders(lib)) /\ Cardinality(Holders(lib)) \in Nat
         /\ Holders(lib) # {} => refs[lib] >= 1
<1>1. IsFiniteSet(Holders(lib))
  BY IdFacts, FS_Subset DEF Holders
<1>2. Cardinality(Holders(lib)) \in Nat /\ (Cardinality(Holders(lib)) = 0 <=> Holders(lib) = {})
  BY <1>1, FS_CardinalityType, FS_EmptySet
<1>3. Cardinality(Holders(lib)) <= refs[lib] /\ refs[lib] \in 0 .. MaxRefs
  BY DEF RefsInv, TypeOK
<1> QED
  BY <1>1, <1>2, <1>3, LoaderAssumption

(* Initially nothing is loaded.                                            *)
LEMMA IInvInit == ASSUME Init PROVE IInv
<1>1. TypeOK
  <2>1. /\ gpCustomTokenArray \in TokenArrays /\ gCustomLibArray \in [Ids -> LibInfo]
        /\ gPersCustomFuncs \in [Ids -> CustomFuncs]
    BY DEF Init, TokenArrays, LibInfo, CustomFuncs, NoInfo, NoFuncts
  <2>2. /\ refs \in [Libs -> 0 .. MaxRefs] /\ plugin \in [Libs -> {"fresh", "ready", "down"}]
        /\ inits \in 0 .. MaxInits
    BY LoaderAssumption DEF Init
  <2>3. 0 \in 0 .. LastEntry /\ 0 \in Ids /\ "get_size" \in Ops /\ 0 \in -1 .. 1 /\ 0 \in 0 .. 1
    BY IdFacts DEF Default, Ops
  <2> QED
    BY <2>1, <2>2, <2>3 DEF Init, TypeOK, TokenArrays, LibInfo, CustomFuncs
<1>2. IndexInv /\ TurnInv /\ LoadedInv /\ PassedInv
  BY DEF Init, IndexInv, TurnInv, LoadedInv, LoadedAt, PassedInv, NoFuncts
<1>3. RefsInv
  <2>1. ASSUME NEW lib \in Libs PROVE Holders(lib) = {} /\ refs[lib] = 0
    BY LoaderAssumption DEF Init, Holders, NoFuncts
  <2> QED
    BY <2>1, FS_EmptySet DEF RefsInv
<1> QED
  BY <1>1, <1>2, <1>3 DEF IInv

(* Every variable keeps its type.                                          *)
LEMMA TypeStep == ASSUME IInv, [Next]_vars PROVE TypeOK'
<1> USE DEF IInv
<1>b. overlapped' \in BOOLEAN
  <2>1. ASSUME UNCHANGED overlapped PROVE overlapped' \in BOOLEAN
    BY <2>1, Zenon DEF TypeOK
  <2>2. ASSUME BeginStep PROVE overlapped' \in BOOLEAN
    BY <2>2, Zenon DEF BeginStep, InitNoFile, InitBegin, Call, ShutdownBegin, DeinitLibrary, Met
  <2>3. UNCHANGED vars => UNCHANGED overlapped
    BY DEF vars
  <2> QED
    BY <2>1, <2>2, <2>3, Zenon DEF Next
<1>f. /\ LastEntry \in Nat /\ LastEntry >= 1 /\ NULL \notin Libs
      /\ {MaxInits, MaxRefs} \subseteq Nat
      /\ Ids = 0 .. LastEntry - 1
  BY IdFacts, LoaderAssumption DEF Ids
<1>1. ASSUME NEW f \in {NoFile, <<>>}, InitNoFile(f) PROVE TypeOK'
  <2>1. gCustomLibArray' \in [Ids -> LibInfo]
    BY ZenonT(40), <1>b, <1>1 DEF InitNoFile, TypeOK, LibInfo
  <2>2. inits' \in 0 .. MaxInits
    BY <1>b, <1>1, <1>f DEF InitNoFile, TypeOK
  <2> QED
    BY <1>b, <1>1, <2>1, <2>2 DEF InitNoFile, TypeOK, LibInfo, libs, call, loops, hist
<1>2. ASSUME NEW f \in Files, InitBegin(f) PROVE TypeOK'
  <2> DEFINE T == FillCustomCharTokenArray(f)
             A == GetCustomLibraries(T)
  <2>1. T \in TokenArrays /\ A \in [Ids -> LibInfo]
    BY FillType, LibrariesType
  <2>2. NextLib(A, 0) \in 0 .. LastEntry
    BY <1>f, NextLibSpec
  <2>3. gpCustomTokenArray' = T /\ gCustomLibArray' = A /\ initIdx' = NextLib(A, 0)
    BY <1>2 DEF InitBegin
  <2> HIDE DEF A, T
  <2>4. /\ gpCustomTokenArray' \in TokenArrays /\ gCustomLibArray' \in [Ids -> LibInfo]
        /\ initIdx' \in 0 .. LastEntry
    BY <2>1, <2>2, <2>3
  <2> QED
    BY <1>b, <1>2, <1>f, <2>4 DEF InitBegin, TypeOK, TokenArrays, LibInfo, NoFuncts, call,
                                   loops, hist
<1>3. ASSUME InitLoad PROVE TypeOK'
  <2>1. initIdx \in Ids /\ initIdx + 1 \in 0 .. LastEntry
    BY <1>b, <1>3, <1>f DEF InitLoad, TypeOK
  <2>2. NextLib(gCustomLibArray, initIdx + 1) \in 0 .. LastEntry
    BY <2>1, NextLibSpec, <1>f
  <2>3. /\ gPersCustomFuncs' \in [Ids -> CustomFuncs] /\ refs' \in [Libs -> 0 .. MaxRefs]
        /\ leaked' \subseteq Libs
    BY <1>3, <2>1, DlopenSpec DEF InitLoad
  <2>4. initRval' \in -1 .. 1
    BY <1>3 DEF InitLoad, OpenResult
  <2>5. initPc' \in {"load", "init"} /\ initIdx' \in 0 .. LastEntry
    BY <1>b, <1>3, <2>2 DEF InitLoad, TypeOK
  <2> QED
    BY <1>b, <1>3, <2>3, <2>4, <2>5
    DEF InitLoad, TypeOK, CustomFuncs, conf, gate, call, loops, hist
<1>4. ASSUME InitPlugin PROVE TypeOK'
  <2>1. initIdx \in Ids /\ initIdx + 1 \in 0 .. LastEntry
    BY <1>4, <1>f DEF InitPlugin, IndexInv
  <2>2. NextLib(gCustomLibArray, initIdx + 1) \in 0 .. LastEntry
    BY <2>1, NextLibSpec, <1>f
  <2>3. plugin' \in [Libs -> {"fresh", "ready", "down"}]
    BY <1>b, <1>4 DEF InitPlugin, PluginInit, TypeOK
  <2> QED
    BY <1>b, <1>4, <2>2, <2>3 DEF InitPlugin, TypeOK, conf, gate, call, loops, hist
<1>5. ASSUME InitEnd PROVE TypeOK'
  <2>1. CASE initRval < 0
    BY <1>b, <1>5, <2>1 DEF InitEnd, TypeOK, conf, libs, call, loops
  <2>2. CASE ~ (initRval < 0)
    BY <1>b, <1>5, <2>2 DEF InitEnd, TypeOK, conf, libs, call, loops
  <2> QED
    BY <2>1, <2>2
<1>6. ASSUME NEW o \in Ops, NEW i \in Ids, Call(o, i) PROVE TypeOK'
  BY <1>b, <1>6 DEF Call, TypeOK, conf, libs, init, gate, loops, hist
<1>7. ASSUME CallCheck PROVE TypeOK'
  <2>1. pc' \in {"call", "load", "idle"}
    BY <1>7 DEF CallCheck
  <2> QED
    BY <1>b, <1>7, <2>1 DEF CallCheck, TypeOK, conf, libs, init, gate, loops, hist
<1>8. ASSUME CallLoad PROVE TypeOK'
  <2>1. /\ gPersCustomFuncs' \in [Ids -> CustomFuncs] /\ refs' \in [Libs -> 0 .. MaxRefs]
        /\ leaked' \subseteq Libs
    BY <1>b, <1>8, DlopenSpec DEF CallLoad, TypeOK
  <2> QED
    BY <1>b, <1>8, <2>1 DEF CallLoad, TypeOK, CustomFuncs, conf, init, gate, loops, hist
<1>9. ASSUME CallInit PROVE TypeOK'
  <2>1. plugin' \in [Libs -> {"fresh", "ready", "down"}]
    BY <1>b, <1>9 DEF CallInit, PluginInit, TypeOK
  <2> QED
    BY <1>b, <1>9, <2>1 DEF CallInit, TypeOK, conf, init, gate, loops, hist
<1>10. ASSUME CallEnter PROVE TypeOK'
  BY <1>b, <1>10 DEF CallEnter, TypeOK, conf, libs, init, gate, loops, hist
<1>11. ASSUME CallLeave PROVE TypeOK'
  BY <1>b, <1>11 DEF CallLeave, TypeOK, conf, libs, init, gate, loops, hist
<1>12. ASSUME ShutdownBegin PROVE TypeOK'
  <2>1. gPersCustomFuncs' = gPersCustomFuncs /\ GoneOn(0)
    BY <1>12, BeginSpec
  <2>2. loopIdx' \in 0 .. LastEntry /\ loop' \in {"idle", "deinit"}
    BY <2>1 DEF GoneOn
  <2>3. gPclInitCounter' \in 0 .. 1 /\ running' \in BOOLEAN
        /\ initPc' \in {"idle", "load", "init", "quit"}
    <3>1. gPclInitCounter \in 0 .. 1 /\ running \in BOOLEAN
          /\ initPc \in {"idle", "load", "init", "quit"}
      BY DEF TypeOK
    <3>2. CASE initPc = "quit" /\ loop' = "idle"
      <4>1. gPclInitCounter' = 0 /\ running' = FALSE /\ initPc' = "idle"
        BY <2>1, <3>2 DEF GoneOn
      <4>2. running' \in BOOLEAN
        BY <4>1, Zenon
      <4> QED
        BY <4>1, <4>2
    <3>3. CASE ~ (initPc = "quit" /\ loop' = "idle")
      BY <2>1, <3>1, <3>3 DEF GoneOn
    <3> QED
      BY <3>2, <3>3
  <2> QED
    BY <1>b, <1>12, <2>1, <2>2, <2>3 DEF ShutdownBegin, TypeOK, conf, call
<1>13. ASSUME ShutdownDeinit PROVE TypeOK'
  <2>1. plugin' \in [Libs -> {"fresh", "ready", "down"}]
    BY <1>b, <1>13 DEF ShutdownDeinit, TypeOK
  <2> QED
    BY <1>b, <1>13, <2>1 DEF ShutdownDeinit, TypeOK, conf, init, gate, call, hist
<1>14. ASSUME ShutdownClose PROVE TypeOK'
  <2> DEFINE handle == gPersCustomFuncs[loopIdx].handle
  <2>1. loopIdx \in Ids /\ handle \in Libs \cup {NULL}
    BY <1>b, <1>14 DEF ShutdownClose, IndexInv, TypeOK
  <2>2. refs' \in [Libs -> 0 .. MaxRefs]
    <3>1. CASE handle = NULL
      BY <1>b, <1>14, <3>1 DEF ShutdownClose, TypeOK
    <3>2. CASE handle # NULL
      <4>1. handle \in Libs /\ loopIdx \in Holders(handle)
        BY <1>14, <2>1, <3>2 DEF ShutdownClose, Holders
      <4>2. refs[handle] >= 1
        BY <4>1, HoldersSpec
      <4>3. refs' = [refs EXCEPT ![handle] = @ - 1]
        BY <1>14, <3>2 DEF ShutdownClose
      <4> QED
        BY <1>b, <4>1, <4>2, <4>3, <1>f DEF TypeOK
    <3> QED
      BY <3>1, <3>2
  <2> QED
    BY <1>b, <1>14, <2>2 DEF ShutdownClose, TypeOK, conf, init, gate, call, hist
<1>15. ASSUME ShutdownInvalidate PROVE TypeOK'
  <2> DEFINE F == [gPersCustomFuncs EXCEPT ![loopIdx] = NoFuncts]
  <2>1. loopIdx \in Ids /\ gPersCustomFuncs' = F /\ GoneOn(loopIdx + 1)
    BY <1>15, InvalidateSpec
  <2>2. F \in [Ids -> CustomFuncs]
    BY <1>b, <2>1 DEF TypeOK, CustomFuncs, NoFuncts
  <2> HIDE DEF F
  <2>3. loopIdx' \in 0 .. LastEntry /\ loop' \in {"idle", "deinit"}
    BY <1>f, <2>1 DEF GoneOn
  <2>4. gPclInitCounter' \in 0 .. 1 /\ running' \in BOOLEAN
        /\ initPc' \in {"idle", "load", "init", "quit"}
    <3>1. gPclInitCounter \in 0 .. 1 /\ running \in BOOLEAN
          /\ initPc \in {"idle", "load", "init", "quit"}
      BY DEF TypeOK
    <3>2. CASE initPc = "quit" /\ loop' = "idle"
      <4>1. gPclInitCounter' = 0 /\ running' = FALSE /\ initPc' = "idle"
        BY <2>1, <3>2 DEF GoneOn
      <4>2. running' \in BOOLEAN
        BY <4>1, Zenon
      <4> QED
        BY <4>1, <4>2
    <3>3. CASE ~ (initPc = "quit" /\ loop' = "idle")
      BY <2>1, <3>1, <3>3 DEF GoneOn
    <3> QED
      BY <3>2, <3>3
  <2> QED
    BY <1>b, <1>15, <2>1, <2>2, <2>3, <2>4 DEF ShutdownInvalidate, TypeOK, CustomFuncs, conf,
                                            call, hist
<1>16. ASSUME DeinitLibrary PROVE TypeOK'
  BY <1>b, <1>16 DEF DeinitLibrary, TypeOK, conf, libs, gate, call, loops, hist
<1>17. ASSUME Unblock PROVE TypeOK'
  BY <1>b, <1>17 DEF Unblock, TypeOK, conf, libs, init, call, loops, hist
<1>18. ASSUME UNCHANGED vars PROVE TypeOK'
  BY <1>b, <1>18 DEF vars, TypeOK, conf, libs, init, gate, call, loops, hist
<1> HIDE DEF IInv
<1> QED
  BY <1>1, <1>2, <1>3, <1>4, <1>5, <1>6, <1>7, <1>8, <1>9, <1>10, <1>11, <1>12, <1>13,
     <1>14, <1>15, <1>16, <1>17, <1>18 DEF Next, BeginStep, InnerStep

(* Init and shutdown stay at a library of the table.                       *)
LEMMA IndexStep == ASSUME IInv, [Next]_vars PROVE IndexInv'
<1>f. TypeOK /\ IndexInv /\ LastEntry \in Nat /\ Ids = 0 .. LastEntry - 1
  BY IdFacts DEF IInv, Ids
<1>1. ASSUME InitLoad PROVE IndexInv'
  BY <1>1, <1>f DEF InitLoad, IndexInv, TypeOK, loops
<1>2. ASSUME ShutdownBegin PROVE IndexInv'
  <2>1. GoneOn(0) /\ initIdx' = initIdx
    BY <1>2, BeginSpec DEF ShutdownBegin
  <2> QED
    BY <1>f, <2>1 DEF IndexInv, GoneOn
<1>3. ASSUME ShutdownInvalidate PROVE IndexInv'
  <2>1. GoneOn(loopIdx + 1) /\ loopIdx \in Ids /\ initIdx' = initIdx
    BY <1>3, <1>f, InvalidateSpec DEF ShutdownInvalidate
  <2> QED
    BY <1>f, <2>1 DEF IndexInv, GoneOn
<1>4. ASSUME \/ \E f \in {NoFile, <<>>} : InitNoFile(f)
             \/ \E f \in Files : InitBegin(f)
             \/ InitPlugin \/ InitEnd
             \/ \E o \in Ops, i \in Ids : Call(o, i)
             \/ CallCheck \/ CallLoad \/ CallInit \/ CallEnter \/ CallLeave
             \/ ShutdownDeinit \/ ShutdownClose \/ DeinitLibrary \/ Unblock \/ UNCHANGED vars
      PROVE  IndexInv'
  <2>1. /\ initPc' = "init" => initPc = "init" /\ initIdx' = initIdx
        /\ loop' # "idle" => loop # "idle" /\ loopIdx' = loopIdx
    BY <1>4 DEF InitNoFile, InitBegin, InitPlugin, InitEnd, Call, CallCheck, CallLoad, CallInit,
       CallEnter, CallLeave, ShutdownDeinit, ShutdownClose, DeinitLibrary, Unblock, vars, init,
       loops
  <2> QED
    BY <1>f, <2>1 DEF IndexInv
<1> QED
  BY <1>1, <1>2, <1>3, <1>4 DEF Next, BeginStep, InnerStep

(* Calls, inits and shutdowns go on taking turns.                          *)
LEMMA TurnStep == ASSUME ~ overlapped', IInv, [Next]_vars PROVE TurnInv'
<1>f. TypeOK /\ IndexInv /\ TurnInv /\ LoadedInv /\ LastEntry \in Nat /\ Ids = 0 .. LastEntry - 1
  BY IdFacts, Apart DEF IInv, Ids
<1>1. ASSUME NEW f \in {NoFile, <<>>}, InitNoFile(f) PROVE TurnInv'
  BY <1>1, <1>f, Apart DEF InitNoFile, TurnInv, libs, call, loops, hist
<1>2. ASSUME NEW f \in Files, InitBegin(f) PROVE TurnInv'
  BY <1>2, <1>f, Apart DEF InitBegin, TurnInv, call, loops, hist
<1>3. ASSUME InitLoad PROVE TurnInv'
  BY <1>3, <1>f DEF InitLoad, TurnInv, conf, gate, call, loops, hist
<1>4. ASSUME InitPlugin PROVE TurnInv'
  BY <1>4, <1>f DEF InitPlugin, TurnInv, conf, gate, call, loops, hist
<1>5. ASSUME InitEnd PROVE TurnInv'
  BY <1>5, <1>f DEF InitEnd, TurnInv, TypeOK, conf, libs, call, loops
<1>6. ASSUME NEW o \in Ops, NEW i \in Ids, Call(o, i) PROVE TurnInv'
  <2>1. loop = "idle" /\ initPc = "idle"
    BY <1>6, Apart
  <2> QED
    BY <1>6, <1>f, <2>1 DEF Call, TurnInv, TypeOK, conf, libs, init, gate, loops, hist
<1>7. ASSUME CallCheck \/ CallLoad \/ CallInit \/ CallEnter \/ CallLeave PROVE TurnInv'
  <2>1. pc # "idle" /\ UNCHANGED <<init, gate, loops, complete>>
    BY <1>7 DEF CallCheck, CallLoad, CallInit, CallEnter, CallLeave, hist
  <2> QED
    BY <1>f, <2>1 DEF TurnInv, init, gate, loops
<1>8. ASSUME ShutdownBegin PROVE TurnInv'
  <2>1. GoneOn(0) /\ pc = "idle" /\ initPc \in {"idle", "quit"} /\ running /\ pc' = pc
        /\ complete' = FALSE
    BY <1>8, BeginSpec, Apart DEF ShutdownBegin, call
  <2>2. loop' # "idle" => loopIdx' \in Ids
    BY <1>f, <2>1 DEF GoneOn
  <2>3. CASE initPc = "quit" /\ loop' = "idle"
    BY <1>f, <2>1, <2>3 DEF TurnInv, GoneOn
  <2>4. CASE ~ (initPc = "quit" /\ loop' = "idle")
    <3>1. gPclInitCounter' = gPclInitCounter /\ running' = running /\ initPc' = initPc
      BY <2>1, <2>4 DEF GoneOn
    <3> QED
      BY <1>f, <2>1, <2>2, <3>1 DEF TurnInv
  <2> QED
    BY <2>3, <2>4
<1>9. ASSUME ShutdownInvalidate PROVE TurnInv'
  <2>1. GoneOn(loopIdx + 1) /\ loopIdx \in Ids /\ loop = "invalidate" /\ UNCHANGED <<pc, complete>>
    BY <1>9, <1>f, InvalidateSpec DEF ShutdownInvalidate, call, hist
  <2>2. loop' # "idle" => loopIdx' \in Ids
    BY <1>f, <2>1 DEF GoneOn
  <2>3. CASE initPc = "quit" /\ loop' = "idle"
    BY <1>f, <2>1, <2>3 DEF TurnInv, GoneOn
  <2>4. CASE ~ (initPc = "quit" /\ loop' = "idle")
    <3>1. gPclInitCounter' = gPclInitCounter /\ running' = running /\ initPc' = initPc
      BY <2>1, <2>4 DEF GoneOn
    <3> QED
      BY <1>f, <2>1, <2>2, <3>1 DEF TurnInv
  <2> QED
    BY <2>3, <2>4
<1>10. ASSUME ShutdownDeinit \/ ShutdownClose PROVE TurnInv'
  <2>1. loop # "idle" /\ loop' # "idle" /\ UNCHANGED <<init, gate, call, loopIdx, hist>>
    BY <1>10 DEF ShutdownDeinit, ShutdownClose
  <2> QED
    BY <1>f, <2>1 DEF TurnInv, init, gate, call, hist
<1>11. ASSUME DeinitLibrary PROVE TurnInv'
  BY <1>11, <1>f, Apart DEF DeinitLibrary, TurnInv, conf, libs, gate, call, loops, hist
<1>12. ASSUME Unblock PROVE TurnInv'
  BY <1>12, <1>f DEF Unblock, TurnInv, conf, libs, init, call, loops, hist
<1>13. ASSUME UNCHANGED vars PROVE TurnInv'
  BY <1>13, <1>f DEF vars, TurnInv, conf, libs, init, gate, call, loops, hist
<1> QED
  BY <1>1, <1>2, <1>3, <1>4, <1>5, <1>6, <1>7, <1>8, <1>9, <1>10, <1>11, <1>12, <1>13
  DEF Next, BeginStep, InnerStep

(* The library of an entry is the same as long as its name is.             *)
LEMMA HandleSame ==
  ASSUME NEW i \in Ids, gCustomLibArray'[i].libname = gCustomLibArray[i].libname
  PROVE  Handle(i)' = Handle(i)
  BY DEF Handle

(* Opening a library gives its entry its functions.                        *)
LEMMA DlopenLoads ==
  ASSUME TypeOK, LoadedInv, NEW i \in Ids, Dlopen(i), gCustomLibArray' = gCustomLibArray
  PROVE  (\A j \in Ids : LoadedAt(j))' /\ gPersCustomFuncs'[i].handle = Handle(i)
<1> DEFINE F == gPersCustomFuncs
           h == Handle(i)
<1>1. /\ F' \in [Ids -> CustomFuncs]
      /\ \A j \in Ids \ {i} : F'[j] = F[j]
      /\ F'[i].handle = h
      /\ F'[i].functs = IF h = NULL \/ i = Default THEN F[i].functs ELSE Exports[h]
  BY DlopenSpec
<1>2. \A j \in Ids : Handle(j)' = Handle(j)
  BY HandleSame
<1>3. LoadedAt(i)
  BY DEF LoadedInv
<1>4. F'[i] = [handle |-> h, functs |-> F'[i].functs]
  BY <1>1 DEF CustomFuncs
<1>5. CASE h = NULL
  <2>1. F[i].functs = {}
    BY <1>3, <1>5 DEF LoadedAt, NoFuncts
  <2>2. F'[i] = NoFuncts
    BY <1>1, <1>4, <1>5, <2>1 DEF NoFuncts
  <2> QED
    BY <1>1, <1>2, <2>2 DEF LoadedAt, LoadedInv
<1>6. CASE h # NULL
  <2>1. F[i].functs = {} \/ i # Default
    BY <1>3 DEF LoadedAt, NoFuncts
  <2>2. F'[i] = [handle |-> h, functs |-> IF i = Default THEN {} ELSE Exports[h]]
    BY <1>1, <1>4, <1>6, <2>1
  <2> QED
    BY <1>1, <1>2, <1>6, <2>2 DEF LoadedAt, LoadedInv
<1> QED
  BY <1>1, <1>5, <1>6

(* Whatever is loaded is what its entry names.                             *)
LEMMA LoadedStep == ASSUME ~ overlapped', IInv, [Next]_vars PROVE LoadedInv'
<1>f. TypeOK /\ IndexInv /\ TurnInv /\ LoadedInv /\ LastEntry \in Nat /\ Ids = 0 .. LastEntry - 1
  BY IdFacts, Apart DEF IInv, Ids
<1>t. TypeOK' /\ TurnInv'
  BY TypeStep, TurnStep
<1>s. ASSUME UNCHANGED <<gCustomLibArray, gPersCustomFuncs>> PROVE \A i \in Ids : LoadedAt(i)'
  BY <1>f, <1>s, HandleSame DEF LoadedInv, LoadedAt
<1>1. ASSUME NEW f \in {NoFile, <<>>}, InitNoFile(f) PROVE LoadedInv'
  <2>1. \A i \in Ids : gCustomLibArray'[i].libname = gCustomLibArray[i].libname
    BY <1>1, <1>f DEF InitNoFile, TypeOK
  <2>2. \A i \in Ids : Handle(i)' = Handle(i)
    BY <2>1, HandleSame
  <2> QED
    BY <1>1, <1>f, <2>2 DEF InitNoFile, LoadedInv, LoadedAt, libs, call
<1>2. ASSUME NEW f \in Files, InitBegin(f) PROVE LoadedInv'
  <2>1. pc' # "init"
    BY <1>t, <1>2 DEF TurnInv, InitBegin
  <2> QED
    BY <1>2, <2>1 DEF InitBegin, LoadedInv, LoadedAt
<1>3. ASSUME InitLoad PROVE LoadedInv'
  <2>1. initIdx \in Ids /\ Dlopen(initIdx) /\ gCustomLibArray' = gCustomLibArray
    BY <1>3, <1>f DEF InitLoad, TypeOK, conf
  <2>2. (\A j \in Ids : LoadedAt(j)') /\ gPersCustomFuncs'[initIdx].handle = Handle(initIdx)
    BY <1>f, <2>1, DlopenLoads
  <2>3. initPc' = "init" => initIdx' = initIdx /\ initIdx # Default /\ Handle(initIdx) # NULL
    BY <1>3 DEF InitLoad, OpenResult
  <2>4. pc' # "init"
    BY <1>3, <1>t DEF InitLoad, TurnInv
  <2> QED
    BY <2>1, <2>2, <2>3, <2>4 DEF LoadedInv
<1>4. ASSUME InitPlugin \/ InitEnd PROVE LoadedInv'
  <2>1. initPc' # "init" /\ pc' # "init" /\ UNCHANGED <<gCustomLibArray, gPersCustomFuncs>>
    BY <1>4, <1>f DEF InitPlugin, InitEnd, TurnInv, conf, libs, call
  <2> QED
    BY <1>s, <2>1 DEF LoadedInv
<1>5. ASSUME CallLoad PROVE LoadedInv'
  <2>1. idx \in Ids /\ Dlopen(idx) /\ gCustomLibArray' = gCustomLibArray /\ idx' = idx
    BY <1>5, <1>f DEF CallLoad, TypeOK, conf
  <2>2. (\A j \in Ids : LoadedAt(j)') /\ gPersCustomFuncs'[idx].handle = Handle(idx)
    BY <1>f, <2>1, DlopenLoads
  <2>3. pc' = "init" => idx # Default /\ Handle(idx) # NULL
    BY <1>5 DEF CallLoad, OpenResult
  <2>4. initPc' # "init"
    BY <1>5, <1>f DEF CallLoad, TurnInv, init
  <2> QED
    BY <2>1, <2>2, <2>3, <2>4 DEF LoadedInv
<1>6. ASSUME ShutdownInvalidate PROVE LoadedInv'
  <2>1. /\ loopIdx \in Ids /\ gPersCustomFuncs' = [gPersCustomFuncs EXCEPT ![loopIdx] = NoFuncts]
        /\ GoneOn(loopIdx + 1)
    BY <1>6, <1>f, InvalidateSpec
  <2>2. /\ gPersCustomFuncs'[loopIdx] = NoFuncts
        /\ \A j \in Ids \ {loopIdx} : gPersCustomFuncs'[j] = gPersCustomFuncs[j]
    BY <1>f, <2>1 DEF TypeOK
  <2>3. \A j \in Ids : Handle(j)' = Handle(j)
    BY <1>6, HandleSame DEF ShutdownInvalidate, conf
  <2>4. pc' # "init" /\ initPc' # "init"
    BY <1>6, <1>f, <2>1 DEF ShutdownInvalidate, TurnInv, GoneOn, call
  <2> QED
    BY <1>f, <2>2, <2>3, <2>4 DEF LoadedInv, LoadedAt
<1>7. ASSUME ShutdownBegin PROVE LoadedInv'
  <2>1. gPersCustomFuncs' = gPersCustomFuncs /\ GoneOn(0) /\ gCustomLibArray' = gCustomLibArray
    BY <1>7, BeginSpec DEF ShutdownBegin, conf
  <2>2. pc' # "init" /\ initPc' # "init"
    BY <1>7, <1>f, <2>1, Apart DEF ShutdownBegin, TurnInv, GoneOn, call
  <2> QED
    BY <1>s, <2>1, <2>2 DEF LoadedInv
<1>8. ASSUME \/ \E o \in Ops, i \in Ids : Call(o, i)
             \/ CallCheck \/ CallInit \/ CallEnter \/ CallLeave
             \/ ShutdownDeinit \/ ShutdownClose \/ DeinitLibrary \/ Unblock \/ UNCHANGED vars
      PROVE  LoadedInv'
  <2>1. UNCHANGED <<gCustomLibArray, gPersCustomFuncs, initIdx>>
        /\ (initPc' = "init" => initPc = "init")
        /\ (pc' = "init" => pc = "init" /\ idx' = idx)
    BY <1>8 DEF Call, CallCheck, CallInit, CallEnter, CallLeave, ShutdownDeinit, ShutdownClose,
       DeinitLibrary, Unblock, vars, conf, libs, init, call
  <2> QED
    BY <1>f, <1>s, <2>1 DEF LoadedInv
<1> QED
  BY <1>1, <1>2, <1>3, <1>4, <1>5, <1>6, <1>7, <1>8 DEF Next, BeginStep, InnerStep

(* What a shutdown has passed, it has unloaded.                            *)
LEMMA InvalidatePassed ==
  ASSUME IInv, ~ overlapped, ShutdownInvalidate
  PROVE  \A j \in Ids : j < loopIdx' => "deinit" \notin gPersCustomFuncs'[j].functs
<1>1. TypeOK /\ IndexInv /\ TurnInv /\ PassedInv /\ LastEntry \in Nat /\ Ids = 0 .. LastEntry - 1
  BY IdFacts, Apart DEF IInv, Ids
<1>2. /\ loopIdx \in Ids /\ gPersCustomFuncs' = [gPersCustomFuncs EXCEPT ![loopIdx] = NoFuncts]
      /\ GoneOn(loopIdx + 1) /\ loop = "invalidate"
  BY <1>1, InvalidateSpec DEF ShutdownInvalidate
<1> SUFFICES ASSUME NEW j \in Ids, j < loopIdx' PROVE "deinit" \notin gPersCustomFuncs'[j].functs
  OBVIOUS
<1>3. CASE j = loopIdx
  BY <1>1, <1>2, <1>3 DEF TypeOK, NoFuncts
<1>4. CASE j < loopIdx
  <2>1. gPersCustomFuncs'[j] = gPersCustomFuncs[j]
    BY <1>1, <1>2, <1>4 DEF TypeOK
  <2> QED
    BY <1>1, <1>2, <1>4, <2>1 DEF PassedInv
<1>5. CASE loopIdx + 1 <= j
  BY <1>2, <1>5 DEF GoneOn
<1> QED
  BY <1>1, <1>2, <1>3, <1>4, <1>5

(* A shutdown leaves nothing behind that it should have unloaded.          *)
LEMMA PassedStep == ASSUME ~ overlapped', IInv, [Next]_vars PROVE PassedInv'
<1>f. TypeOK /\ IndexInv /\ TurnInv /\ PassedInv /\ LastEntry \in Nat /\ Ids = 0 .. LastEntry - 1
  BY IdFacts, Apart DEF IInv, Ids
<1>1. ASSUME ShutdownBegin PROVE PassedInv'
  <2>1. GoneOn(0)
    BY <1>1, BeginSpec
  <2> QED
    BY <1>f, <2>1 DEF PassedInv, GoneOn
<1>2. ASSUME ShutdownInvalidate PROVE PassedInv'
  <2>1. GoneOn(loopIdx + 1)
    BY <1>2, <1>f, InvalidateSpec
  <2> QED
    BY <1>2, <2>1, InvalidatePassed, Apart DEF PassedInv, GoneOn
<1>3. ASSUME ShutdownDeinit \/ ShutdownClose PROVE PassedInv'
  <2>1. loop # "idle" /\ UNCHANGED <<gPersCustomFuncs, loopIdx>>
    BY <1>3 DEF ShutdownDeinit, ShutdownClose
  <2> QED
    BY <1>f, <2>1 DEF PassedInv
<1>4. ASSUME \/ \E f \in {NoFile, <<>>} : InitNoFile(f)
             \/ \E f \in Files : InitBegin(f)
             \/ InitLoad \/ InitPlugin \/ InitEnd
             \/ \E o \in Ops, i \in Ids : Call(o, i)
             \/ CallCheck \/ CallLoad \/ CallInit \/ CallEnter \/ CallLeave
             \/ DeinitLibrary
      PROVE  PassedInv'
  <2>1. loop = "idle" /\ loop' = loop
    BY <1>4, <1>f, Apart DEF InitNoFile, InitBegin, InitLoad, InitPlugin, InitEnd, Call, CallCheck,
       CallLoad, CallInit, CallEnter, CallLeave, DeinitLibrary, TurnInv, loops
  <2> QED
    BY <2>1 DEF PassedInv
<1>5. ASSUME Unblock \/ UNCHANGED vars PROVE PassedInv'
  BY <1>5, <1>f DEF Unblock, PassedInv, vars, libs, loops
<1> QED
  BY <1>1, <1>2, <1>3, <1>4, <1>5 DEF Next, BeginStep, InnerStep

(* Opening a library counts for the entry that holds it.                   *)
LEMMA DlopenHolds ==
  ASSUME TypeOK, RefsInv, NEW i \in Ids, Dlopen(i), UNCHANGED loops
  PROVE  RefsInv'
<1> SUFFICES ASSUME NEW lib \in Libs
             PROVE  Cardinality(Holders(lib)') <= refs'[lib]
  BY DEF RefsInv
<1>1. /\ \A j \in Ids \ {i} : gPersCustomFuncs'[j] = gPersCustomFuncs[j]
      /\ gPersCustomFuncs'[i].handle = Handle(i)
      /\ refs'[lib] = IF lib = Handle(i) THEN refs[lib] + 1 ELSE refs[lib]
  BY DlopenSpec
<1>2. /\ IsFiniteSet(Holders(lib)) /\ Cardinality(Holders(lib)) \in Nat
      /\ Cardinality(Holders(lib)) <= refs[lib] /\ refs[lib] \in Nat
  BY HoldersSpec, LoaderAssumption DEF RefsInv, TypeOK
<1>3. CASE lib = Handle(i)
  <2>1. Holders(lib)' \subseteq Holders(lib) \cup {i}
    BY <1>1, <1>3 DEF Holders, loops
  <2>2. Cardinality(Holders(lib) \cup {i}) <= Cardinality(Holders(lib)) + 1
    <3>1. Cardinality(Holders(lib) \cup {i})
            = IF i \in Holders(lib) THEN Cardinality(Holders(lib))
              ELSE Cardinality(Holders(lib)) + 1
      BY <1>2, FS_AddElement
    <3> QED
      BY <1>2, <3>1
  <2>3. /\ Cardinality(Holders(lib) \cup {i}) \in Nat /\ Cardinality(Holders(lib)') \in Nat
        /\ Cardinality(Holders(lib)') <= Cardinality(Holders(lib) \cup {i})
    BY <1>2, <2>1, FS_AddElement, FS_Subset, FS_CardinalityType
  <2> QED
    BY <1>1, <1>2, <1>3, <2>1, <2>2, <2>3
<1>4. CASE lib # Handle(i)
  <2>1. Holders(lib)' \subseteq Holders(lib)
    BY <1>1, <1>4 DEF Holders, loops
  <2>2. /\ Cardinality(Holders(lib)') \in Nat
        /\ Cardinality(Holders(lib)') <= Cardinality(Holders(lib))
    BY <1>2, <2>1, FS_Subset, FS_CardinalityType
  <2> QED
    BY <1>1, <1>2, <1>4, <2>2
<1> QED
  BY <1>3, <1>4

(* Whatever holds a library has opened it.                                 *)
LEMMA RefsStep == ASSUME IInv, [Next]_vars PROVE RefsInv'
<1>f. /\ TypeOK /\ IndexInv /\ RefsInv /\ LastEntry \in Nat /\ Ids = 0 .. LastEntry - 1
      /\ NULL \notin Libs
  BY IdFacts, LoaderAssumption DEF IInv, Ids
<1>s. ASSUME \A lib \in Libs : Holders(lib)' = Holders(lib), refs' = refs PROVE RefsInv'
  BY <1>f, <1>s DEF RefsInv
<1>1. ASSUME NEW f \in Files, InitBegin(f) PROVE RefsInv'
  <2>1. \A lib \in Libs : Holders(lib)' = {} /\ refs'[lib] \in Nat
    BY <1>f, <1>1, LoaderAssumption DEF InitBegin, Holders, NoFuncts, TypeOK
  <2> QED
    BY <2>1, FS_EmptySet DEF RefsInv
<1>2. ASSUME InitLoad PROVE RefsInv'
  BY <1>2, <1>f, DlopenHolds DEF InitLoad, TypeOK
<1>3. ASSUME CallLoad PROVE RefsInv'
  BY <1>3, <1>f, DlopenHolds DEF CallLoad, TypeOK
<1>4. ASSUME ShutdownBegin PROVE RefsInv'
  <2>1. /\ gPersCustomFuncs' = gPersCustomFuncs /\ refs' = refs
        /\ loop = "idle" /\ loop' # "invalidate"
    BY <1>4, BeginSpec DEF ShutdownBegin, GoneOn
  <2> QED
    BY <1>s, <2>1 DEF Holders
<1>5. ASSUME ShutdownDeinit PROVE RefsInv'
  BY <1>5, <1>s DEF ShutdownDeinit, Holders
<1>6. ASSUME ShutdownClose PROVE RefsInv'
  <2> SUFFICES ASSUME NEW lib \in Libs
               PROVE  Cardinality(Holders(lib)') <= refs'[lib]
    BY DEF RefsInv
  <2> DEFINE handle == gPersCustomFuncs[loopIdx].handle
  <2>1. loopIdx \in Ids /\ loop = "close" /\ loop' = "invalidate"
        /\ UNCHANGED <<gPersCustomFuncs, loopIdx>>
    BY <1>6, <1>f DEF ShutdownClose, IndexInv
  <2>2. Holders(lib)' = Holders(lib) \ {loopIdx}
    BY <2>1 DEF Holders
  <2>3. /\ IsFiniteSet(Holders(lib)) /\ Cardinality(Holders(lib)) \in Nat
        /\ Cardinality(Holders(lib)) <= refs[lib] /\ refs[lib] \in Nat
    BY <1>f, HoldersSpec, LoaderAssumption DEF RefsInv, TypeOK
  <2>4. Cardinality(Holders(lib) \ {loopIdx})
          = IF loopIdx \in Holders(lib) THEN Cardinality(Holders(lib)) - 1
            ELSE Cardinality(Holders(lib))
    BY <2>3, FS_RemoveElement
  <2>5. refs'[lib] = IF handle = lib THEN refs[lib] - 1 ELSE refs[lib]
    BY <1>6, <1>f DEF ShutdownClose, TypeOK
  <2>6. loopIdx \in Holders(lib) <=> handle = lib
    BY <2>1 DEF Holders
  <2> QED
    BY <2>2, <2>3, <2>4, <2>5, <2>6
<1>7. ASSUME ShutdownInvalidate PROVE RefsInv'
  <2>1. /\ loopIdx \in Ids /\ gPersCustomFuncs' = [gPersCustomFuncs EXCEPT ![loopIdx] = NoFuncts]
        /\ loop' # "invalidate" /\ loop = "invalidate" /\ refs' = refs
    BY <1>7, <1>f, InvalidateSpec DEF ShutdownInvalidate, GoneOn
  <2>2. /\ gPersCustomFuncs'[loopIdx].handle = NULL
        /\ \A j \in Ids \ {loopIdx} : gPersCustomFuncs'[j] = gPersCustomFuncs[j]
    BY <1>f, <2>1 DEF TypeOK, NoFuncts
  <2>3. \A lib \in Libs : Holders(lib)' = Holders(lib)
    BY <1>f, <2>1, <2>2 DEF Holders
  <2> QED
    BY <1>s, <2>1, <2>3
<1>8. ASSUME \/ \E f \in {NoFile, <<>>} : InitNoFile(f)
             \/ InitPlugin \/ InitEnd
             \/ \E o \in Ops, i \in Ids : Call(o, i)
             \/ CallCheck \/ CallInit \/ CallEnter \/ CallLeave
             \/ DeinitLibrary \/ Unblock \/ UNCHANGED vars
      PROVE  RefsInv'
  <2>1. UNCHANGED <<gPersCustomFuncs, refs, loop, loopIdx>>
    BY <1>8 DEF InitNoFile, InitPlugin, InitEnd, Call, CallCheck, CallInit, CallEnter, CallLeave,
       DeinitLibrary, Unblock, vars, libs, loops
  <2> QED
    BY <1>s, <2>1 DEF Holders
<1> QED
  BY <1>1, <1>2, <1>3, <1>4, <1>5, <1>6, <1>7, <1>8 DEF Next, BeginStep, InnerStep

(* The invariant holds after any number of sessions.                       *)
THEOREM IInvCorrect == Spec => []IInv
<1>1. IInv /\ [Next]_vars => IInv'
  <2> SUFFICES ASSUME IInv, [Next]_vars PROVE IInv'
    OBVIOUS
  <2>1. TypeOK' /\ IndexInv' /\ RefsInv'
    BY TypeStep, IndexStep, RefsStep
  <2>2. (~ overlapped)' => TurnInv' /\ LoadedInv' /\ PassedInv'
    BY TurnStep, LoadedStep, PassedStep
  <2> QED
    BY <2>1, <2>2 DEF IInv
<1> QED
  BY <1>1, IInvInit, PTL DEF Spec

(* The types are right whatever the files and libraries are like.          *)
THEOREM TypeCorrect == Spec => []TypeOK
<1>1. IInv => TypeOK
  BY DEF IInv
<1> QED
  BY <1>1, IInvCorrect, PTL

-----------------------------------------------------------------------------
(* What pclInitLibrary has loaded                                          *)

(* A library stays ready while its entry stays and nothing unloads it.     *)
LEMMA ReadyStays ==
  ASSUME NEW i \in Ids, gCustomLibArray' = gCustomLibArray,
         \A lib \in Libs : plugin[lib] = "ready" => plugin'[lib] = "ready", IsReady(i)
  PROVE  IsReady(i)'
<1>1. Handle(i)' = Handle(i) /\ Handle(i) \in Libs \cup {NULL}
  BY HandleSame, HandleType
<1>2. InitFunction(i)' = InitFunction(i)
  BY DEF InitFunction
<1>3. AtInit(gCustomLibArray[i])' = AtInit(gCustomLibArray[i])
  BY DEF AtInit
<1> QED
  BY <1>1, <1>2, <1>3 DEF IsReady

(* The init of a library makes it ready, and no other one less so.         *)
LEMMA PluginInitSpec ==
  ASSUME TypeOK, LoadedInv, NEW i \in Ids \ {Default}, gPersCustomFuncs[i].handle # NULL,
         PluginInit(i)
  PROVE  /\ gPersCustomFuncs[i].handle = Handle(i) /\ Handle(i) \in Libs
         /\ gPersCustomFuncs[i].functs = Exports[Handle(i)]
         /\ \A lib \in Libs : plugin[lib] = "ready" => plugin'[lib] = "ready"
         /\ InitFunction(i) \in Exports[Handle(i)] => plugin'[Handle(i)] = "ready"
<1>1. gPersCustomFuncs[i] = [handle |-> Handle(i), functs |-> Exports[Handle(i)]]
  BY DEF LoadedInv, LoadedAt, NoFuncts
<1>2. Handle(i) \in Libs
  BY <1>1, HandleType
<1>3. plugin' = IF InitFunction(i) \in Exports[Handle(i)]
                  THEN [plugin EXCEPT ![Handle(i)] = "ready"] ELSE plugin
  BY <1>1 DEF PluginInit, Initialisable
<1>4. plugin \in [Libs -> {"fresh", "ready", "down"}]
  BY DEF TypeOK
<1> QED
  BY <1>1, <1>2, <1>3, <1>4

(* What an init has passed is ready.                                       *)
LEMMA ConfiguredStep ==
  ASSUME ~ overlapped', IInv, ConfiguredInv, [Next]_vars PROVE ConfiguredInv'
<1>f. /\ TypeOK /\ IndexInv /\ TurnInv /\ LoadedInv /\ LastEntry \in Nat /\ Ids = 0 .. LastEntry - 1
      /\ Default \in Ids
  BY IdFacts, Apart DEF IInv, Ids
<1>s. ASSUME gCustomLibArray' = gCustomLibArray, complete' => complete,
             \A lib \in Libs : plugin[lib] = "ready" => plugin'[lib] = "ready",
             initPc' \in {"load", "init"} => initPc \in {"load", "init"} /\ initIdx' = initIdx
      PROVE  ConfiguredInv'
  BY <1>s, ReadyStays DEF ConfiguredInv
<1>n. ASSUME ~ complete', initPc' \notin {"load", "init"} PROVE ConfiguredInv'
  BY <1>n DEF ConfiguredInv
<1>1. ASSUME NEW f \in {NoFile, <<>>}, InitNoFile(f) PROVE ConfiguredInv'
  BY <1>1, <1>f, <1>n, Apart DEF InitNoFile, TurnInv, hist
<1>2. ASSUME NEW f \in Files, InitBegin(f) PROVE ConfiguredInv'
  <2> DEFINE A == GetCustomLibraries(FillCustomCharTokenArray(f))
  <2>1. gCustomLibArray' = A /\ initIdx' = NextLib(A, 0) /\ ~ complete'
    BY <1>2, <1>f, Apart DEF InitBegin, TurnInv, hist
  <2> HIDE DEF A
  <2>2. \A j \in 0 .. NextLib(A, 0) - 1 : ~ AtInit(A[j])
    BY <1>f, NextLibSpec
  <2>3. NextLib(A, 0) \in 0 .. LastEntry
    BY <1>f, NextLibSpec
  <2>4. ASSUME NEW i \in Ids, i < initIdx' PROVE IsReady(i)'
    <3>1. i \in 0 .. NextLib(A, 0) - 1
      BY <1>f, <2>1, <2>3, <2>4
    <3> QED
      BY <2>1, <2>2, <3>1 DEF IsReady
  <2> QED
    BY <2>1, <2>4 DEF ConfiguredInv
<1>3. ASSUME NEW n \in Ids, initPc \in {"load", "init"}, initIdx = n, ~ complete',
             gCustomLibArray' = gCustomLibArray, n # Default => IsReady(n)',
             \A lib \in Libs : plugin[lib] = "ready" => plugin'[lib] = "ready",
             initIdx' = NextLib(gCustomLibArray, n + 1)
      PROVE  ConfiguredInv'
  <2>1. /\ NextLib(gCustomLibArray, n + 1) \in n + 1 .. LastEntry
        /\ \A j \in n + 1 .. NextLib(gCustomLibArray, n + 1) - 1 : ~ AtInit(gCustomLibArray[j])
    BY <1>f, NextLibSpec
  <2>2. ASSUME NEW i \in Ids \ {Default}, i < initIdx' PROVE IsReady(i)'
    <3>1. CASE i < n
      BY <1>3, <3>1, ReadyStays DEF ConfiguredInv
    <3>2. CASE i = n
      BY <1>3, <3>2
    <3>3. CASE i > n
      <4>1. i \in n + 1 .. NextLib(gCustomLibArray, n + 1) - 1
        BY <1>3, <1>f, <2>1, <2>2, <3>3
      <4>2. ~ AtInit(gCustomLibArray[i])
        BY <2>1, <4>1
      <4> QED
        BY <1>3, <4>2 DEF IsReady
    <3> QED
      BY <1>f, <3>1, <3>2, <3>3
  <2> QED
    BY <1>3, <2>2 DEF ConfiguredInv
<1>4. ASSUME InitLoad PROVE ConfiguredInv'
  <2>1. /\ initIdx \in Ids /\ initPc = "load" /\ ~ complete'
        /\ gCustomLibArray' = gCustomLibArray /\ plugin' = plugin
    BY <1>4, <1>f DEF InitLoad, TurnInv, TypeOK, conf, hist
  <2>2. CASE initIdx = Default \/ OpenResult(initIdx) < 0
    <3>1. initIdx' = NextLib(gCustomLibArray, initIdx + 1)
      BY <1>4, <2>2 DEF InitLoad
    <3>2. initIdx # Default => Handle(initIdx) = NULL
      BY <2>2 DEF OpenResult
    <3>3. initIdx # Default => IsReady(initIdx)
      BY <3>2 DEF IsReady
    <3>4. initIdx # Default => (\A i \in Ids : i = initIdx => IsReady(i)')
      BY <2>1, <3>3, ReadyStays
    <3> QED
      BY <1>3, <2>1, <3>1, <3>4
  <2>3. CASE ~ (initIdx = Default \/ OpenResult(initIdx) < 0)
    BY <1>4, <1>s, <2>1, <2>3 DEF InitLoad
  <2> QED
    BY <2>2, <2>3
<1>5. ASSUME InitPlugin PROVE ConfiguredInv'
  <2>1. /\ initIdx \in Ids \ {Default} /\ initPc = "init" /\ ~ complete'
        /\ gCustomLibArray' = gCustomLibArray /\ PluginInit(initIdx)
        /\ gPersCustomFuncs[initIdx].handle # NULL
        /\ initIdx' = NextLib(gCustomLibArray, initIdx + 1)
    BY <1>5, <1>f DEF InitPlugin, LoadedInv, TurnInv, TypeOK, conf, hist
  <2>2. /\ \A lib \in Libs : plugin[lib] = "ready" => plugin'[lib] = "ready"
        /\ InitFunction(initIdx) \in Exports[Handle(initIdx)] => plugin'[Handle(initIdx)] = "ready"
    BY <1>f, <2>1, PluginInitSpec
  <2>3. ASSUME NEW i \in Ids, i = initIdx PROVE IsReady(i)'
    <3>1. Handle(i)' = Handle(i) /\ InitFunction(i)' = InitFunction(i)
      BY <2>1, HandleSame DEF InitFunction
    <3> QED
      BY <2>2, <2>3, <3>1 DEF IsReady
  <2> QED
    BY <1>3, <2>1, <2>2, <2>3
<1>6. ASSUME InitEnd PROVE ConfiguredInv'
  <2>1. /\ initPc = "load" /\ initPc' = "idle" /\ initIdx = LastEntry
        /\ gCustomLibArray' = gCustomLibArray /\ plugin' = plugin
    BY <1>6 DEF InitEnd, conf, libs
  <2>2. \A i \in Ids \ {Default} : IsReady(i)
    BY <1>f, <2>1 DEF ConfiguredInv
  <2> QED
    BY <2>1, <2>2, ReadyStays DEF ConfiguredInv
<1>7. ASSUME CallInit PROVE ConfiguredInv'
  <2>1. /\ idx \in Ids \ {Default} /\ PluginInit(idx) /\ gPersCustomFuncs[idx].handle # NULL
        /\ gCustomLibArray' = gCustomLibArray /\ complete' = complete /\ initPc' = "idle"
    BY <1>7, <1>f DEF CallInit, LoadedInv, TurnInv, TypeOK, conf, init, hist
  <2>2. \A lib \in Libs : plugin[lib] = "ready" => plugin'[lib] = "ready"
    BY <1>f, <2>1, PluginInitSpec
  <2> QED
    BY <1>s, <2>1, <2>2
<1>8. ASSUME ShutdownDeinit PROVE ConfiguredInv'
  BY <1>8, <1>f, <1>n DEF ShutdownDeinit, TurnInv, init, hist
<1>9. ASSUME ShutdownBegin PROVE ConfiguredInv'
  <2>1. ~ complete' /\ GoneOn(0) /\ initPc \in {"idle", "quit"}
    BY <1>9, BeginSpec, Apart DEF ShutdownBegin
  <2> QED
    BY <1>n, <2>1 DEF GoneOn
<1>10. ASSUME ShutdownInvalidate PROVE ConfiguredInv'
  <2>1. ~ complete' /\ GoneOn(loopIdx + 1) /\ initPc \in {"idle", "quit"}
    BY <1>10, <1>f, InvalidateSpec DEF ShutdownInvalidate, TurnInv, hist
  <2> QED
    BY <1>n, <2>1 DEF GoneOn
<1>11. ASSUME \/ \E o \in Ops, i \in Ids : Call(o, i)
              \/ CallCheck \/ CallLoad \/ CallEnter \/ CallLeave
              \/ ShutdownClose \/ DeinitLibrary \/ Unblock \/ UNCHANGED vars
       PROVE  ConfiguredInv'
  <2>1. UNCHANGED <<gCustomLibArray, plugin, complete, initIdx>>
        /\ (initPc' = initPc \/ initPc' = "quit")
    BY <1>11 DEF Call, CallCheck, CallLoad, CallEnter, CallLeave, ShutdownClose, DeinitLibrary,
       Unblock, vars, conf, libs, init, hist
  <2> QED
    BY <1>s, <2>1
<1> QED
  BY <1>1, <1>2, <1>4, <1>5, <1>6, <1>7, <1>8, <1>9, <1>10, <1>11 DEF Next, BeginStep, InnerStep

(* Every library that pclInitLibrary is to load and can load is ready when *)
(* it succeeds, whatever became of the ones before it in the table.        *)
THEOREM ConfiguredIsReadyCorrect == Spec => []ConfiguredIsReady
<1> DEFINE Inv == ~ overlapped => ConfiguredInv
<1>1. Init => Inv
  BY DEF Init, ConfiguredInv
<1>2. IInv /\ Inv /\ [Next]_vars => Inv'
  BY ConfiguredStep, Apart
<1>3. Inv => ConfiguredIsReady
  BY DEF ConfiguredInv, ConfiguredIsReady, IsReady
<1> HIDE DEF Inv
<1> QED
  BY <1>1, <1>2, <1>3, IInvCorrect, PTL DEF Spec

-----------------------------------------------------------------------------
(* What the library array says                                             *)

(* The name of a library and its place in the array determine each other.  *)
LEMMA NameSpec ==
  ASSUME NEW name
  PROVE  /\ \A i \in Ids : CustomClientNameToId(name) = i <=> name = Names[i + 1]
         /\ name \in Range(Names) => CustomClientNameToId(name) # LastEntry
<1>1. /\ DOMAIN Names = 1 .. LastEntry /\ LastEntry \in Nat
      /\ \A a, b \in DOMAIN Names : Names[a] = Names[b] => a = b
      /\ Range(Names) = {Names[a] : a \in DOMAIN Names}
  BY LoaderAssumption DEF LastEntry, IsInjective, Range
<1>2. CASE name \in Range(Names)
  <2> DEFINE c == CHOOSE k \in DOMAIN Names : Names[k] = name
  <2>1. \E k \in DOMAIN Names : Names[k] = name
    BY <1>1, <1>2
  <2>2. c \in DOMAIN Names /\ Names[c] = name
    BY <2>1
  <2>3. CustomClientNameToId(name) = c - 1
    BY <1>2 DEF CustomClientNameToId
  <2> HIDE DEF c
  <2>4. ASSUME NEW i \in Ids PROVE c - 1 = i <=> name = Names[i + 1]
    <3>1. i + 1 \in DOMAIN Names /\ i \in Nat /\ c \in Nat
      BY <1>1, <2>2 DEF Ids
    <3> QED
      BY <1>1, <2>2, <3>1
  <2> QED
    BY <1>1, <2>2, <2>3, <2>4
<1>3. CASE name \notin Range(Names)
  <2>1. CustomClientNameToId(name) = LastEntry
    BY <1>3 DEF CustomClientNameToId
  <2>2. \A i \in Ids : i # LastEntry /\ i + 1 \in DOMAIN Names
    BY <1>1 DEF Ids
  <2> QED
    BY <1>1, <1>3, <2>1, <2>2
<1> QED
  BY <1>2, <1>3

(* The token array holds the file, as far as it fits in.                   *)
LEMMA FillSpec ==
  ASSUME TypeOK, NEW f \in Files
  PROVE  /\ Len(f) \in Nat /\ DOMAIN f = 1 .. Len(f)
         /\ \A n \in 0 .. TokenArraySize - 1 :
              n < Len(f) => /\ FillCustomCharTokenArray(f)[n] = f[n + 1]
                            /\ f[n + 1] # NULL
<1>1. Len(f) \in Nat /\ DOMAIN f = 1 .. Len(f) /\ TokenArraySize \in Nat
  BY LoaderAssumption
<1>2. ASSUME NEW n \in 0 .. TokenArraySize - 1
      PROVE  FillCustomCharTokenArray(f)[n]
               = IF n < Len(f) THEN f[n + 1] ELSE gpCustomTokenArray[n]
  BY DEF FillCustomCharTokenArray, TypeOK
<1>3. ASSUME NEW n \in 0 .. TokenArraySize - 1, n < Len(f) PROVE f[n + 1] # NULL
  <2>1. n + 1 \in DOMAIN f
    BY <1>1, <1>3
  <2>2. f[n + 1] \in Range(f)
    BY <2>1 DEF Range
  <2> QED
    BY <2>2, LoaderAssumption
<1> QED
  BY <1>1, <1>2, <1>3

(* An entry starts at the token behind a multiple of four.                 *)
LEMMA StartsSpec ==
  ASSUME NEW f, NEW e \in Nat, Len(f) \in Nat, DOMAIN f = 1 .. Len(f)
  PROVE  e + 1 \in Starts(f) <=> e % 4 = 0 /\ e + 3 < Len(f) /\ e + 4 <= TokenArraySize
<1>1. e % 4 = 0 <=> (e + 1) % 4 = 1
  OBVIOUS
<1>2. e + 1 \in DOMAIN f /\ e + 1 + 3 \in DOMAIN f <=> e + 3 < Len(f)
  OBVIOUS
<1>3. e + 1 <= TokenArraySize - 3 <=> e + 4 <= TokenArraySize
  BY LoaderAssumption
<1> QED
  BY <1>1, <1>2, <1>3 DEF Starts

(* Behind the file f the token array T has a token.                        *)
LeftIn(T, f) == \E n \in 0 .. TokenArraySize - 1 : n >= Len(f) /\ T[n] # NULL

(* get_custom_libraries looks at the entries of the file, and at others    *)
(* only where something is left.                                           *)
LEMMA FileEntries ==
  ASSUME TypeOK, NEW f \in Files, NEW T, T = FillCustomCharTokenArray(f)
  PROVE  /\ \A e \in Nat : e + 1 \in Starts(f) => e \in Entries(T) /\ T[e] = f[e + 1]
         /\ \A e \in Entries(T) :
              (e \in Nat /\ e + 1 \in Starts(f) /\ T[e] = f[e + 1]) \/ LeftIn(T, f)
<1>1. /\ Len(f) \in Nat /\ DOMAIN f = 1 .. Len(f)
      /\ \A n \in 0 .. TokenArraySize - 1 : n < Len(f) => T[n] = f[n + 1] /\ f[n + 1] # NULL
  BY FillSpec
<1>2. T \in TokenArrays /\ TokenArraySize \in Nat /\ TokenArraySize % 4 = 3
  BY FillType, LoaderAssumption
<1>3. ASSUME NEW e \in Entries(T)
      PROVE  (e \in Nat /\ e + 1 \in Starts(f) /\ T[e] = f[e + 1]) \/ LeftIn(T, f)
  <2>1. e \in 0 .. TokenArraySize - 4 /\ e % 4 = 0 /\ \A n \in 0 .. e + 3 : T[n] # NULL
    BY <1>2, EntriesSpec
  <2>2. e \in Nat /\ e + 4 <= TokenArraySize /\ e + 3 \in 0 .. TokenArraySize - 1
        /\ e \in 0 .. TokenArraySize - 1 /\ e + 3 \in 0 .. e + 3
    BY <1>2, <2>1
  <2>3. CASE e + 3 < Len(f)
    <3>1. e + 1 \in Starts(f)
      BY <1>1, <2>1, <2>2, <2>3, StartsSpec
    <3>2. T[e] = f[e + 1]
      BY <1>1, <2>2, <2>3
    <3> QED
      BY <2>2, <3>1, <3>2
  <2>4. CASE e + 3 >= Len(f)
    <3>1. T[e + 3] # NULL
      BY <2>1, <2>2
    <3> QED
      BY <2>2, <2>4, <3>1 DEF LeftIn
  <2> QED
    BY <1>1, <2>2, <2>3, <2>4
<1>4. ASSUME NEW e \in Nat, e + 1 \in Starts(f) PROVE e \in Entries(T) /\ T[e] = f[e + 1]
  <2>1. e % 4 = 0 /\ e + 3 < Len(f) /\ e + 4 <= TokenArraySize
    BY <1>1, <1>4, StartsSpec
  <2>2. e + 7 <= TokenArraySize
    <3> DEFINE d == e \div 4
               m == TokenArraySize \div 4
    <3>1. d \in Nat /\ e = 4 * d /\ m \in Nat /\ TokenArraySize = 4 * m + 3
      BY <1>2, <2>1
    <3> HIDE DEF d, m
    <3> QED
      BY <2>1, <3>1
  <2>3. \A n \in 0 .. e + 3 : n \in 0 .. TokenArraySize - 1 /\ n < Len(f)
    BY <1>1, <1>2, <2>1
  <2>4. \A n \in 0 .. e + 3 : T[n] # NULL
    BY <1>1, <2>3
  <2>5. e \in 0 .. TokenArraySize - 1 /\ e < Len(f)
    BY <2>3
  <2> QED
    BY <1>1, <1>2, <2>1, <2>2, <2>4, <2>5, EntriesAll
<1> QED
  BY <1>3, <1>4

(* A new session fills the array from its file.                            *)
LEMMA TableBegin ==
  ASSUME TypeOK, NEW f \in Files, InitBegin(f)
  PROVE  TableInv'
<1> DEFINE T == FillCustomCharTokenArray(f)
           A == GetCustomLibraries(T)
<1>1. T \in TokenArrays /\ Len(f) \in Nat /\ DOMAIN f = 1 .. Len(f)
  BY FillType, LoaderAssumption
<1>2. gpCustomTokenArray' = T /\ gCustomLibArray' = A /\ file' = f /\ broken = "no"
      /\ broken' = IF UnknownName(T) THEN "array" ELSE broken
  BY DEF InitBegin
<1>3. /\ \A e \in Nat : e + 1 \in Starts(f) => e \in Entries(T) /\ T[e] = f[e + 1]
      /\ \A e \in Entries(T) :
           (e \in Nat /\ e + 1 \in Starts(f) /\ T[e] = f[e + 1]) \/ LeftIn(T, f)
  BY FileEntries
<1>4. \A i \in Ids :
        \/ /\ \A e \in Entries(T) : CustomClientNameToId(T[e]) # i
           /\ A[i] = [gCustomLibArray[i] EXCEPT !.valid = FALSE]
        \/ \E e \in Entries(T) : CustomClientNameToId(T[e]) = i /\ A[i] = InfoAt(T, e)
  BY <1>1, LibrariesSpec
<1> HIDE DEF T, A
<1>5. LeftIn(T, f) => Leftover'
  <2>1. DOMAIN T = 0 .. TokenArraySize - 1
    BY <1>1 DEF TokenArrays
  <2> QED
    BY <1>2, <2>1 DEF LeftIn, Leftover
<1>6. ASSUME NEW i \in Ids, NEW k \in Starts(f), f[k] = Names[i + 1] PROVE A[i].valid
  <2>1. k - 1 \in Nat /\ k - 1 + 1 = k
    BY <1>1 DEF Starts
  <2>2. k - 1 \in Entries(T) /\ T[k - 1] = f[k]
    BY <1>3, <2>1
  <2>3. CustomClientNameToId(T[k - 1]) = i
    BY <1>6, <2>2, NameSpec
  <2>4. PICK e \in Entries(T) : A[i] = InfoAt(T, e)
    BY <1>4, <2>2, <2>3, Zenon
  <2> QED
    BY <2>4 DEF InfoAt
<1>7. ASSUME NEW i \in Ids, A[i].valid
      PROVE  (\E k \in Starts(f) : f[k] = Names[i + 1]) \/ Leftover'
  <2>1. A[i] # [gCustomLibArray[i] EXCEPT !.valid = FALSE]
    BY <1>7 DEF TypeOK
  <2>2. PICK e \in Entries(T) : CustomClientNameToId(T[e]) = i
    BY <1>4, <2>1
  <2>3. T[e] = Names[i + 1]
    BY <2>2, NameSpec
  <2> QED
    BY <1>3, <1>5, <2>3
<1>8. FileInv'
  BY <1>2, <1>6, <1>7 DEF FileInv
<1>9. InsideArray'
  <2> SUFFICES ASSUME broken' = "array"
               PROVE  Leftover' \/ \E k \in Starts(f) : f[k] \notin Range(Names)
    BY <1>2 DEF InsideArray
  <2>1. PICK e \in Entries(T) : CustomClientNameToId(T[e]) = LastEntry
    BY <1>2 DEF UnknownName
  <2>2. T[e] \notin Range(Names)
    BY <2>1, NameSpec
  <2> QED
    BY <1>3, <1>5, <2>2
<1> QED
  BY <1>8, <1>9 DEF TableInv

(* Nothing else changes the array while there is a session.                *)
LEMMA TableStep ==
  ASSUME IInv, TableInv, [Next]_vars PROVE TableInv'
<1>f. TypeOK /\ TableInv
  BY DEF IInv
<1>1. ASSUME NEW f \in Files, InitBegin(f) PROVE TableInv'
  BY <1>1, <1>f, TableBegin
<1>2. ASSUME NEW f \in {NoFile, <<>>}, InitNoFile(f) PROVE TableInv'
  <2>1. broken' = "no" /\ initPc' = "idle" /\ gPclInitCounter' # 1
    BY <1>2 DEF InitNoFile
  <2> QED
    BY <2>1 DEF TableInv, FileInv, InsideArray
<1>3. ASSUME UNCHANGED conf, broken' # "array",
             (initPc' # "idle" \/ gPclInitCounter' = 1) => (initPc # "idle" \/ gPclInitCounter = 1)
      PROVE  TableInv'
  BY <1>3, <1>f DEF TableInv, FileInv, InsideArray, Leftover, conf
<1>4. ASSUME ShutdownBegin PROVE TableInv'
  <2>1. GoneOn(0)
    BY <1>4, BeginSpec
  <2> QED
    BY <1>f, <1>3, <1>4, <2>1 DEF ShutdownBegin, GoneOn
<1>5. ASSUME ShutdownInvalidate PROVE TableInv'
  <2>1. GoneOn(loopIdx + 1)
    BY <1>5, InvalidateSpec DEF IInv
  <2> QED
    BY <1>f, <1>3, <1>5, <2>1 DEF ShutdownInvalidate, GoneOn
<1>6. ASSUME InitLoad \/ InitPlugin \/ InitEnd \/ DeinitLibrary PROVE TableInv'
  <2>1. UNCHANGED conf /\ broken' = "no" /\ (initPc # "idle" \/ gPclInitCounter = 1)
    BY <1>6 DEF InitLoad, InitPlugin, InitEnd, DeinitLibrary
  <2> QED
    BY <1>3, <2>1
<1>7. ASSUME \/ \E o \in Ops, i \in Ids : Call(o, i)
             \/ CallCheck \/ CallLoad \/ CallInit \/ CallEnter \/ CallLeave
             \/ ShutdownDeinit \/ ShutdownClose \/ Unblock
      PROVE  TableInv'
  <2>1. UNCHANGED <<conf, initPc, gPclInitCounter>> /\ broken' \in {"no", "null"}
    BY <1>7 DEF Call, CallCheck, CallLoad, CallInit, CallEnter, CallLeave, ShutdownDeinit,
       ShutdownClose, Unblock, init, gate
  <2> QED
    BY <1>3, <2>1
<1>8. ASSUME UNCHANGED vars PROVE TableInv'
  BY <1>8, <1>f DEF TableInv, FileInv, InsideArray, Leftover, vars, conf, init, gate
<1> QED
  BY <1>1, <1>2, <1>4, <1>5, <1>6, <1>7, <1>8 DEF Next, BeginStep, InnerStep

(* In every session the library array has what the configuration file      *)
(* names, and nothing of an earlier one unless that was longer.            *)
THEOREM TableIsTheFileCorrect == Spec => []TableIsTheFile
<1>1. Init => TableInv
  BY DEF Init, TableInv, FileInv, InsideArray
<1>2. TableInv => TableIsTheFile
  BY DEF TableInv, FileInv, TableIsTheFile
<1>3. IInv /\ TableInv /\ [Next]_vars => TableInv'
  BY TableStep
<1> QED
  BY <1>1, <1>2, <1>3, IInvCorrect, PTL DEF Spec

-----------------------------------------------------------------------------
(* Calls reach libraries that are ready                                    *)

(* A library that is in the array is that of its entry.                    *)
LEMMA LoadedSpec ==
  ASSUME TypeOK, LoadedInv, NEW i \in Ids,
         gPersCustomFuncs[i].handle # NULL \/ gPersCustomFuncs[i].functs # {}
  PROVE  /\ gPersCustomFuncs[i].handle = Handle(i) /\ Handle(i) \in Libs
         /\ gPersCustomFuncs[i].functs = IF i = Default THEN {} ELSE Exports[Handle(i)]
<1>1. LoadedAt(i) /\ gPersCustomFuncs[i] # NoFuncts
  BY DEF LoadedInv, NoFuncts
<1>2. Handle(i) # NULL
      /\ gPersCustomFuncs[i] = [handle |-> Handle(i),
                                functs |-> IF i = Default THEN {} ELSE Exports[Handle(i)]]
  BY <1>1 DEF LoadedAt
<1> QED
  BY <1>2, HandleType

(* While nothing is being loaded or unloaded, every library is ready.      *)
LEMMA QuietIsReady ==
  ASSUME TypeOK, ReadyInv, initPc # "init", pc # "init", loop = "idle"
  PROVE  \A i \in Ids \ {Default} :
            gPersCustomFuncs[i].handle # NULL /\ Initialisable(i)
              => plugin[gPersCustomFuncs[i].handle] = "ready"
  BY DEF ReadyInv, ReadyAt, Pending

(* Whether a library can be initialised depends on its functions and its   *)
(* entry.                                                                  *)
LEMMA InitialisableSame ==
  ASSUME NEW i \in Ids, gPersCustomFuncs'[i].functs = gPersCustomFuncs[i].functs,
         gCustomLibArray'[i].initFunction = gCustomLibArray[i].initFunction
  PROVE  Initialisable(i)' = Initialisable(i)
<1>1. InitFunction(i)' = InitFunction(i)
  BY DEF InitFunction
<1> QED
  BY <1>1 DEF Initialisable

(* A place that is left alone stays as ready as it is.                     *)
LEMMA ReadyStaysAt ==
  ASSUME NEW i \in Ids, ReadyAt(i), Pending(i) => Pending(i)',
         gPersCustomFuncs'[i] = gPersCustomFuncs[i],
         gCustomLibArray'[i].initFunction = gCustomLibArray[i].initFunction,
         plugin[gPersCustomFuncs[i].handle] = "ready"
           => plugin'[gPersCustomFuncs[i].handle] = "ready"
  PROVE  ReadyAt(i)'
<1>1. Initialisable(i)' = Initialisable(i)
  BY InitialisableSame
<1> QED
  BY <1>1 DEF ReadyAt

(* Loading makes only the library that is loaded wait for its init.        *)
LEMMA ReadyStep ==
  ASSUME ~ overlapped', IInv, ReadyInv, [Next]_vars PROVE ReadyInv'
<1>f. /\ TypeOK /\ IndexInv /\ TurnInv /\ LoadedInv /\ PassedInv /\ LastEntry \in Nat
      /\ Ids = 0 .. LastEntry - 1 /\ Default \in Ids /\ NULL \notin Libs
  BY IdFacts, LoaderAssumption, Apart DEF IInv, Ids
<1>r. ASSUME \A i \in Ids \ {Default} : ReadyAt(i)', pc' \notin {"call", "inside"},
             broken' = broken,
             broken = "no"
      PROVE  ReadyInv'
  BY <1>r DEF ReadyInv, EnterInv, NoNullCall
<1>e. /\ pc = "call" => \/ op \in gPersCustomFuncs[idx].functs
                        \/ op = "get_data" /\ "get_size" \in gPersCustomFuncs[idx].functs
      /\ pc = "inside" => op \in gPersCustomFuncs[idx].functs
                          /\ inside = gPersCustomFuncs[idx].handle
  BY DEF ReadyInv, EnterInv
<1>1. ASSUME NEW f \in {NoFile, <<>>}, InitNoFile(f) PROVE ReadyInv'
  <2>1. /\ UNCHANGED <<gPersCustomFuncs, plugin, initPc, initIdx, pc, op, idx, inside, loop,
                       broken>>
        /\ broken = "no"
    BY <1>1 DEF InitNoFile, libs, call, loops
  <2>2. \A i \in Ids : gCustomLibArray'[i].initFunction = gCustomLibArray[i].initFunction
    BY <1>1, <1>f DEF InitNoFile, TypeOK
  <2>3. ASSUME NEW i \in Ids \ {Default} PROVE ReadyAt(i)'
    BY <2>1, <2>2, ReadyStaysAt DEF ReadyInv, Pending
  <2> QED
    BY <1>e, <2>1, <2>3 DEF ReadyInv, EnterInv, NoNullCall
<1>2. ASSUME NEW f \in Files, InitBegin(f) PROVE ReadyInv'
  <2>1. \A i \in Ids : gPersCustomFuncs'[i].handle = NULL
    BY <1>2 DEF InitBegin, NoFuncts
  <2>2. pc' = "idle" /\ broken' \in {"no", "array"}
    BY <1>2, <1>f DEF InitBegin, TurnInv, call
  <2> QED
    BY <2>1, <2>2 DEF ReadyInv, ReadyAt, EnterInv, NoNullCall
<1>3. ASSUME InitLoad PROVE ReadyInv'
  <2>1. /\ initIdx \in Ids /\ Dlopen(initIdx) /\ initPc = "load" /\ pc = "idle" /\ loop = "idle"
        /\ UNCHANGED <<gCustomLibArray, plugin, pc, loop, broken>> /\ broken = "no"
    BY <1>3, <1>f DEF InitLoad, TurnInv, TypeOK, conf, call, loops
  <2>2. /\ \A j \in Ids \ {initIdx} : gPersCustomFuncs'[j] = gPersCustomFuncs[j]
        /\ gPersCustomFuncs'[initIdx].handle = Handle(initIdx)
    BY <1>f, <2>1, DlopenSpec
  <2>3. initIdx # Default /\ Handle(initIdx) # NULL => initPc' = "init" /\ initIdx' = initIdx
    BY <1>3 DEF InitLoad, OpenResult
  <2>4. ASSUME NEW i \in Ids \ {Default} PROVE ReadyAt(i)'
    <3>1. CASE i = initIdx
      BY <2>2, <2>3, <3>1 DEF ReadyAt, Pending
    <3>2. CASE i # initIdx
      <4>1. ReadyAt(i) /\ ~ Pending(i) /\ gPersCustomFuncs'[i] = gPersCustomFuncs[i]
        BY <1>f, <2>1, <2>2, <3>2 DEF ReadyInv, Pending, TurnInv
      <4> QED
        BY <2>1, <4>1, ReadyStaysAt
    <3> QED
      BY <3>1, <3>2
  <2> QED
    BY <1>r, <2>1, <2>4
<1>4. ASSUME NEW n \in Ids \ {Default}, PluginInit(n), gPersCustomFuncs[n].handle # NULL,
             UNCHANGED <<gPersCustomFuncs, gCustomLibArray>>, \A i \in Ids : Pending(i) => i = n
      PROVE  \A i \in Ids \ {Default} : ReadyAt(i)'
  <2>1. /\ gPersCustomFuncs[n].handle = Handle(n) /\ Handle(n) \in Libs
        /\ gPersCustomFuncs[n].functs = Exports[Handle(n)]
        /\ \A lib \in Libs : plugin[lib] = "ready" => plugin'[lib] = "ready"
        /\ InitFunction(n) \in Exports[Handle(n)] => plugin'[Handle(n)] = "ready"
    BY <1>f, <1>4, PluginInitSpec
  <2>2. Initialisable(n)' => plugin'[Handle(n)] = "ready"
    BY <1>4, <2>1, InitialisableSame DEF Initialisable
  <2>3. ASSUME NEW i \in Ids \ {Default} PROVE ReadyAt(i)'
    <3>1. CASE i = n
      BY <1>4, <2>1, <2>2, <3>1 DEF ReadyAt
    <3>2. CASE i # n
      <4>1. gPersCustomFuncs[i].handle \in Libs \cup {NULL} /\ ReadyAt(i) /\ ~ Pending(i)
        BY <1>4, <1>f, <3>2 DEF TypeOK, ReadyInv
      <4>2. CASE gPersCustomFuncs[i].handle = NULL
        BY <1>4, <4>2 DEF ReadyAt
      <4>3. CASE gPersCustomFuncs[i].handle \in Libs
        BY <1>4, <2>1, <4>1, <4>3, ReadyStaysAt
      <4> QED
        BY <4>1, <4>2, <4>3
    <3> QED
      BY <3>1, <3>2
  <2> QED
    BY <2>3
<1>5. ASSUME InitPlugin PROVE ReadyInv'
  <2>1. /\ initIdx \in Ids \ {Default} /\ PluginInit(initIdx)
        /\ gPersCustomFuncs[initIdx].handle # NULL /\ initPc = "init"
        /\ pc = "idle" /\ loop = "idle" /\ broken = "no"
        /\ UNCHANGED <<gPersCustomFuncs, gCustomLibArray, pc, broken>>
    BY <1>5, <1>f DEF InitPlugin, TurnInv, LoadedInv, call, conf
  <2>2. \A i \in Ids : Pending(i) => i = initIdx
    BY <2>1 DEF Pending
  <2> QED
    BY <1>4, <1>r, <2>1, <2>2
<1>6. ASSUME CallLoad PROVE ReadyInv'
  <2>1. /\ idx \in Ids /\ Dlopen(idx) /\ initPc = "idle" /\ loop = "idle" /\ idx' = idx
        /\ UNCHANGED <<gCustomLibArray, plugin, loop, broken>> /\ pc = "load" /\ broken = "no"
        /\ pc' \notin {"call", "inside"}
    BY <1>6, <1>f DEF CallLoad, TurnInv, TypeOK, conf, loops
  <2>2. /\ \A j \in Ids \ {idx} : gPersCustomFuncs'[j] = gPersCustomFuncs[j]
        /\ gPersCustomFuncs'[idx].handle = Handle(idx)
    BY <1>f, <2>1, DlopenSpec
  <2>3. idx # Default /\ Handle(idx) # NULL => pc' = "init"
    BY <1>6 DEF CallLoad, OpenResult
  <2>4. ASSUME NEW i \in Ids \ {Default} PROVE ReadyAt(i)'
    <3>1. CASE i = idx
      BY <2>1, <2>2, <2>3, <3>1 DEF ReadyAt, Pending
    <3>2. CASE i # idx
      <4>1. ReadyAt(i) /\ ~ Pending(i) /\ gPersCustomFuncs'[i] = gPersCustomFuncs[i]
        BY <1>f, <2>1, <2>2, <3>2 DEF ReadyInv, Pending
      <4> QED
        BY <2>1, <4>1, ReadyStaysAt
    <3> QED
      BY <3>1, <3>2
  <2> QED
    BY <1>r, <2>1, <2>4
<1>7. ASSUME CallInit PROVE ReadyInv'
  <2>1. /\ idx \in Ids \ {Default} /\ PluginInit(idx)
        /\ gPersCustomFuncs[idx].handle # NULL /\ pc = "init" /\ initPc = "idle"
        /\ loop = "idle" /\ UNCHANGED <<gPersCustomFuncs, gCustomLibArray, broken, op, idx>>
        /\ broken = "no"
    BY <1>7, <1>f DEF CallInit, TurnInv, LoadedInv, TypeOK, conf
  <2>2. \A i \in Ids : Pending(i) => i = idx
    BY <2>1 DEF Pending
  <2>3. \A i \in Ids \ {Default} : ReadyAt(i)'
    BY <1>4, <2>1, <2>2
  <2>4. pc' \in {"call", "idle"} /\ (pc' = "call" => op \in gPersCustomFuncs[idx].functs)
    BY <1>7 DEF CallInit
  <2> QED
    BY <2>1, <2>3, <2>4 DEF ReadyInv, EnterInv, NoNullCall
<1>8. ASSUME CallCheck PROVE ReadyInv'
  <2>1. /\ pc = "check" /\ op \in Ops /\ broken = "no"
        /\ UNCHANGED <<gPersCustomFuncs, gCustomLibArray, plugin, initPc, initIdx, loop, broken,
                       op, idx>>
    BY <1>8, <1>f DEF CallCheck, TypeOK, conf, libs, init, loops
  <2>2. pc' \in {"call", "load", "idle"}
        /\ (pc' = "call" => Looked(op) \in gPersCustomFuncs[idx].functs
                              \/ op \in gPersCustomFuncs[idx].functs)
    BY <1>8 DEF CallCheck
  <2>3. ASSUME NEW i \in Ids \ {Default} PROVE ReadyAt(i)'
    <3>1. ReadyAt(i) /\ (Pending(i) => Pending(i)')
      BY <2>1 DEF ReadyInv, Pending
    <3> QED
      BY <2>1, <3>1, ReadyStaysAt
  <2>4. EnterInv'
    BY <2>1, <2>2 DEF EnterInv, Looked
  <2> QED
    BY <2>1, <2>3, <2>4 DEF ReadyInv, NoNullCall
<1>9. ASSUME CallEnter PROVE ReadyInv'
  <2>1. /\ pc = "call" /\ broken = "no"
        /\ UNCHANGED <<gPersCustomFuncs, gCustomLibArray, plugin, initPc, initIdx, loop, op, idx>>
    BY <1>9 DEF CallEnter, conf, libs, init, loops
  <2>2. \/ /\ op \in gPersCustomFuncs[idx].functs /\ pc' = "inside" /\ broken' = "no"
           /\ inside' = gPersCustomFuncs[idx].handle
        \/ op \notin gPersCustomFuncs[idx].functs /\ pc' = "call" /\ broken' = "null"
    BY <1>9 DEF CallEnter
  <2>3. ASSUME NEW i \in Ids \ {Default} PROVE ReadyAt(i)'
    <3>1. ReadyAt(i) /\ (Pending(i) => Pending(i)')
      BY <2>1 DEF ReadyInv, Pending
    <3> QED
      BY <2>1, <3>1, ReadyStaysAt
  <2>4. EnterInv' /\ NoNullCall'
    BY <1>e, <2>1, <2>2 DEF EnterInv, NoNullCall
  <2> QED
    BY <2>3, <2>4 DEF ReadyInv
<1>10. ASSUME ShutdownBegin PROVE ReadyInv'
  <2>1. /\ gPersCustomFuncs' = gPersCustomFuncs /\ loop = "idle" /\ pc = "idle" /\ broken = "no"
        /\ initPc \in {"idle", "quit"} /\ UNCHANGED <<gCustomLibArray, plugin, pc, broken>>
    BY <1>10, BeginSpec, Apart DEF ShutdownBegin, call, conf
  <2>2. ASSUME NEW i \in Ids \ {Default} PROVE ReadyAt(i)'
    <3>1. ReadyAt(i) /\ ~ Pending(i)
      BY <2>1 DEF ReadyInv, Pending
    <3> QED
      BY <2>1, <3>1, ReadyStaysAt
  <2> QED
    BY <1>r, <2>1, <2>2
<1>11. ASSUME ShutdownDeinit PROVE ReadyInv'
  <2> DEFINE h == gPersCustomFuncs[loopIdx].handle
  <2>1. /\ loopIdx \in Ids /\ loop = "deinit" /\ loop' = "close" /\ pc = "idle"
        /\ "deinit" \in gPersCustomFuncs[loopIdx].functs
        /\ UNCHANGED <<gPersCustomFuncs, gCustomLibArray, pc, idx, initPc, initIdx>>
        /\ broken = "no"
    BY <1>11, <1>f DEF ShutdownDeinit, TurnInv, PassedInv, init, call, conf
  <2>2. plugin' = [plugin EXCEPT ![h] = "down"] /\ broken' = broken
    BY <1>11, <2>1 DEF ShutdownDeinit
  <2>3. "deinit" \in Exports[h] /\ h \in Libs
    BY <1>f, <2>1, LoadedSpec
  <2> HIDE DEF h
  <2>4. ASSUME NEW i \in Ids \ {Default} PROVE ReadyAt(i)'
    <3>1. CASE gPersCustomFuncs[i].handle = h
      <4>1. gPersCustomFuncs[i].functs = Exports[h]
        BY <1>f, <2>3, <3>1, LoadedSpec
      <4> QED
        BY <2>1, <2>3, <4>1 DEF ReadyAt, Pending
    <3>2. CASE gPersCustomFuncs[i].handle # h
      <4>1. gPersCustomFuncs[i].handle \in Libs \cup {NULL}
            /\ plugin \in [Libs -> {"fresh", "ready", "down"}]
        BY <1>f DEF TypeOK
      <4>2. ReadyAt(i) /\ (Pending(i) => Pending(i)')
        BY <2>1 DEF ReadyInv, Pending
      <4>3. CASE gPersCustomFuncs[i].handle = NULL
        BY <2>1, <4>3 DEF ReadyAt
      <4>4. CASE gPersCustomFuncs[i].handle \in Libs
        <5>1. plugin'[gPersCustomFuncs[i].handle] = plugin[gPersCustomFuncs[i].handle]
          BY <2>2, <3>2, <4>1, <4>4
        <5> QED
          BY <2>1, <4>2, <5>1, ReadyStaysAt
      <4> QED
        BY <4>1, <4>3, <4>4
    <3> QED
      BY <3>1, <3>2
  <2> QED
    BY <1>r, <2>1, <2>2, <2>4
<1>12. ASSUME ShutdownInvalidate PROVE ReadyInv'
  <2>1. /\ loopIdx \in Ids /\ gPersCustomFuncs' = [gPersCustomFuncs EXCEPT ![loopIdx] = NoFuncts]
        /\ GoneOn(loopIdx + 1) /\ loop = "invalidate" /\ pc = "idle"
        /\ initPc \in {"idle", "quit"} /\ UNCHANGED <<gCustomLibArray, plugin, pc, broken>>
        /\ broken = "no"
    BY <1>12, <1>f, InvalidateSpec DEF ShutdownInvalidate, TurnInv, call, conf
  <2>2. \A j \in Ids : j < loopIdx' => "deinit" \notin gPersCustomFuncs'[j].functs
    BY <1>12, InvalidatePassed, Apart
  <2>3. ASSUME NEW i \in Ids \ {Default} PROVE ReadyAt(i)'
    <3>1. CASE i = loopIdx
      BY <1>f, <2>1, <3>1 DEF ReadyAt, TypeOK, NoFuncts
    <3>2. CASE i # loopIdx
      <4>1. gPersCustomFuncs'[i] = gPersCustomFuncs[i]
        BY <1>f, <2>1, <3>2 DEF TypeOK
      <4>2. ReadyAt(i)
        BY DEF ReadyInv
      <4>3. loop' = "idle" => "deinit" \notin gPersCustomFuncs'[i].functs
        BY <1>f, <2>1, <2>2 DEF GoneOn
      <4>4. CASE "deinit" \in gPersCustomFuncs[i].functs
        BY <4>1, <4>3, <4>4 DEF ReadyAt, Pending
      <4>5. CASE "deinit" \notin gPersCustomFuncs[i].functs
        <5>1. ~ Pending(i)
          BY <2>1, <4>5 DEF Pending
        <5> QED
          BY <2>1, <4>1, <4>2, <5>1, ReadyStaysAt
      <4> QED
        BY <4>4, <4>5
    <3> QED
      BY <3>1, <3>2
  <2> QED
    BY <1>r, <2>1, <2>3
<1>13. ASSUME InitEnd \/ (\E o \in Ops, i \in Ids : Call(o, i)) \/ CallLeave
              \/ ShutdownClose \/ DeinitLibrary \/ Unblock
       PROVE  ReadyInv'
  <2>1. /\ UNCHANGED <<gPersCustomFuncs, gCustomLibArray, plugin, broken>> /\ broken = "no"
        /\ (\A i \in Ids : Pending(i) => Pending(i)')
        /\ (pc' \in {"call", "inside"} => UNCHANGED <<pc, op, idx, inside>>)
    BY <1>13 DEF InitEnd, Call, CallLeave, ShutdownClose, DeinitLibrary, Unblock, conf, libs, init,
       call, loops, Pending
  <2>2. ASSUME NEW i \in Ids \ {Default} PROVE ReadyAt(i)'
    BY <2>1, ReadyStaysAt DEF ReadyInv
  <2> QED
    BY <1>e, <2>1, <2>2 DEF ReadyInv, EnterInv, NoNullCall
<1>14. ASSUME UNCHANGED vars PROVE ReadyInv'
  <2>1. /\ UNCHANGED <<gPersCustomFuncs, gCustomLibArray, plugin, broken, pc, op, idx, inside>>
        /\ UNCHANGED <<initPc, initIdx, loop>>
    BY <1>14 DEF vars, conf, libs, init, call, loops
  <2>2. ASSUME NEW i \in Ids \ {Default} PROVE ReadyAt(i)'
    BY <2>1, ReadyStaysAt DEF ReadyInv, Pending
  <2>3. NoNullCall'
    BY <2>1, Apart DEF ReadyInv, NoNullCall
  <2> QED
    BY <1>e, <2>1, <2>2, <2>3 DEF ReadyInv, EnterInv
<1> QED
  BY <1>1, <1>2, <1>3, <1>5, <1>6, <1>7, <1>8, <1>9, <1>10, <1>11, <1>12, <1>13, <1>14
  DEF Next, BeginStep, InnerStep

(* Whatever the files and the libraries are like, the loader stays inside  *)
(* its arrays, never calls through a null pointer, and only calls a        *)
(* library that is open and ready, but for the exceptions the property     *)
(* names.                                                                  *)
THEOREM CallsAreSafeCorrect == Spec => []CallsAreSafe
<1> DEFINE Inv == ~ overlapped => ReadyInv
<1>1. Init => TableInv /\ Inv
  BY DEF Init, TableInv, FileInv, InsideArray, ReadyInv, ReadyAt, EnterInv, NoFuncts, NoNullCall
<1>2. IInv /\ TableInv /\ [Next]_vars => TableInv'
  BY TableStep
<1>3. IInv /\ Inv /\ [Next]_vars => Inv'
  BY ReadyStep, Apart
<1>4. IInv /\ TableInv /\ Inv => CallsAreSafe
  <2> SUFFICES ASSUME IInv, TableInv, Inv PROVE CallsAreSafe
    OBVIOUS
  <2>1. TypeOK /\ RefsInv /\ (~ overlapped => TurnInv /\ LoadedInv /\ ReadyInv)
    BY DEF IInv
  <2>2. ASSUME pc = "inside", ~ overlapped
        PROVE  refs[inside] > 0 /\ (Initialisable(idx) => plugin[inside] = "ready")
    <3>1. /\ idx \in Ids /\ initPc = "idle" /\ loop = "idle"
          /\ inside = gPersCustomFuncs[idx].handle /\ op \in gPersCustomFuncs[idx].functs
      BY <2>1, <2>2 DEF TypeOK, TurnInv, ReadyInv, EnterInv
    <3>2. inside \in Libs /\ idx # Default
      BY <2>1, <2>2, <3>1, LoadedSpec
    <3>3. Initialisable(idx) => plugin[inside] = "ready"
      BY <2>1, <2>2, <3>1, <3>2, QuietIsReady, LoaderAssumption
    <3>4. idx \in Holders(inside)
      BY <3>1 DEF Holders
    <3>5. refs[inside] >= 1 /\ refs[inside] \in 0 .. MaxRefs
      BY <2>1, <3>2, <3>4, HoldersSpec DEF TypeOK
    <3> QED
      BY <3>3, <3>5, LoaderAssumption
  <2>3. NoNullCall
    BY <2>1 DEF ReadyInv, NoNullCall
  <2> QED
    BY <2>1, <2>2, <2>3 DEF CallsAreSafe, CallsReadyLibrary, TableInv
<1> HIDE DEF Inv
<1> QED
  BY <1>1, <1>2, <1>3, <1>4, IInvCorrect, PTL DEF Spec

-----------------------------------------------------------------------------
(* A library is opened once                                                *)

(* Where it is loaded it has all functions that the calls look for.        *)
LEMMA CompleteSpec ==
  ASSUME TypeOK, LoadedInv, NEW lib \in Complete, NEW i \in Ids \ {Default},
         gPersCustomFuncs[i].handle = lib
  PROVE  Ops \cup {"deinit"} \subseteq gPersCustomFuncs[i].functs
<1>1. lib \in Libs /\ lib # NULL /\ Ops \cup {"deinit"} \subseteq Exports[lib]
  BY LoaderAssumption DEF Complete
<1> QED
  BY <1>1, LoadedSpec

(* While what holds it stays, so does what is known of it.                 *)
LEMMA HoldersSame ==
  ASSUME NEW lib, gPersCustomFuncs' = gPersCustomFuncs, loopIdx' = loopIdx,
         loop' = "invalidate" <=> loop = "invalidate"
  PROVE  Holders(lib)' = Holders(lib)
  BY DEF Holders

(* A place that does not hold the library yet opens it for the first time. *)
LEMMA DlopenOnce ==
  ASSUME TypeOK, NEW i \in Ids, Dlopen(i), loop = "idle", loop' = "idle",
         NEW lib \in Complete, lib \notin leaked',
         refs[lib] = Cardinality(Holders(lib)), gPersCustomFuncs[Default].handle # lib,
         gPersCustomFuncs[i].handle # lib
  PROVE  refs'[lib] = Cardinality(Holders(lib)') /\ gPersCustomFuncs'[Default].handle # lib
<1>1. lib \in Libs
  BY DEF Complete
<1>2. /\ \A j \in Ids \ {i} : gPersCustomFuncs'[j] = gPersCustomFuncs[j]
      /\ gPersCustomFuncs'[i].handle = Handle(i)
      /\ refs'[lib] = IF lib = Handle(i) THEN refs[lib] + 1 ELSE refs[lib]
      /\ i = Default => {Handle(i)} \cap Libs \subseteq leaked'
  BY <1>1, DlopenSpec
<1>3. i \notin Holders(lib) /\ IsFiniteSet(Holders(lib)) /\ Default \in Ids
  BY IdFacts, FS_Subset DEF Holders
<1>4. CASE lib = Handle(i)
  <2>1. i # Default
    BY <1>1, <1>2, <1>4
  <2>2. Holders(lib)' = Holders(lib) \cup {i}
    BY <1>2, <1>4 DEF Holders
  <2>3. Cardinality(Holders(lib) \cup {i}) = Cardinality(Holders(lib)) + 1
    BY <1>3, FS_AddElement
  <2> QED
    BY <1>2, <1>3, <1>4, <2>1, <2>2, <2>3
<1>5. CASE lib # Handle(i)
  <2>1. Holders(lib)' = Holders(lib)
    BY <1>2, <1>5 DEF Holders
  <2>2. gPersCustomFuncs'[Default].handle # lib
    BY <1>2, <1>3, <1>5
  <2> QED
    BY <1>2, <1>5, <2>1, <2>2
<1> QED
  BY <1>4, <1>5

(* Nothing is opened twice, and a shutdown closes what is open.            *)
LEMMA OpenStep ==
  ASSUME ~ overlapped', IInv, OpenInv, [Next]_vars PROVE OpenInv'
<1>f. /\ TypeOK /\ IndexInv /\ TurnInv /\ LoadedInv /\ PassedInv /\ LastEntry \in Nat
      /\ Ids = 0 .. LastEntry - 1 /\ Default \in Ids /\ NULL \notin Libs /\ Complete \subseteq Libs
  BY IdFacts, LoaderAssumption, Apart DEF IInv, Ids, Complete
<1>o. \A lib \in Complete \ leaked : OpenAt(lib)
  BY DEF OpenInv
<1>h. \A lib \in Complete \ leaked :
        /\ refs[lib] = Cardinality(Holders(lib)) /\ gPersCustomFuncs[Default].handle # lib
        /\ gPclInitCounter = 0 /\ initPc = "idle"
             => \A i \in Ids : gPersCustomFuncs[i].handle # lib
  BY <1>o DEF OpenAt
<1>r. ASSUME initPc' \notin {"load", "init"}, pc' # "load",
             \A lib \in Complete \ leaked' : OpenAt(lib)'
      PROVE  OpenInv'
  BY <1>r DEF OpenInv
<1>1. ASSUME NEW f \in {NoFile, <<>>}, InitNoFile(f) PROVE OpenInv'
  <2>1. /\ initPc' = "idle" /\ initPc = "idle" /\ pc' # "load"
        /\ UNCHANGED <<gPersCustomFuncs, refs, gPclInitCounter, loop, loopIdx, leaked>>
    BY <1>1, <1>f DEF InitNoFile, TurnInv, libs, call, loops, hist
  <2>2. \A lib \in Complete : Holders(lib)' = Holders(lib)
    BY <2>1, HoldersSame
  <2> QED
    BY <1>h, <1>r, <2>1, <2>2 DEF OpenAt
<1>2. ASSUME NEW f \in Files, InitBegin(f) PROVE OpenInv'
  <2>1. /\ \A i \in Ids : gPersCustomFuncs'[i].handle = NULL
        /\ initPc' = "load" /\ initPc = "idle" /\ gPclInitCounter = 0 /\ pc' # "load"
        /\ UNCHANGED <<refs, leaked>>
    BY <1>2, <1>f DEF InitBegin, TurnInv, NoFuncts, call, hist
  <2>2. ASSUME NEW lib \in Complete \ leaked PROVE OpenAt(lib)'
    <3>1. Holders(lib) = {}
      BY <1>h, <2>1 DEF Holders
    <3>2. refs[lib] = 0
      BY <1>h, <3>1, FS_EmptySet
    <3>3. Holders(lib)' = {}
      BY <1>f, <2>1 DEF Holders
    <3>4. Cardinality(Holders(lib)') = 0
      BY <3>3, FS_EmptySet
    <3> QED
      BY <1>f, <2>1, <3>2, <3>4 DEF OpenAt
  <2> QED
    BY <2>1, <2>2 DEF OpenInv
<1>3. ASSUME InitLoad PROVE OpenInv'
  <2>1. /\ initIdx \in Ids /\ Dlopen(initIdx) /\ initPc = "load" /\ pc = "idle"
        /\ loop = "idle" /\ loop' = "idle" /\ UNCHANGED pc
        /\ initPc' \in {"load", "init"}
    BY <1>3, <1>f DEF InitLoad, TurnInv, TypeOK, call, loops
  <2>2. (\A j \in Ids \ {initIdx} : gPersCustomFuncs'[j] = gPersCustomFuncs[j])
        /\ leaked \subseteq leaked'
    BY <1>f, <2>1, DlopenSpec
  <2>3. gPersCustomFuncs[initIdx].handle = NULL
    BY <2>1 DEF OpenInv
  <2>4. initIdx' >= initIdx /\ initIdx' \in Nat /\ (initPc' = "load" => initIdx' > initIdx)
    <3>1. NextLib(gCustomLibArray, initIdx + 1) \in initIdx + 1 .. LastEntry
      BY <1>f, <2>1, NextLibSpec
    <3> QED
      BY <1>3, <1>f, <2>1, <3>1 DEF InitLoad
  <2>5. ASSUME NEW i \in Ids, i > initIdx' \/ (i = initIdx' /\ initPc' = "load")
        PROVE  gPersCustomFuncs'[i].handle = NULL
    <3>1. i > initIdx
      BY <1>f, <2>1, <2>4, <2>5
    <3> QED
      BY <1>f, <2>1, <2>2, <3>1 DEF OpenInv
  <2>6. ASSUME NEW lib \in Complete \ leaked' PROVE OpenAt(lib)'
    <3>1. lib \in Complete /\ lib \notin leaked' /\ lib \in Complete \ leaked /\ lib # NULL
      BY <1>f, <2>2
    <3>2. refs'[lib] = Cardinality(Holders(lib)') /\ gPersCustomFuncs'[Default].handle # lib
      BY <1>f, <1>h, <2>1, <2>3, <3>1, DlopenOnce
    <3> QED
      BY <2>1, <3>2 DEF OpenAt
  <2> QED
    BY <2>1, <2>5, <2>6 DEF OpenInv
<1>4. ASSUME InitPlugin PROVE OpenInv'
  <2>1. /\ initIdx \in Ids /\ initPc = "init" /\ initPc' = "load" /\ pc' # "load"
        /\ initIdx' = NextLib(gCustomLibArray, initIdx + 1)
        /\ UNCHANGED <<gPersCustomFuncs, refs, loop, loopIdx, leaked>>
    BY <1>4, <1>f DEF InitPlugin, LoadedInv, TurnInv, call, loops, hist
  <2>2. initIdx' > initIdx /\ initIdx' \in Nat
    BY <1>f, <2>1, NextLibSpec
  <2>3. \A i \in Ids : i >= initIdx' => i > initIdx
    BY <1>f, <2>1, <2>2
  <2>4. \A i \in Ids : i >= initIdx' => gPersCustomFuncs'[i].handle = NULL
    BY <2>1, <2>3 DEF OpenInv
  <2>5. \A i \in Ids : i > initIdx' \/ i = initIdx' => i >= initIdx'
    BY <1>f, <2>2
  <2>6. \A lib \in Complete : Holders(lib)' = Holders(lib)
    BY <2>1, HoldersSame
  <2> QED
    BY <1>h, <2>1, <2>4, <2>5, <2>6 DEF OpenInv, OpenAt
<1>5. ASSUME InitEnd PROVE OpenInv'
  <2>1. /\ initPc = "load" /\ initPc' = "idle" /\ pc' # "load" /\ loop = "idle"
        /\ UNCHANGED <<gPersCustomFuncs, refs, loop, loopIdx>>
        /\ \/ leaked' = leaked \cup {l \in Libs : refs[l] > 0}
           \/ leaked' = leaked /\ gPclInitCounter' = 1
    BY <1>5, <1>f DEF InitEnd, TurnInv, libs, call, loops
  <2>2. ASSUME NEW lib \in Complete \ leaked' PROVE OpenAt(lib)'
    <3>1. lib \in Complete \ leaked /\ lib \in Libs /\ Holders(lib)' = Holders(lib)
      BY <1>f, <2>1, HoldersSame
    <3>2. CASE leaked' = leaked /\ gPclInitCounter' = 1
      BY <1>h, <2>1, <3>1, <3>2 DEF OpenAt
    <3>3. CASE leaked' = leaked \cup {l \in Libs : refs[l] > 0}
      <4>1. refs[lib] = 0
        BY <1>f, <3>1, <3>3, LoaderAssumption DEF TypeOK
      <4>2. IsFiniteSet(Holders(lib))
        BY IdFacts, FS_Subset DEF Holders
      <4>3. Holders(lib) = {}
        BY <1>h, <3>1, <4>1, <4>2, FS_EmptySet
      <4>4. \A i \in Ids : gPersCustomFuncs[i].handle # lib
        BY <2>1, <4>3 DEF Holders
      <4> QED
        BY <1>f, <1>h, <2>1, <3>1, <4>4 DEF OpenAt
    <3> QED
      BY <2>1, <3>2, <3>3
  <2> QED
    BY <1>r, <2>1, <2>2
<1>6. ASSUME CallCheck PROVE OpenInv'
  <2>1. /\ initPc = "idle" /\ (pc' = "load" => Looked(op) \notin gPersCustomFuncs[idx].functs)
        /\ UNCHANGED <<gPersCustomFuncs, refs, loop, loopIdx, leaked, op, idx, initPc,
                       gPclInitCounter>>
    BY <1>6, <1>f DEF CallCheck, TurnInv, libs, init, gate, loops, hist
  <2>2. \A lib \in Complete : Holders(lib)' = Holders(lib)
    BY <2>1, HoldersSame
  <2> QED
    BY <1>h, <2>1, <2>2 DEF OpenInv, OpenAt
<1>7. ASSUME CallLoad PROVE OpenInv'
  <2>1. /\ idx \in Ids /\ Dlopen(idx) /\ pc = "load" /\ pc' # "load" /\ initPc = "idle"
        /\ loop = "idle" /\ loop' = "idle" /\ gPclInitCounter = 1
        /\ UNCHANGED <<initPc, gPclInitCounter>> /\ op \in Ops
    BY <1>7, <1>f DEF CallLoad, TurnInv, TypeOK, init, gate, loops
  <2>2. ASSUME NEW lib \in Complete \ leaked PROVE gPersCustomFuncs[idx].handle # lib
    <3>1. Looked(op) \notin gPersCustomFuncs[idx].functs /\ Looked(op) \in Ops
      BY <2>1 DEF OpenInv, Looked, Ops
    <3>2. CASE idx = Default
      BY <1>h, <3>2
    <3>3. CASE idx # Default
      BY <1>f, <2>1, <3>1, <3>3, CompleteSpec
    <3> QED
      BY <3>2, <3>3
  <2>3. ASSUME NEW lib \in Complete \ leaked' PROVE OpenAt(lib)'
    <3>1. leaked \subseteq leaked'
      BY <1>f, <2>1, DlopenSpec
    <3>2. lib \in Complete /\ lib \notin leaked' /\ lib \in Complete \ leaked
      BY <3>1
    <3>3. refs'[lib] = Cardinality(Holders(lib)') /\ gPersCustomFuncs'[Default].handle # lib
      BY <1>f, <1>h, <2>1, <2>2, <3>2, DlopenOnce
    <3> QED
      BY <2>1, <3>3 DEF OpenAt
  <2> QED
    BY <1>r, <2>1, <2>3
<1>8. ASSUME ShutdownBegin PROVE OpenInv'
  <2>1. /\ gPersCustomFuncs' = gPersCustomFuncs /\ GoneOn(0) /\ loop = "idle" /\ pc' # "load"
        /\ initPc \in {"idle", "quit"} /\ UNCHANGED <<refs, leaked>>
    BY <1>8, BeginSpec, Apart DEF ShutdownBegin, call
  <2>2. \A lib \in Complete : Holders(lib)' = Holders(lib)
    BY <2>1 DEF Holders, GoneOn
  <2>3. ASSUME NEW lib \in Complete \ leaked, gPclInitCounter' = 0, initPc' = "idle", NEW i \in Ids
        PROVE  gPersCustomFuncs[i].handle # lib
    <3>1. CASE initPc = "quit" /\ loop' = "idle" /\ i # Default
      <4>1. 0 <= i /\ i < loopIdx'
        BY <1>f, <2>1, <3>1 DEF GoneOn
      <4>2. "deinit" \notin gPersCustomFuncs[i].functs
        BY <2>1, <4>1 DEF GoneOn
      <4> QED
        BY <1>f, <3>1, <4>2, CompleteSpec
    <3>2. CASE ~ (initPc = "quit" /\ loop' = "idle")
      BY <1>h, <2>1, <2>3, <3>2 DEF GoneOn
    <3>3. CASE i = Default
      BY <1>h, <3>3
    <3> QED
      BY <3>1, <3>2, <3>3
  <2>4. initPc' \in {"idle", "quit"}
    BY <2>1 DEF GoneOn
  <2>5. ASSUME NEW lib \in Complete \ leaked PROVE OpenAt(lib)'
    BY <1>h, <2>1, <2>2, <2>3 DEF OpenAt
  <2> QED
    BY <1>r, <2>1, <2>4, <2>5
<1>9. ASSUME ShutdownClose PROVE OpenInv'
  <2>1. /\ loopIdx \in Ids /\ loop = "close" /\ loop' = "invalidate" /\ pc' # "load"
        /\ initPc \in {"idle", "quit"}
        /\ UNCHANGED <<gPersCustomFuncs, loopIdx, initPc, gPclInitCounter, leaked>>
    BY <1>9, <1>f DEF ShutdownClose, TurnInv, init, gate, call, hist
  <2>2. ASSUME NEW lib \in Complete \ leaked PROVE refs'[lib] = Cardinality(Holders(lib)')
    <3>1. refs'[lib] = IF gPersCustomFuncs[loopIdx].handle = lib THEN refs[lib] - 1 ELSE refs[lib]
      BY <1>9, <1>f DEF ShutdownClose, TypeOK
    <3>2. Holders(lib)' = Holders(lib) \ {loopIdx} /\ IsFiniteSet(Holders(lib))
      BY <2>1, IdFacts, FS_Subset DEF Holders
    <3>3. Cardinality(Holders(lib) \ {loopIdx})
            = IF loopIdx \in Holders(lib) THEN Cardinality(Holders(lib)) - 1
              ELSE Cardinality(Holders(lib))
      BY <3>2, FS_RemoveElement
    <3>4. loopIdx \in Holders(lib) <=> gPersCustomFuncs[loopIdx].handle = lib
      BY <2>1 DEF Holders
    <3> QED
      BY <1>h, <3>1, <3>2, <3>3, <3>4
  <2>3. ASSUME NEW lib \in Complete \ leaked PROVE OpenAt(lib)'
    BY <1>h, <2>1, <2>2 DEF OpenAt
  <2> QED
    BY <1>r, <2>1, <2>3
<1>10. ASSUME ShutdownInvalidate PROVE OpenInv'
  <2>1. /\ loopIdx \in Ids /\ gPersCustomFuncs' = [gPersCustomFuncs EXCEPT ![loopIdx] = NoFuncts]
        /\ GoneOn(loopIdx + 1) /\ loop = "invalidate" /\ pc' # "load"
        /\ initPc \in {"idle", "quit"} /\ UNCHANGED <<refs, leaked>>
    BY <1>10, <1>f, InvalidateSpec DEF ShutdownInvalidate, TurnInv, call, hist
  <2>2. /\ gPersCustomFuncs'[loopIdx].handle = NULL
        /\ \A j \in Ids \ {loopIdx} : gPersCustomFuncs'[j] = gPersCustomFuncs[j]
    BY <1>f, <2>1 DEF TypeOK, NoFuncts
  <2>3. \A lib \in Complete : Holders(lib)' = Holders(lib)
    BY <1>f, <2>1, <2>2 DEF Holders, GoneOn
  <2>4. ASSUME NEW lib \in Complete \ leaked, gPclInitCounter' = 0, initPc' = "idle", NEW i \in Ids
        PROVE  gPersCustomFuncs'[i].handle # lib
    <3>1. CASE i = loopIdx
      BY <1>f, <2>2, <3>1
    <3>2. CASE i # loopIdx /\ i # Default /\ initPc = "quit" /\ loop' = "idle"
      <4>1. i < loopIdx'
        BY <1>f, <2>1, <3>2 DEF GoneOn
      <4>2. "deinit" \notin gPersCustomFuncs[i].functs
        BY <1>10, <2>2, <3>2, <4>1, InvalidatePassed, Apart
      <4> QED
        BY <1>f, <2>2, <3>2, <4>2, CompleteSpec
    <3>3. CASE i # loopIdx /\ ~ (initPc = "quit" /\ loop' = "idle")
      BY <1>h, <2>1, <2>2, <2>4, <3>3 DEF GoneOn
    <3>4. CASE i # loopIdx /\ i = Default
      BY <1>h, <2>2, <3>4
    <3> QED
      BY <3>1, <3>2, <3>3, <3>4
  <2>5. initPc' \in {"idle", "quit"}
    BY <2>1 DEF GoneOn
  <2>6. ASSUME NEW lib \in Complete \ leaked PROVE gPersCustomFuncs'[Default].handle # lib
    BY <1>f, <1>h, <2>2
  <2>7. ASSUME NEW lib \in Complete \ leaked PROVE OpenAt(lib)'
    BY <1>h, <2>1, <2>3, <2>4, <2>6 DEF OpenAt
  <2> QED
    BY <1>r, <2>1, <2>5, <2>7
<1>11. ASSUME \/ \E o \in Ops, i \in Ids : Call(o, i)
              \/ CallInit \/ CallEnter \/ CallLeave
              \/ ShutdownDeinit \/ DeinitLibrary
       PROVE  OpenInv'
  <2>1. /\ initPc' \notin {"load", "init"} /\ pc' # "load"
        /\ UNCHANGED <<gPersCustomFuncs, refs, gPclInitCounter, loopIdx, leaked>>
        /\ (initPc' = "idle" => initPc = "idle")
        /\ (loop' = "invalidate" <=> loop = "invalidate")
    BY <1>11, <1>f, Apart DEF Call, CallInit, CallEnter, CallLeave, ShutdownDeinit, DeinitLibrary,
       TurnInv, libs, init, gate, call, loops, hist
  <2>2. \A lib \in Complete : Holders(lib)' = Holders(lib)
    BY <2>1, HoldersSame
  <2> QED
    BY <1>h, <1>r, <2>1, <2>2 DEF OpenAt
<1>12. ASSUME Unblock \/ UNCHANGED vars PROVE OpenInv'
  <2>1. UNCHANGED <<libs, init, gPclInitCounter, call, loops, hist>>
    BY <1>12 DEF Unblock, vars, gate
  <2> QED
    BY <2>1 DEF OpenInv, OpenAt, Holders, libs, init, call, loops, hist
<1> QED
  BY <1>1, <1>2, <1>3, <1>4, <1>5, <1>6, <1>7, <1>8, <1>9, <1>10, <1>11, <1>12
  DEF Next, BeginStep, InnerStep

(* Reads, writes, shutdowns and new inits in any order open a complete     *)
(* library at most once for every entry that has named it, and after       *)
(* pclDeinitLibrary it is closed, unless a failing pclInitLibrary has left *)
(* it open or it was the default library.                                  *)
THEOREM OpenedOnceCorrect == Spec => []OpenedOnce
<1> DEFINE Inv == ~ overlapped => OpenInv
<1>1. Init => Inv
  <2> SUFFICES ASSUME Init PROVE OpenInv
    OBVIOUS
  <2>1. ASSUME NEW lib \in Complete
        PROVE  /\ Holders(lib) = {} /\ refs[lib] = 0
               /\ \A i \in Ids : gPersCustomFuncs[i].handle # lib
    BY LoaderAssumption DEF Init, Holders, NoFuncts, Complete
  <2> QED
    BY <2>1, FS_EmptySet, IdFacts DEF Init, OpenInv, OpenAt
<1>2. IInv /\ Inv /\ [Next]_vars => Inv'
  BY OpenStep, Apart
<1>3. IInv /\ Inv => OpenedOnce
  <2> SUFFICES ASSUME IInv, OpenInv, ~ overlapped, NEW lib \in Complete \ leaked
               PROVE  refs[lib] <=
                        IF running THEN Cardinality({i \in Ids : gCustomLibArray[i].libname = lib})
                                   ELSE 0
    BY DEF OpenedOnce
  <2> DEFINE named == {i \in Ids : gCustomLibArray[i].libname = lib}
  <2>1. /\ refs[lib] = Cardinality(Holders(lib))
        /\ gPclInitCounter = 0 /\ initPc = "idle" => \A i \in Ids : gPersCustomFuncs[i].handle # lib
    BY DEF OpenInv, OpenAt
  <2>2. ASSUME ~ running PROVE refs[lib] = 0
    <3>1. gPclInitCounter = 0 /\ initPc = "idle"
      BY <2>2 DEF IInv, TypeOK, TurnInv
    <3>2. Holders(lib) = {}
      BY <2>1, <3>1 DEF Holders
    <3> QED
      BY <2>1, <3>2, FS_EmptySet
  <2>3. Holders(lib) \subseteq named
    <3> SUFFICES ASSUME NEW i \in Ids, gPersCustomFuncs[i].handle = lib
                 PROVE  gCustomLibArray[i].libname = lib
      BY DEF Holders
    <3>1. lib \in Libs /\ lib # NULL
      BY LoaderAssumption DEF Complete
    <3>2. Handle(i) = lib
      BY <3>1, LoadedSpec DEF IInv
    <3> QED
      BY <3>1, <3>2 DEF Handle
  <2>4. IsFiniteSet(named)
    BY IdFacts, FS_Subset
  <2>5. Cardinality(Holders(lib)) <= Cardinality(named)
    BY <2>3, <2>4, FS_Subset
  <2>6. CASE running
    BY <2>1, <2>5, <2>6
  <2>7. CASE ~ running
    BY <2>2, <2>7
  <2> QED
    BY <2>6, <2>7
<1> HIDE DEF Inv
<1> QED
  BY <1>1, <1>2, <1>3, IInvCorrect, PTL DEF Spec

=============================================================================

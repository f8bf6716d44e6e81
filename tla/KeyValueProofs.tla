--------------------------- MODULE KeyValueProofs ---------------------------
(***************************************************************************)
(* The right database and the right value, for any resources, users and    *)
(* values, with failing plugins and shutdowns at any moment.               *)
(***************************************************************************)
EXTENDS KeyValue, TLAPS

(* Types, and that there is a call while one is in progress.               *)
TypeInv == TypeOK /\ (pc # "idle" => call \in Calls)

(* What a call is about.                                                   *)
LEMMA CallFacts ==
  ASSUME TypeInv, pc # "idle"
  PROVE  /\ call.res \in Resources /\ call.user \in Users
         /\ call.op = "write" => call.value \in Values
  BY DEF TypeInv, Calls

(* The databases and keys of a call are among those of the model.          *)
LEMMA NameFacts ==
  ASSUME NEW r \in Resources, NEW u \in Users
  PROVE  /\ \A p \in {"wc", "wt"}, t \in Types : Database(r.ldbid, p, t) \in Databases
         /\ DbKey(r, u) \in Keys /\ DefaultKey(r) \in Keys
         /\ \A s \in Storages : ArrayIdx(r.ldbid, s) \in Indices
         /\ RctIndex(r.ldbid) \in {RctIndex(q.ldbid) : q \in Resources}
  BY DEF Databases, Keys, Indices

(* The entries of the table a call may go on with.                         *)
Confs == {ConfigKey(r) : r \in Resources} \cup {LocalCached}
           \cup {[ConfigKey(r) EXCEPT !.policy = "wc"] : r \in Resources}

(* They have a policy and a storage.                                       *)
LEMMA ConfFacts ==
  ASSUME NEW c \in Confs
  PROVE  c.policy \in {"wc", "wt"} /\ c.storage \in Storages
<1>1. CASE c = LocalCached
  BY <1>1 DEF LocalCached, Storages
<1>2. ASSUME NEW r \in Resources, c = ConfigKey(r)
      PROVE  c.policy \in {"wc", "wt"} /\ c.storage \in Storages
  BY <1>2, ResourceAssumption DEF ConfigKey
<1>3. ASSUME NEW r \in Resources, c = [ConfigKey(r) EXCEPT !.policy = "wc"]
      PROVE  c.policy \in {"wc", "wt"} /\ c.storage \in Storages
  BY <1>3, ResourceAssumption DEF ConfigKey
<1> QED
  BY <1>1, <1>2, <1>3 DEF Confs

(* Going on with an entry of the table keeps the types.                    *)
LEMMA TypeProceed ==
  ASSUME TypeInv, pc = "rctRead", NEW c \in Confs, Proceed(c) \/ Finish(Error),
         UNCHANGED <<scenario, state>>
  PROVE  TypeInv'
<1>1. CASE Finish(Error)
  BY <1>1 DEF Finish, TypeInv, TypeOK, state, Outcomes
<1>2. CASE Proceed(c)
  BY <1>1, <1>2, ConfFacts DEF Proceed, TypeInv, TypeOK, state, Confs, Types
<1> QED
  BY <1>1, <1>2

(* A lookup that goes on to the defaults, or ends, keeps the types.        *)
LEMMA TypeMissed ==
  ASSUME TypeInv, pc = "use", Missed, UNCHANGED <<scenario, state>> PROVE TypeInv'
  BY DEF Missed, NextDefault, Finish, TypeInv, TypeOK, state, Outcomes, Types

(* What a database holds is an outcome.                                    *)
LEMMA EntryFacts ==
  ASSUME TypeInv, pc = "use", handleDB \in Databases
  PROVE  Entry \in Databases \X Keys /\ store[Entry] \in Outcomes
<1>1. Entry \in Databases \X Keys
  BY CallFacts, NameFacts DEF Entry
<1> QED
  BY <1>1 DEF TypeInv, TypeOK, Outcomes

(* Reading, writing and deleting keep the types.                           *)
LEMMA TypeUse ==
  ASSUME TypeInv, UseLookup \/ UseWrite \/ UseDelete, UNCHANGED scenario PROVE TypeInv'
<1>1. CASE UseLookup
  <2>1. CASE Missed
    BY <1>1, <2>1, TypeMissed DEF UseLookup
  <2>2. ASSUME NEW o \in Outcomes, Finish(o) PROVE TypeInv'
    BY <1>1, <2>2 DEF UseLookup, Finish, TypeInv, TypeOK, state
  <2> QED
    BY <1>1, <2>1, <2>2, EntryFacts DEF UseLookup, Outcomes
<1>2. ASSUME pc = "use", NEW o \in Outcomes, Finish(o),
             store' \in [Databases \X Keys -> Values \cup {Absent}],
             latest' \in [Resources \X Users -> Values \cup {Absent}],
             UNCHANGED <<locked, gResourceOpen, gHandlesDB, plugin, strayed>>
      PROVE  TypeInv'
  BY <1>2 DEF Finish, TypeInv, TypeOK
<1>3. ASSUME pc = "use", NEW v \in Values \cup {Absent}, Put(v)
      PROVE  latest' \in [Resources \X Users -> Values \cup {Absent}]
  BY <1>3 DEF Put, TypeInv, TypeOK
<1>4. ASSUME pc = "use", NEW v \in Values \cup {Absent},
             store' = [store EXCEPT ![Entry] = v]
      PROVE  store' \in [Databases \X Keys -> Values \cup {Absent}]
  BY <1>4 DEF TypeInv, TypeOK
<1>5. TypeOK
  BY DEF TypeInv
<1>6. CASE UseWrite
  <2>1. pc = "use" /\ call.value \in Values
    BY <1>6, CallFacts DEF UseWrite
  <2>2. PICK o \in Outcomes : Finish(o)
    BY <1>6, <2>1 DEF UseWrite, Announced, Outcomes
  <2>3. /\ store' \in [Databases \X Keys -> Values \cup {Absent}]
        /\ latest' \in [Resources \X Users -> Values \cup {Absent}]
    BY <1>3, <1>4, <1>5, <1>6, <2>1 DEF UseWrite, TypeOK
  <2> QED
    BY <1>2, <1>6, <2>1, <2>2, <2>3 DEF UseWrite
<1>7. CASE UseDelete
  <2>1. pc = "use"
    BY <1>7 DEF UseDelete
  <2>2. PICK o \in Outcomes : Finish(o)
    BY <1>7, <2>1, EntryFacts DEF UseDelete, Outcomes
  <2>3. /\ store' \in [Databases \X Keys -> Values \cup {Absent}]
        /\ latest' \in [Resources \X Users -> Values \cup {Absent}]
    BY <1>3, <1>4, <1>5, <1>7, <2>1 DEF UseDelete, TypeOK
  <2> QED
    BY <1>2, <1>7, <2>1, <2>2, <2>3 DEF UseDelete
<1> QED
  BY <1>1, <1>6, <1>7

(* So does a custom library.                                               *)
LEMMA TypePlugin ==
  ASSUME TypeInv, PluginLookup \/ PluginWrite \/ PluginDelete, UNCHANGED scenario
  PROVE  TypeInv'
<1>1. /\ call.res \in Resources /\ call.user \in Users
      /\ call.op = "write" => call.value \in Values
  BY CallFacts DEF PluginLookup, PluginWrite, PluginDelete, PluginPut
<1>2. ASSUME NEW o \in Outcomes, Finish(o),
             plugin' \in [Resources -> Values \cup {Absent}],
             latest' \in [Resources \X Users -> Values \cup {Absent}],
             UNCHANGED <<locked, gResourceOpen, gHandlesDB, store, strayed>>, call \in Calls
      PROVE  TypeInv'
  BY <1>2 DEF Finish, TypeInv, TypeOK
<1>3. CASE PluginLookup
  <2>1. CASE Finish(plugin[call.res])
    <3>1. plugin[call.res] \in Outcomes
      BY <1>1 DEF TypeInv, TypeOK, Outcomes
    <3>2. UNCHANGED state /\ call \in Calls
      BY <1>3 DEF PluginLookup, TypeInv
    <3> QED
      BY <1>2, <2>1, <3>1, <3>2 DEF TypeInv, TypeOK, state
  <2>2. CASE info' = [info EXCEPT !.policy = "wc"] /\ NextDefault("confdefault")
    <3>1. info' \in {ConfigKey(r) : r \in Resources} \cup {LocalCached}
                      \cup {[ConfigKey(r) EXCEPT !.policy = "wc"] : r \in Resources}
      <4>1. [LocalCached EXCEPT !.policy = "wc"] = LocalCached
        BY DEF LocalCached
      <4>2. \A r \in Resources :
               [[ConfigKey(r) EXCEPT !.policy = "wc"] EXCEPT !.policy = "wc"]
                  = [ConfigKey(r) EXCEPT !.policy = "wc"]
        BY DEF ConfigKey
      <4> QED
        BY <2>2, <4>1, <4>2 DEF TypeInv, TypeOK
    <3> QED
      BY <1>3, <2>2, <3>1 DEF PluginLookup, NextDefault, TypeInv, TypeOK, state, Types
  <2> QED
    BY <1>3, <2>1, <2>2 DEF PluginLookup
<1>4. CASE PluginWrite \/ PluginDelete
  <2>1. PICK v \in Values \cup {Absent}, o \in Outcomes :
           /\ Finish(o)
           /\ \/ plugin' = [plugin EXCEPT ![call.res] = v] /\ Put(v)
              \/ UNCHANGED <<plugin, latest>>
    <3>1. CASE PluginWrite
      BY <1>1, <3>1 DEF PluginWrite, PluginPut, Announced, Outcomes
    <3>2. CASE PluginDelete
      BY <3>2 DEF PluginDelete, PluginPut, Announced, Outcomes
    <3> QED
      BY <1>4, <3>1, <3>2
  <2>2. /\ plugin' \in [Resources -> Values \cup {Absent}]
        /\ latest' \in [Resources \X Users -> Values \cup {Absent}]
    BY ZenonT(40), <2>1 DEF Put, TypeInv, TypeOK
  <2> QED
    BY <1>2, <1>4, <2>1, <2>2 DEF PluginWrite, PluginDelete, PluginPut, TypeInv
<1> QED
  BY <1>3, <1>4

(* So does getting a handle.                                               *)
LEMMA TypeGet == ASSUME TypeInv, DatabaseGet, UNCHANGED scenario PROVE TypeInv'
<1>1. /\ Database(call.res.ldbid, info.policy, dbType) \in Databases
      /\ Slot \in Indices \X Types
  BY CallFacts, NameFacts, ConfFacts DEF DatabaseGet, TypeInv, TypeOK, Confs, Slot
<1>2. handleDB' \in Databases \cup {NoDb}
  BY <1>1 DEF DatabaseGet, TypeInv, TypeOK
<1>3. gHandlesDB' \in [Indices \X Types -> Databases \cup {NoDb}]
  BY <1>2 DEF DatabaseGet, TypeInv, TypeOK
<1>4. strayed' \subseteq {r.id : r \in Resources}
  <2>1. call.res \in Resources
    BY CallFacts DEF DatabaseGet
  <2>2. strayed' \in {strayed, strayed \cup {call.res.id}}
    BY DEF DatabaseGet
  <2> QED
    BY <2>1, <2>2 DEF TypeInv, TypeOK
<1> QED
  BY <1>2, <1>3, <1>4 DEF DatabaseGet, TypeInv, TypeOK

(* Every step keeps the types.                                             *)
LEMMA TypeStep == TypeInv /\ [Next]_vars => TypeInv'
<1>1. CASE UNCHANGED vars
  BY <1>1 DEF vars, state, TypeInv, TypeOK
<1> SUFFICES ASSUME TypeInv, Step, UNCHANGED scenario PROVE TypeInv'
  BY <1>1 DEF Next
<1>2. CASE GetTable
  <2>1. call.res \in Resources
    BY <1>2, CallFacts DEF GetTable
  <2>2. gResourceOpen' \subseteq {RctIndex(r.ldbid) : r \in Resources}
    BY <1>2, <2>1 DEF GetTable, TypeInv, TypeOK
  <2> QED
    BY <1>2, <2>2 DEF GetTable, TypeInv, TypeOK
<1>3. CASE ReadTable
  <2>1. call.res \in Resources
    BY <1>3, CallFacts DEF ReadTable
  <2>2. ConfigKey(call.res) \in Confs /\ LocalCached \in Confs
    BY <2>1 DEF Confs
  <2> QED
    BY <1>3, <2>2, TypeProceed DEF ReadTable
<1>4. CASE Return
  BY <1>4 DEF Return, Idle, TypeInv, TypeOK, state, Types, Outcomes
<1>5. CASE PrepareShutdown
  <2>1. gHandlesDB' \in [Indices \X Types -> Databases \cup {NoDb}]
    BY <1>5 DEF PrepareShutdown, TypeInv, TypeOK, CloseTables
  <2>2. handleDB' \in Databases \cup {NoDb, Closed}
    BY <1>5 DEF PrepareShutdown, TypeInv, TypeOK, CloseTables
  <2> QED
    BY <1>5, <2>1, <2>2 DEF PrepareShutdown, TypeInv, TypeOK, CloseTables
<1>6. CASE Unlock
  BY <1>6 DEF Unlock, TypeInv, TypeOK
<1>7. ASSUME NEW c \in Calls, Begin(c) PROVE TypeInv'
  BY <1>7 DEF Begin, TypeInv, TypeOK, state
<1> QED
  BY <1>2, <1>3, <1>4, <1>5, <1>6, <1>7, TypeGet, TypeUse, TypePlugin
     DEF Step, UseRead, UseSize, PluginRead, PluginSize

(* The initial states are well typed.                                      *)
LEMMA TypeInit == Init => TypeInv
<1> SUFFICES ASSUME Init PROVE TypeInv
  OBVIOUS
<1>1. store \in [Databases \X Keys -> Values \cup {Absent}]
  BY ValueAssumption DEF Init
<1> QED
  BY <1>1 DEF Init, TypeInv, TypeOK, Types, Outcomes

(* The variables keep their types, whatever fails.                         *)
THEOREM TypeCorrect == Spec => []TypeOK
<1>1. TypeInv => TypeOK
  BY DEF TypeInv
<1> QED
  BY <1>1, TypeInit, TypeStep, PTL DEF Spec

-----------------------------------------------------------------------------
(* The right database                                                      *)

(* A call goes on with an entry of its resource.                           *)
InfoInv ==
  /\ pc # "idle" => call.res \in scenario.uses
  /\ (pc = "rctRead" /\ ~ Disturbed) => RctIndex(call.res.ldbid) \in gResourceOpen
  /\ pc \in {"get", "use"} => /\ info \in DbConfs(call.res)
                              /\ dbType \in {info.policy} \cup DefaultTypes
  /\ pc = "plugin" => IsCustom(call.res) /\ info = ConfigKey(call.res)

(* A handle in the array is one that some resource means by its place.     *)
SlotInv == \A s \in Indices \X Types :
             gHandlesDB[s] # NoDb => gHandlesDB[s] \in Meant(s[1], s[2])

IInv == TypeInv /\ InfoInv /\ SlotInv /\ RightDatabase

(* What may be found and what is meant does not change.                    *)
LEMMA SameScenario ==
  ASSUME UNCHANGED scenario
  PROVE  /\ Disturbed' <=> Disturbed
         /\ \A r : DbConfs(r)' = DbConfs(r)
         /\ \A i, t : Meant(i, t)' = Meant(i, t)
  BY DEF Disturbed, DbConfs, Meant

(* The entry of the table decides where a call goes.                       *)
LEMMA InfoRead == ASSUME IInv, ReadTable, UNCHANGED scenario PROVE InfoInv'
<1>1. /\ call.res \in Resources /\ pc = "rctRead" /\ call.res \in scenario.uses
      /\ UNCHANGED <<call, gResourceOpen>>
  BY CallFacts DEF ReadTable, Proceed, Finish, state, IInv, InfoInv
<1>2. CASE Finish(Error)
  BY <1>1, <1>2 DEF Finish, InfoInv
<1>3. CASE /\ ~ (call.res.listed /\ RctIndex(call.res.ldbid) \in gResourceOpen)
           /\ call.res.ldbid = PCL_LDBID_LOCAL /\ Proceed(LocalCached)
  <2>1. LocalCached \in DbConfs(call.res) /\ LocalCached.storage = "local"
    BY <1>1, <1>3 DEF IInv, InfoInv, DbConfs, LocalCached
  <2> QED
    BY <1>1, <1>2, <1>3, <2>1, SameScenario DEF Proceed, InfoInv, DefaultTypes
<1>4. CASE call.res.listed /\ Proceed(ConfigKey(call.res))
  <2>1. /\ ConfigKey(call.res).storage = call.res.storage
        /\ ~ IsCustom(call.res) => ConfigKey(call.res) \in DbConfs(call.res)
        /\ IsCustom(call.res) <=> call.res.storage = "custom"
    BY <1>4 DEF ConfigKey, DbConfs, IsCustom
  <2> QED
    BY <1>1, <1>2, <1>4, <2>1, SameScenario DEF Proceed, InfoInv, DefaultTypes
<1> QED
  BY <1>2, <1>3, <1>4 DEF ReadTable

(* So does what a custom library answers.                                  *)
LEMMA InfoPlugin ==
  ASSUME IInv, PluginLookup \/ PluginWrite \/ PluginDelete, UNCHANGED scenario PROVE InfoInv'
<1>1. CASE PluginLookup /\ info' = [info EXCEPT !.policy = "wc"] /\ NextDefault("confdefault")
  <2>1. IsCustom(call.res) /\ info = ConfigKey(call.res) /\ call.res \in scenario.uses
    BY <1>1 DEF PluginLookup, IInv, InfoInv
  <2>2. info' \in DbConfs(call.res)
    BY <1>1, <2>1 DEF DbConfs, IsCustom
  <2> QED
    BY <1>1, <2>1, <2>2, SameScenario DEF NextDefault, InfoInv, DefaultTypes
<1>2. ASSUME NEW o, Finish(o), pc = "plugin" PROVE InfoInv'
  BY <1>2 DEF Finish, IInv, InfoInv
<1> QED
  BY <1>1, <1>2 DEF PluginLookup, PluginWrite, PluginDelete, PluginPut, Announced

(* Using a handle keeps the entry, or ends the call.                       *)
LEMMA InfoUse ==
  ASSUME IInv, UseLookup \/ UseWrite \/ UseDelete, UNCHANGED scenario PROVE InfoInv'
<1>1. ASSUME NEW o, Finish(o), pc = "use" PROVE InfoInv'
  BY <1>1 DEF Finish, IInv, InfoInv
<1>2. ASSUME NEW t \in DefaultTypes, NextDefault(t), UNCHANGED info, pc = "use"
      PROVE  InfoInv'
  BY <1>2, SameScenario DEF NextDefault, IInv, InfoInv
<1>3. CASE UseLookup
  BY <1>1, <1>2, <1>3 DEF UseLookup, Missed, DefaultTypes
<1>4. CASE UseWrite
  BY <1>1, <1>4 DEF UseWrite, Announced
<1>5. CASE UseDelete
  BY <1>1, <1>5 DEF UseDelete
<1> QED
  BY <1>3, <1>4, <1>5

(* A handle is one that was left by a resource that means this place, or   *)
(* a new one of the resource of the call.                                  *)
LEMMA GetRight ==
  ASSUME IInv, DatabaseGet, UNCHANGED scenario
  PROVE  InfoInv' /\ SlotInv' /\ RightDatabase'
<1> DEFINE path == Database(call.res.ldbid, info.policy, dbType)
<1>1. /\ call.res \in Resources /\ info \in DbConfs(call.res) /\ dbType \in Types
      /\ pc = "get" /\ call.res \in scenario.uses
      /\ dbType \in {info.policy} \cup DefaultTypes
  BY CallFacts DEF DatabaseGet, IInv, InfoInv, TypeInv, TypeOK
<1>2. Slot \in Indices \X Types /\ Slot[1] = ArrayIdx(call.res.ldbid, info.storage)
      /\ Slot[2] = dbType
  BY <1>1, NameFacts, CallFacts, ConfFacts DEF IInv, TypeInv, TypeOK, Confs, Slot
<1>3. path \in Meant(Slot[1], dbType)
  BY <1>1, <1>2 DEF Meant
<1>4. \/ handleDB' = NoDb /\ UNCHANGED gHandlesDB
      \/ /\ handleDB' \in Meant(Slot[1], dbType)
         /\ gHandlesDB' = [gHandlesDB EXCEPT ![Slot] = handleDB']
  <2>1. gHandlesDB[Slot] # NoDb => gHandlesDB[Slot] \in Meant(Slot[1], dbType)
    BY <1>2 DEF IInv, SlotInv
  <2> QED
    BY <1>3, <2>1 DEF DatabaseGet
<1>5. InfoInv'
  BY <1>1, SameScenario DEF DatabaseGet, InfoInv
<1>6. RightDatabase'
  <2>1. UNCHANGED <<call, info, dbType>>
    BY DEF DatabaseGet
  <2>2. handleDB' \in Databases => handleDB' \in Meant(Slot[1], dbType)
    BY <1>4, HandleAssumption
  <2> QED
    BY <1>2, <2>1, <2>2, SameScenario DEF RightDatabase
<1>7. CASE UNCHANGED gHandlesDB
  BY <1>5, <1>6, <1>7, SameScenario DEF IInv, SlotInv
<1>8. CASE /\ handleDB' \in Meant(Slot[1], dbType)
           /\ gHandlesDB' = [gHandlesDB EXCEPT ![Slot] = handleDB']
  <2> SUFFICES ASSUME NEW s \in Indices \X Types, gHandlesDB'[s] # NoDb
               PROVE  gHandlesDB'[s] \in Meant(s[1], s[2])
    BY <1>5, <1>6, SameScenario DEF SlotInv
  <2>1. gHandlesDB \in [Indices \X Types -> Databases \cup {NoDb}]
    BY DEF IInv, TypeInv, TypeOK
  <2>2. CASE s = Slot
    BY <1>2, <1>8, <2>1, <2>2
  <2>3. CASE s # Slot
    BY <1>8, <2>1, <2>3 DEF IInv, SlotInv
  <2> QED
    BY <2>2, <2>3
<1> QED
  BY <1>4, <1>7, <1>8

(* A shutdown takes handles away and changes none.                         *)
LEMMA ShutdownRight ==
  ASSUME IInv, PrepareShutdown, UNCHANGED scenario
  PROVE  InfoInv' /\ SlotInv' /\ RightDatabase'
<1>1. InfoInv'
  BY SameScenario DEF PrepareShutdown, IInv, InfoInv, CloseTables
<1>2. \A s \in Indices \X Types : gHandlesDB'[s] \in {gHandlesDB[s], NoDb}
  BY DEF PrepareShutdown, CloseTables
<1>3. SlotInv'
  BY <1>2, SameScenario DEF IInv, SlotInv
<1>4. handleDB' \in {handleDB, Closed} /\ UNCHANGED <<pc, call, info, dbType>>
  BY DEF PrepareShutdown, CloseTables
<1>5. RightDatabase'
  BY <1>4, SameScenario, HandleAssumption DEF IInv, RightDatabase
<1> QED
  BY <1>1, <1>3, <1>5

(* Every step keeps the invariant.                                         *)
LEMMA RightStep == IInv /\ [Next]_vars => IInv'
<1> SUFFICES ASSUME IInv, [Next]_vars PROVE IInv'
  OBVIOUS
<1>1. TypeInv'
  BY TypeStep DEF IInv
<1>s. UNCHANGED scenario
  BY DEF Next, vars
<1>2. ASSUME UNCHANGED gHandlesDB, InfoInv', RightDatabase' PROVE IInv'
  BY <1>1, <1>2, <1>s, SameScenario DEF IInv, SlotInv
<1>3. ASSUME pc' # "use" PROVE RightDatabase'
  BY <1>3 DEF RightDatabase
<1>4. ASSUME NEW c \in Calls, Begin(c) PROVE IInv'
  <2>1. InfoInv'
    BY <1>4, <1>s DEF Begin, InfoInv
  <2> QED
    BY <1>2, <1>3, <1>4, <2>1 DEF Begin, state
<1>5. CASE GetTable
  <2>1. InfoInv'
    BY <1>5, <1>s, SameScenario DEF GetTable, IInv, InfoInv
  <2> QED
    BY <1>2, <1>3, <1>5, <2>1 DEF GetTable
<1>6. CASE ReadTable
  <2>1. pc' # "use" /\ UNCHANGED gHandlesDB
    BY <1>6 DEF ReadTable, Proceed, Finish, state
  <2> QED
    BY <1>s, <1>2, <1>3, <1>6, <2>1, InfoRead
<1>7. CASE DatabaseGet
  BY <1>s, <1>1, <1>7, GetRight DEF IInv
<1>8. CASE UseRead \/ UseSize \/ UseWrite \/ UseDelete
  <2>1. pc' # "use" /\ UNCHANGED gHandlesDB
    BY <1>8 DEF UseRead, UseSize, UseLookup, UseWrite, UseDelete, Missed, NextDefault,
                Announced, Finish, state
  <2> QED
    BY <1>s, <1>2, <1>3, <1>8, <2>1, InfoUse DEF UseRead, UseSize
<1>9. CASE PluginRead \/ PluginSize \/ PluginWrite \/ PluginDelete
  <2>1. pc' # "use" /\ UNCHANGED gHandlesDB
    BY <1>9 DEF PluginRead, PluginSize, PluginLookup, PluginWrite, PluginDelete,
       PluginPut,
                NextDefault, Announced, Finish, state
  <2> QED
    BY <1>s, <1>2, <1>3, <1>9, <2>1, InfoPlugin DEF PluginRead, PluginSize
<1>10. CASE Return
  BY <1>2, <1>3, <1>10 DEF Return, Idle, InfoInv, state
<1>11. CASE PrepareShutdown
  BY <1>s, <1>1, <1>11, ShutdownRight DEF IInv
<1>12. CASE Unlock \/ UNCHANGED vars
  <2>1. UNCHANGED <<scenario, pc, call, info, dbType, handleDB, gResourceOpen, gHandlesDB>>
    BY <1>s, <1>12 DEF Unlock, vars, state
  <2>2. InfoInv' /\ RightDatabase'
    BY <2>1, SameScenario DEF IInv, InfoInv, RightDatabase
  <2> QED
    BY <1>2, <2>1, <2>2
<1> QED
  BY <1>4, <1>5, <1>6, <1>7, <1>8, <1>9, <1>10, <1>11, <1>12 DEF Next, Step

(* A call uses a database that some resource in use means by this place of *)
(* gHandlesDB, even if opening, reading, writing and closing fail and a    *)
(* shutdown interferes at any moment.                                      *)
THEOREM RightDatabaseCorrect == Spec => []RightDatabase
<1>1. Init => IInv
  BY TypeInit DEF Init, IInv, InfoInv, SlotInv, RightDatabase
<1>2. IInv => RightDatabase
  BY DEF IInv
<1> QED
  BY <1>1, <1>2, RightStep, PTL DEF Spec

-----------------------------------------------------------------------------
(* The right value                                                         *)

(* The resources whose data is where they have it.                         *)
Clean(r) == Sole(r) /\ r.id \notin strayed

(* A change goes to the entry of its user or of the configurable default,  *)
(* and a call that has not strayed to the database of its resource.        *)
RouteInv ==
  /\ pc \in {"get", "use"} =>
       /\ info.storage = "custom" => call.op \in {"read", "size"} /\ dbType \in DefaultTypes
       /\ call.op = "write" => dbType = IF call.user = DefaultUser THEN "confdefault"
                                                                   ELSE info.policy
       /\ call.op = "delete" => dbType = info.policy
  /\ (pc = "use" /\ handleDB \in Databases /\ call.res.id \notin strayed) => OwnWay

(* The entries of a resource in the databases.                             *)
DataEntry(r, u)   == <<Database(r.ldbid, OwnPolicy(r), OwnPolicy(r)), DbKey(r, u)>>
DefaultEntry(r, t) == <<OwnDefault(r, t), DefaultKey(r)>>

(* What databases and custom libraries hold is what was last written.      *)
StoreInv ==
  \A r \in Resources : Clean(r) =>
    /\ \A u \in Users : store[DataEntry(r, u)] = IF u = DefaultUser \/ IsCustom(r) THEN Absent
                                                  ELSE latest[<<r, u>>]
    /\ store[DefaultEntry(r, "confdefault")] = latest[<<r, DefaultUser>>]
    /\ store[DefaultEntry(r, "default")] = Factory[r]
    /\ IsCustom(r) => plugin[r] = latest[<<r, Node>>]

DataInv == RouteInv /\ StoreInv

(* Without failures, a lookup that has come to the defaults has missed     *)
(* only what is not there.                                                 *)
OwnAbsent(r, u) == Owner(r, u) = DefaultUser \/ latest[<<r, Owner(r, u)>>] = Absent
SeekInv ==
  (/\ ~ Disturbed /\ pc \in {"get", "use"} /\ call.op \in {"read", "size"}
   /\ Clean(call.res) /\ HasDefaults(call.res)) =>
    /\ dbType \in DefaultTypes => OwnAbsent(call.res, call.user) /\ Slot[1] < DbTableSize
    /\ dbType = "default" => latest[<<call.res, DefaultUser>>] = Absent
    /\ pc = "use" => IF Slot[1] >= DbTableSize THEN handleDB = NoDb ELSE handleDB \in Databases

(* A resource has its data under one policy.                               *)
LEMMA PolicyType ==
  ASSUME NEW r \in Resources PROVE OwnPolicy(r) \in {"wc", "wt"}
  BY ResourceAssumption DEF OwnPolicy

(* The entries of the databases that the invariant speaks of exist.        *)
LEMMA EntryType ==
  ASSUME NEW r \in Resources, NEW u \in Users, NEW t \in DefaultTypes
  PROVE  /\ DataEntry(r, u) \in Databases \X Keys
         /\ DefaultEntry(r, t) \in Databases \X Keys
  BY PolicyType, NameFacts DEF DataEntry, DefaultEntry, OwnDefault, Types, DefaultTypes

(* Every entry belongs to one resource, and to one user or one default.    *)
LEMMA EntriesDiffer ==
  ASSUME NEW r \in Resources, Sole(r), NEW q \in Resources
  PROVE  /\ \A u, v \in Users : DataEntry(r, u) = DataEntry(q, v) => r = q /\ u = v
         /\ \A t, s \in DefaultTypes : DefaultEntry(r, t) = DefaultEntry(q, s) => r = q /\ t = s
         /\ \A u \in Users, t \in DefaultTypes : /\ DataEntry(r, u) # DefaultEntry(q, t)
                                                /\ DataEntry(q, u) # DefaultEntry(r, t)
<1>1. ASSUME NEW u \in Users, NEW v \in Users, DataEntry(r, u) = DataEntry(q, v)
      PROVE  r = q /\ u = v
  <2>1. Dir(r) = Dir(q) /\ r.id = q.id /\ u = v
    BY <1>1 DEF DataEntry, Database, DbKey, Dir
  <2> QED
    BY <2>1 DEF Sole
<1>2. ASSUME NEW t \in DefaultTypes, NEW s \in DefaultTypes,
             DefaultEntry(r, t) = DefaultEntry(q, s)
      PROVE  r = q /\ t = s
  <2>1. Dir(r) = Dir(q) /\ r.id = q.id /\ t = s
    BY <1>2 DEF DefaultEntry, OwnDefault, Database, DefaultKey, Dir
  <2> QED
    BY <2>1 DEF Sole
<1>3. ASSUME NEW u \in Users, NEW t \in DefaultTypes
      PROVE  DataEntry(r, u) # DefaultEntry(q, t) /\ DataEntry(q, u) # DefaultEntry(r, t)
  <2>1. OwnPolicy(r) # t /\ OwnPolicy(q) # t
    BY PolicyType DEF DefaultTypes
  <2> QED
    BY <2>1 DEF DataEntry, DefaultEntry, OwnDefault, Database
<1> QED
  BY <1>1, <1>2, <1>3

(* The entry that a call uses is one of its own resource.                  *)
LEMMA EntryUsed ==
  ASSUME IInv, RouteInv, pc = "use", handleDB \in Databases, call.res.id \notin strayed
  PROVE  /\ call.res \in Resources /\ call.user \in Users
         /\ dbType \in DefaultTypes => Entry = DefaultEntry(call.res, dbType)
         /\ dbType \notin DefaultTypes => Entry = DataEntry(call.res, call.user)
<1>1. call.res \in Resources /\ call.user \in Users
  BY CallFacts DEF IInv
<1>2. /\ handleDB = Database(call.res.ldbid, OwnPolicy(call.res), dbType)
      /\ info.policy = OwnPolicy(call.res)
  BY DEF RouteInv, OwnWay
<1>3. dbType \in {OwnPolicy(call.res)} \cup DefaultTypes
  BY <1>2 DEF IInv, InfoInv
<1> QED
  BY <1>1, <1>2, <1>3 DEF Entry, DefaultEntry, DataEntry, OwnDefault

(* No other call uses an entry of a resource that has not strayed.         *)
LEMMA EntryMine ==
  ASSUME IInv, RouteInv, pc = "use", handleDB \in Databases, NEW r \in Resources, Clean(r)
  PROVE  /\ \A u \in Users :
              DataEntry(r, u) = Entry
                <=> r = call.res /\ u = call.user /\ dbType \notin DefaultTypes
         /\ \A t \in DefaultTypes :
              DefaultEntry(r, t) = Entry <=> r = call.res /\ t = dbType
<1>1. CASE call.res.id = r.id
  <2>1. call.res.id \notin strayed /\ Sole(r)
    BY <1>1 DEF Clean
  <2>2. CASE dbType \in DefaultTypes
    BY <2>1, <2>2, EntryUsed, EntriesDiffer
  <2>3. CASE dbType \notin DefaultTypes
    BY <2>1, <2>3, EntryUsed, EntriesDiffer
  <2> QED
    BY <2>2, <2>3
<1>2. CASE call.res.id # r.id
  <2>1. Entry[2][3] = call.res.id
    BY DEF Entry, DefaultKey, DbKey
  <2>2. \A u : DataEntry(r, u)[2][3] = r.id
    BY DEF DataEntry, DbKey
  <2>3. \A t : DefaultEntry(r, t)[2][3] = r.id
    BY DEF DefaultEntry, DefaultKey
  <2> QED
    BY <1>2, <2>1, <2>2, <2>3
<1> QED
  BY <1>1, <1>2

(* What a call finds in a database is its own, or nothing.                 *)
LEMMA EntryValue ==
  ASSUME IInv, RouteInv, StoreInv, pc = "use", handleDB \in Databases, Clean(call.res)
  PROVE  /\ dbType = "confdefault" => store[Entry] = latest[<<call.res, DefaultUser>>]
         /\ dbType = "default" => store[Entry] = Factory[call.res]
         /\ dbType \notin DefaultTypes =>
              /\ Owner(call.res, call.user) = call.user
              /\ store[Entry] = IF call.user = DefaultUser THEN Absent
                                ELSE latest[<<call.res, call.user>>]
<1>d. "confdefault" \in DefaultTypes /\ "default" \in DefaultTypes
  BY DEF DefaultTypes
<1>r. call.res \in Resources /\ call.user \in Users /\ call.res.id \notin strayed
  BY CallFacts DEF Clean, IInv
<1>1. ASSUME dbType = "confdefault" PROVE store[Entry] = latest[<<call.res, DefaultUser>>]
  <2>1. store[DefaultEntry(call.res, "confdefault")] = latest[<<call.res, DefaultUser>>]
    BY <1>r DEF StoreInv
  <2>2. DefaultEntry(call.res, dbType) = DefaultEntry(call.res, "confdefault")
    BY <1>1
  <2> QED
    BY <1>d, <1>r, <1>1, <2>1, <2>2, EntryUsed
<1>2. ASSUME dbType = "default" PROVE store[Entry] = Factory[call.res]
  <2>1. store[DefaultEntry(call.res, "default")] = Factory[call.res]
    BY <1>r DEF StoreInv
  <2>2. DefaultEntry(call.res, dbType) = DefaultEntry(call.res, "default")
    BY <1>2
  <2> QED
    BY <1>d, <1>r, <1>2, <2>1, <2>2, EntryUsed
<1>3. ASSUME dbType \notin DefaultTypes
      PROVE  /\ Owner(call.res, call.user) = call.user
             /\ store[Entry] = IF call.user = DefaultUser THEN Absent
                               ELSE latest[<<call.res, call.user>>]
  <2>1. ~ IsCustom(call.res) /\ Entry = DataEntry(call.res, call.user)
    BY <1>r, <1>3, EntryUsed DEF RouteInv, OwnWay
  <2>2. Owner(call.res, call.user) = call.user
    BY <2>1 DEF Owner, IsCustom
  <2> QED
    BY <1>r, <2>1, <2>2 DEF StoreInv
<1> QED
  BY <1>1, <1>2, <1>3

(* The databases hold the factory defaults to begin with.                  *)
LEMMA StoreInit == Init => StoreInv
<1> SUFFICES ASSUME Init, NEW r \in Resources, Sole(r)
             PROVE  /\ \A u \in Users : store[DataEntry(r, u)] = Absent
                    /\ store[DefaultEntry(r, "confdefault")] = Absent
                    /\ store[DefaultEntry(r, "default")] = Factory[r]
                    /\ plugin[r] = Absent
                    /\ \A u \in Users : latest[<<r, u>>] = Absent
  BY UserAssumption DEF StoreInv, Clean, Init
<1> DEFINE Mine(e) == {q \in Resources : e = DefaultEntry(q, "default")}
<1>1. \A e \in Databases \X Keys :
        store[e] = IF Mine(e) = {} THEN Absent ELSE Factory[CHOOSE q \in Mine(e) : TRUE]
  BY DEF Init, DefaultEntry
<1>2. "confdefault" \in DefaultTypes /\ "default" \in DefaultTypes
  BY DEF DefaultTypes
<1>3. ASSUME NEW u \in Users PROVE store[DataEntry(r, u)] = Absent
  <2>1. Mine(DataEntry(r, u)) = {}
    BY <1>2, EntriesDiffer
  <2> QED
    BY <1>1, <1>2, <2>1, EntryType
<1>4. store[DefaultEntry(r, "confdefault")] = Absent
  <2>1. Mine(DefaultEntry(r, "confdefault")) = {}
    BY <1>2, EntriesDiffer
  <2> QED
    BY <1>1, <1>2, <2>1, EntryType, UserAssumption
<1>5. store[DefaultEntry(r, "default")] = Factory[r]
  <2>1. Mine(DefaultEntry(r, "default")) = {r}
    BY <1>2, EntriesDiffer
  <2> HIDE DEF Mine
  <2>2. (CHOOSE q \in Mine(DefaultEntry(r, "default")) : TRUE) = r
    BY <2>1
  <2>3. Mine(DefaultEntry(r, "default")) # {}
    BY <2>1
  <2> QED
    BY <1>1, <1>2, <2>2, <2>3, EntryType, UserAssumption
<1> QED
  BY <1>3, <1>4, <1>5 DEF Init

(* A step that touches neither databases nor libraries keeps the values.   *)
LEMMA StoreSame ==
  ASSUME StoreInv, UNCHANGED <<store, plugin, latest>>, strayed \subseteq strayed'
  PROVE  StoreInv'
  BY DEF StoreInv, Clean

(* pclKeyWriteData changes the entry of its user, or the configurable      *)
(* default, and no other.                                                  *)
LEMMA StoreWrite ==
  ASSUME IInv, RouteInv, StoreInv, UseWrite, handleDB \in Databases,
         store' = [store EXCEPT ![Entry] = call.value], Put(call.value)
  PROVE  StoreInv'
<1>t. /\ pc = "use" /\ call.op = "write" /\ UNCHANGED <<plugin, strayed>>
      /\ store \in [Databases \X Keys -> Values \cup {Absent}]
      /\ latest \in [Resources \X Users -> Values \cup {Absent}]
      /\ DefaultUser \in Users /\ Node \in Users
      /\ call.res \in Resources /\ call.user \in Users
  BY UserAssumption, CallFacts DEF UseWrite, IInv, TypeInv, TypeOK
<1>d. "confdefault" \in DefaultTypes /\ "default" \in DefaultTypes
  BY DEF DefaultTypes
<1>1. /\ dbType \in DefaultTypes <=> call.user = DefaultUser
      /\ call.user = DefaultUser => dbType = "confdefault"
  <2>1. info.policy \notin DefaultTypes
    BY ConfFacts DEF IInv, TypeInv, TypeOK, Confs, DefaultTypes
  <2> QED
    BY <1>t, <1>d, <2>1 DEF RouteInv
<1>3. \A e \in Databases \X Keys : store'[e] = IF e = Entry THEN call.value ELSE store[e]
  BY <1>t
<1> SUFFICES ASSUME NEW r \in Resources, Clean(r)
             PROVE  /\ \A u \in Users :
                         store'[DataEntry(r, u)] = IF u = DefaultUser \/ IsCustom(r) THEN Absent
                                                   ELSE latest'[<<r, u>>]
                    /\ store'[DefaultEntry(r, "confdefault")] = latest'[<<r, DefaultUser>>]
                    /\ store'[DefaultEntry(r, "default")] = Factory[r]
                    /\ IsCustom(r) => plugin'[r] = latest'[<<r, Node>>]
  BY <1>t DEF StoreInv, Clean
<1>2. r = call.res => ~ IsCustom(r)
  BY <1>t DEF RouteInv, OwnWay, Clean
<1>4. \A v \in Users :
        latest'[<<r, v>>] = IF r = call.res /\ v = call.user THEN call.value ELSE latest[<<r, v>>]
  BY <1>t, <1>2, UserAssumption DEF Put, Owner
<1>5. ASSUME NEW u \in Users
      PROVE  store'[DataEntry(r, u)] = IF u = DefaultUser \/ IsCustom(r) THEN Absent
                                       ELSE latest'[<<r, u>>]
  <2>1. DataEntry(r, u) = Entry <=> r = call.res /\ u = call.user /\ u # DefaultUser
    BY <1>t, <1>1, EntryMine
  <2>2. store[DataEntry(r, u)] = IF u = DefaultUser \/ IsCustom(r) THEN Absent
                                 ELSE latest[<<r, u>>]
    BY DEF StoreInv
  <2>3. DataEntry(r, u) \in Databases \X Keys
    BY <1>d, EntryType
  <2> QED
    BY <1>2, <1>3, <1>4, <2>1, <2>2, <2>3
<1>6. store'[DefaultEntry(r, "confdefault")] = latest'[<<r, DefaultUser>>]
  <2>1. DefaultEntry(r, "confdefault") = Entry <=> r = call.res /\ call.user = DefaultUser
    BY <1>t, <1>1, <1>d, EntryMine
  <2>2. store[DefaultEntry(r, "confdefault")] = latest[<<r, DefaultUser>>]
    BY DEF StoreInv
  <2>3. DefaultEntry(r, "confdefault") \in Databases \X Keys
    BY <1>d, <1>t, EntryType
  <2> QED
    BY <1>t, <1>3, <1>4, <2>1, <2>2, <2>3
<1>7. store'[DefaultEntry(r, "default")] = Factory[r]
  <2>1. DefaultEntry(r, "default") # Entry
    BY <1>t, <1>1, <1>d, EntryMine
  <2> QED
    BY <1>d, <1>t, <1>3, <2>1, EntryType DEF StoreInv
<1>8. IsCustom(r) => plugin'[r] = latest'[<<r, Node>>]
  BY <1>t, <1>2, <1>4 DEF StoreInv
<1> QED
  BY <1>5, <1>6, <1>7, <1>8

(* pclKeyDelete removes the value of its user, and no other.               *)
LEMMA StoreDelete ==
  ASSUME IInv, RouteInv, StoreInv, UseDelete, handleDB \in Databases,
         store' = [store EXCEPT ![Entry] = Absent],
         IF call.user = DefaultUser THEN UNCHANGED latest ELSE Put(Absent)
  PROVE  StoreInv'
<1>t. /\ pc = "use" /\ call.op = "delete" /\ UNCHANGED <<plugin, strayed>>
      /\ store \in [Databases \X Keys -> Values \cup {Absent}]
      /\ latest \in [Resources \X Users -> Values \cup {Absent}]
      /\ DefaultUser \in Users /\ Node \in Users
      /\ call.res \in Resources /\ call.user \in Users
  BY UserAssumption, CallFacts DEF UseDelete, IInv, TypeInv, TypeOK
<1>d. "confdefault" \in DefaultTypes /\ "default" \in DefaultTypes
  BY DEF DefaultTypes
<1>1. dbType \notin DefaultTypes
  BY <1>t, ConfFacts DEF RouteInv, IInv, TypeInv, TypeOK, Confs, DefaultTypes
<1>3. \A e \in Databases \X Keys : store'[e] = IF e = Entry THEN Absent ELSE store[e]
  BY <1>t
<1> SUFFICES ASSUME NEW r \in Resources, Clean(r)
             PROVE  /\ \A u \in Users :
                         store'[DataEntry(r, u)] = IF u = DefaultUser \/ IsCustom(r) THEN Absent
                                                   ELSE latest'[<<r, u>>]
                    /\ store'[DefaultEntry(r, "confdefault")] = latest'[<<r, DefaultUser>>]
                    /\ store'[DefaultEntry(r, "default")] = Factory[r]
                    /\ IsCustom(r) => plugin'[r] = latest'[<<r, Node>>]
  BY <1>t DEF StoreInv, Clean
<1>2. r = call.res => ~ IsCustom(r)
  BY <1>t DEF RouteInv, OwnWay, Clean
<1>4. \A v \in Users :
        latest'[<<r, v>>] = IF r = call.res /\ v = call.user /\ v # DefaultUser THEN Absent
                            ELSE latest[<<r, v>>]
  BY <1>t, <1>2, UserAssumption DEF Put, Owner
<1>5. ASSUME NEW u \in Users
      PROVE  store'[DataEntry(r, u)] = IF u = DefaultUser \/ IsCustom(r) THEN Absent
                                       ELSE latest'[<<r, u>>]
  <2>1. DataEntry(r, u) = Entry <=> r = call.res /\ u = call.user
    BY <1>t, <1>1, EntryMine
  <2>2. store[DataEntry(r, u)] = IF u = DefaultUser \/ IsCustom(r) THEN Absent
                                 ELSE latest[<<r, u>>]
    BY DEF StoreInv
  <2>3. DataEntry(r, u) \in Databases \X Keys
    BY <1>d, EntryType
  <2> QED
    BY <1>2, <1>3, <1>4, <2>1, <2>2, <2>3
<1>6. /\ store'[DefaultEntry(r, "confdefault")] = store[DefaultEntry(r, "confdefault")]
      /\ store'[DefaultEntry(r, "default")] = store[DefaultEntry(r, "default")]
  BY <1>d, <1>t, <1>1, <1>3, EntryMine, EntryType
<1>7. latest'[<<r, DefaultUser>>] = latest[<<r, DefaultUser>>]
  BY <1>t, <1>4
<1>8. IsCustom(r) => plugin'[r] = latest'[<<r, Node>>]
  BY <1>t, <1>2, <1>4 DEF StoreInv
<1> QED
  BY <1>5, <1>6, <1>7, <1>8 DEF StoreInv

(* A custom library keeps one value per resource, that of Node.            *)
LEMMA StorePlugin ==
  ASSUME IInv, StoreInv, pc = "plugin", IsCustom(call.res), NEW v \in Values \cup {Absent},
         plugin' = [plugin EXCEPT ![call.res] = v], Put(v), UNCHANGED <<store, strayed>>
  PROVE  StoreInv'
<1>1. /\ call.res \in Resources /\ Owner(call.res, call.user) = Node
      /\ Node \in Users /\ DefaultUser \in Users /\ Node # DefaultUser
      /\ plugin \in [Resources -> Values \cup {Absent}]
      /\ latest \in [Resources \X Users -> Values \cup {Absent}]
  BY CallFacts, UserAssumption DEF Owner, IsCustom, IInv, TypeInv, TypeOK
<1>2. \A q \in Resources, u \in Users :
        latest'[<<q, u>>] = IF q = call.res /\ u = Node THEN v ELSE latest[<<q, u>>]
  BY <1>1 DEF Put
<1>3. \A q \in Resources : plugin'[q] = IF q = call.res THEN v ELSE plugin[q]
  BY <1>1
<1> SUFFICES ASSUME NEW r \in Resources, Clean(r)
             PROVE  /\ \A u \in Users :
                         store[DataEntry(r, u)] = IF u = DefaultUser \/ IsCustom(r) THEN Absent
                                                  ELSE latest'[<<r, u>>]
                    /\ store[DefaultEntry(r, "confdefault")] = latest'[<<r, DefaultUser>>]
                    /\ store[DefaultEntry(r, "default")] = Factory[r]
                    /\ IsCustom(r) => plugin'[r] = latest'[<<r, Node>>]
  BY DEF StoreInv, Clean
<1>4. ASSUME NEW u \in Users
      PROVE  store[DataEntry(r, u)] = IF u = DefaultUser \/ IsCustom(r) THEN Absent
                                      ELSE latest'[<<r, u>>]
  <2>1. ~ IsCustom(r) => latest'[<<r, u>>] = latest[<<r, u>>]
    BY <1>2
  <2> QED
    BY <2>1 DEF StoreInv
<1>5. latest'[<<r, DefaultUser>>] = latest[<<r, DefaultUser>>]
  BY <1>1, <1>2
<1>6. IsCustom(r) => plugin'[r] = latest'[<<r, Node>>]
  BY <1>1, <1>2, <1>3 DEF StoreInv
<1> QED
  BY <1>4, <1>5, <1>6 DEF StoreInv

(* Databases and libraries hold what was last written, in every step.      *)
LEMMA StoreStep ==
  ASSUME IInv, RouteInv, StoreInv, [Next]_vars PROVE StoreInv'
<1>1. CASE UseWrite
  BY <1>1, StoreWrite, StoreSame DEF UseWrite
<1>2. CASE UseDelete
  BY <1>2, StoreDelete, StoreSame DEF UseDelete
<1>3. CASE PluginWrite \/ PluginDelete
  <2>1. pc = "plugin" /\ IsCustom(call.res) /\ UNCHANGED <<store, strayed>>
    BY <1>3 DEF PluginWrite, PluginDelete, PluginPut, IInv, InfoInv
  <2>2. call.op = "write" => call.value \in Values
    BY <2>1, CallFacts DEF IInv
  <2> QED
    BY <1>3, <2>1, <2>2, StorePlugin, StoreSame DEF PluginWrite, PluginDelete, PluginPut
<1> QED
  BY <1>1, <1>2, <1>3, StoreSame
  DEF Next, Step, vars, state, Begin, GetTable, ReadTable, DatabaseGet, UseRead,
      UseSize,
      UseLookup, PluginRead, PluginSize, PluginLookup, Return, PrepareShutdown, Unlock

(* The table decides where a call goes.                                    *)
LEMMA RouteRead == ASSUME IInv, RouteInv, ReadTable PROVE RouteInv'
<1>1. ASSUME NEW o, Finish(o) PROVE RouteInv'
  BY <1>1 DEF Finish, RouteInv
<1>2. ASSUME NEW c, Proceed(c) PROVE RouteInv'
  <2>1. CASE pc' = "plugin"
    BY <2>1 DEF RouteInv
  <2>2. CASE /\ c.storage # "custom" /\ info' = c /\ UNCHANGED call /\ pc' = "get"
             /\ dbType' = IF call.op = "write" /\ call.user = DefaultUser
                             THEN "confdefault" ELSE c.policy
    BY <2>2 DEF RouteInv
  <2> QED
    BY <1>1, <1>2, <2>1, <2>2 DEF Proceed
<1> QED
  BY <1>1, <1>2 DEF ReadTable

(* A call stays on its way.                                                *)
LEMMA RouteStep == ASSUME IInv, RouteInv, [Next]_vars PROVE RouteInv'
<1>1. ASSUME NEW o, Finish(o) PROVE RouteInv'
  BY <1>1 DEF Finish, RouteInv
<1>2. ASSUME pc' \notin {"get", "use"} PROVE RouteInv'
  BY <1>2 DEF RouteInv
<1>4. CASE ReadTable
  BY <1>4, RouteRead
<1>5. CASE DatabaseGet
  <2>1. /\ pc = "get" /\ UNCHANGED <<call, info, dbType>>
    BY <1>5 DEF DatabaseGet
  <2>2. (handleDB' \in Databases /\ ~ OwnWay') => call'.res.id \in strayed'
    BY <1>5 DEF DatabaseGet
  <2> QED
    BY <2>1, <2>2 DEF RouteInv
<1>6. CASE UseRead \/ UseSize
  <2>1. call.op \in {"read", "size"} /\ pc = "use"
    BY <1>6 DEF UseRead, UseSize, UseLookup
  <2>2. ASSUME NEW t \in DefaultTypes, NextDefault(t), UNCHANGED info PROVE RouteInv'
    BY <2>1, <2>2 DEF NextDefault, RouteInv
  <2>3. CASE Missed
    BY <1>1, <2>1, <2>2, <2>3 DEF Missed, DefaultTypes
  <2> QED
    BY <1>1, <1>6, <2>1, <2>3 DEF UseRead, UseSize, UseLookup
<1>7. CASE UseWrite \/ UseDelete \/ PluginWrite \/ PluginDelete
  BY <1>1, <1>7 DEF UseWrite, UseDelete, PluginWrite, PluginDelete, PluginPut, Announced
<1>8. CASE PluginRead \/ PluginSize
  <2>1. call.op \in {"read", "size"} /\ PluginLookup
    BY <1>8 DEF PluginRead, PluginSize
  <2>2. CASE NextDefault("confdefault")
    BY <2>1, <2>2 DEF NextDefault, RouteInv, DefaultTypes
  <2> QED
    BY <1>1, <2>1, <2>2 DEF PluginLookup
<1>10. CASE PrepareShutdown
  <2>1. /\ UNCHANGED <<pc, call, info, dbType, strayed>> /\ handleDB' \in {handleDB, Closed}
        /\ handleDB = NoDb => handleDB' = NoDb
    BY <1>10 DEF PrepareShutdown, CloseTables
  <2> QED
    BY <2>1, HandleAssumption DEF RouteInv, OwnWay
<1>11. CASE Unlock \/ UNCHANGED vars
  BY <1>11 DEF Unlock, vars, state, RouteInv, OwnWay
<1> QED
  BY <1>2, <1>4, <1>5, <1>6, <1>7, <1>8, <1>10, <1>11
  DEF Next, Step, Begin, GetTable, Return, Idle

(* Both together are inductive.                                            *)
LEMMA DataStep == IInv /\ DataInv /\ [Next]_vars => DataInv'
  BY RouteStep, StoreStep DEF DataInv

(* They hold to begin with.                                                *)
LEMMA DataInit == Init => IInv /\ DataInv
<1>1. Init => IInv
  BY TypeInit DEF Init, IInv, InfoInv, SlotInv, RightDatabase
<1>2. Init => RouteInv
  BY DEF Init, RouteInv
<1> QED
  BY <1>1, <1>2, StoreInit DEF DataInv

(* What a lookup returns is of this resource.                              *)
LEMMA OwnStep ==
  ASSUME IInv, RouteInv, StoreInv, FallsBackToOwn, [Next]_vars PROVE FallsBackToOwn'
<1>1. ASSUME UNCHANGED <<latest, call, result>>, pc' = "done" => pc = "done",
             strayed \subseteq strayed'
      PROVE  FallsBackToOwn'
  BY <1>1 DEF FallsBackToOwn
<1>2. ASSUME NEW o, Finish(o), UNCHANGED <<latest, strayed>>,
             Clean(call.res) =>
             o \in {Error, Absent, latest[<<call.res, Owner(call.res, call.user)>>],
                    latest[<<call.res, DefaultUser>>], Factory[call.res]}
      PROVE  FallsBackToOwn'
  BY <1>2 DEF Finish, FallsBackToOwn, Clean
<1>3. ASSUME NEW o, Finish(o), call.op \in {"write", "delete"} PROVE FallsBackToOwn'
  BY <1>3 DEF Finish, FallsBackToOwn
<1>4. CASE UseRead \/ UseSize
  <2>1. UseLookup /\ pc = "use" /\ UNCHANGED <<latest, strayed>> /\ dbType \in Types
    BY <1>4 DEF UseRead, UseSize, UseLookup, state, IInv, TypeInv, TypeOK
  <2>2. handleDB \in Databases /\ Clean(call.res) =>
          store[Entry] \in {Error, Absent, latest[<<call.res, Owner(call.res, call.user)>>],
                            latest[<<call.res, DefaultUser>>], Factory[call.res]}
    BY <2>1, EntryValue DEF Types, DefaultTypes
  <2>3. CASE Missed
    BY <1>1, <1>2, <2>1, <2>3 DEF Missed, NextDefault, FallsBackToOwn
  <2> QED
    BY <1>2, <2>1, <2>2, <2>3 DEF UseLookup
<1>5. CASE PluginRead \/ PluginSize
  <2>1. /\ PluginLookup /\ pc = "plugin" /\ UNCHANGED <<latest, strayed>>
        /\ call.res \in Resources /\ IsCustom(call.res)
    BY <1>5, CallFacts DEF PluginRead, PluginSize, PluginLookup, state, IInv, InfoInv
  <2>2. Clean(call.res) => plugin[call.res] = latest[<<call.res, Owner(call.res, call.user)>>]
    BY <2>1 DEF StoreInv, Owner
  <2> QED
    BY <1>1, <1>2, <2>1, <2>2 DEF PluginLookup, NextDefault
<1>6. CASE UseWrite \/ UseDelete \/ PluginWrite \/ PluginDelete
  BY <1>3, <1>6 DEF UseWrite, UseDelete, PluginWrite, PluginDelete, PluginPut, Announced
<1>7. CASE ReadTable
  BY <1>2, <1>7 DEF ReadTable, Proceed, state, FallsBackToOwn
<1>8. CASE (\E c \in Calls : Begin(c)) \/ Return
  BY <1>8 DEF Begin, Return, Idle, FallsBackToOwn
<1> QED
  BY <1>1, <1>4, <1>5, <1>6, <1>7, <1>8
  DEF Next, Step, vars, state, GetTable, DatabaseGet, PrepareShutdown, Unlock

(* Whatever fails and whenever a shutdown interferes, a read that does not *)
(* fail returns nothing, what its user wrote last, or a default of the     *)
(* resource, unless the resource was once looked up in a database that is  *)
(* not its own.                                                            *)
THEOREM FallsBackCorrect == Spec => []FallsBackToOwn
<1> DEFINE Inv == IInv /\ DataInv /\ FallsBackToOwn
<1>1. Init => Inv
  BY DataInit DEF Init, FallsBackToOwn
<1>3. Inv /\ [Next]_vars => Inv'
  BY RightStep, DataStep, OwnStep DEF DataInv
<1>4. Inv => FallsBackToOwn
  OBVIOUS
<1> QED
  BY <1>1, <1>3, <1>4, PTL DEF Spec

(* Undisturbed, the lookup goes on only from what is not there.            *)
LEMMA SeekStep ==
  ASSUME IInv, RouteInv, StoreInv, SeekInv, [Next]_vars PROVE SeekInv'
<1> SUFFICES ASSUME ~ Disturbed, Next, pc' \in {"get", "use"}, call'.op \in {"read", "size"},
                    Clean(call.res)', HasDefaults(call'.res)
             PROVE  /\ dbType' \in DefaultTypes => /\ OwnAbsent(call.res, call.user)'
                                                   /\ Slot'[1] < DbTableSize
                    /\ dbType' = "default" => latest'[<<call'.res, DefaultUser>>] = Absent
                    /\ pc' = "use" => IF Slot'[1] >= DbTableSize THEN handleDB' = NoDb
                                      ELSE handleDB' \in Databases
  <2>1. CASE UNCHANGED vars
    BY <2>1 DEF vars, state, SeekInv, Slot, OwnAbsent, Disturbed, Clean
  <2> QED
    BY <2>1 DEF SeekInv, Next, Disturbed
<1>c. UNCHANGED call => Clean(call.res) /\ HasDefaults(call.res)
  <2>1. strayed \subseteq strayed'
    BY DEF Next, Step, state, Begin, GetTable, ReadTable, DatabaseGet, UseRead, UseSize,
           UseLookup, UseWrite, UseDelete, PluginRead, PluginSize, PluginLookup, PluginWrite,
           PluginDelete, PluginPut, Return, PrepareShutdown, Unlock
  <2> QED
    BY <2>1 DEF Clean
<1>1. CASE ReadTable
  <2>1. pc' = "get" /\ dbType' \notin DefaultTypes
    <3>1. ASSUME NEW c \in Confs, Proceed(c) PROVE pc' = "get" /\ dbType' \notin DefaultTypes
      BY <3>1, ConfFacts DEF Proceed, Finish, DefaultTypes
    <3>2. call.res \in Resources
      BY <1>1, CallFacts DEF ReadTable, IInv
    <3> QED
      BY <1>1, <3>1, <3>2 DEF ReadTable, Finish, Confs
  <2> QED
    BY <2>1 DEF DefaultTypes
<1>2. CASE DatabaseGet
  <2>1. /\ pc = "get" /\ pc' = "use" /\ UNCHANGED <<call, info, dbType, latest>>
        /\ call.op \in {"read", "size"}
    BY <1>2 DEF DatabaseGet
  <2>2. Slot' = Slot /\ (OwnAbsent(call.res, call.user)' <=> OwnAbsent(call.res, call.user))
    BY <2>1 DEF Slot, OwnAbsent
  <2>3. IF Slot[1] >= DbTableSize THEN handleDB' = NoDb ELSE handleDB' \in Databases
    <3>1. /\ Database(call.res.ldbid, info.policy, dbType) \in Databases
          /\ Slot \in Indices \X Types
      BY <2>1, CallFacts, NameFacts, ConfFacts DEF IInv, TypeInv, TypeOK, Confs, Slot
    <3>2. gHandlesDB[Slot] \in Databases \cup {NoDb}
      BY <3>1 DEF IInv, TypeInv, TypeOK
    <3> QED
      BY <1>2, <3>1, <3>2 DEF DatabaseGet
  <2> QED
    BY <1>c, <2>1, <2>2, <2>3 DEF SeekInv
<1>3. CASE UseRead \/ UseSize
  <2>1. /\ pc = "use" /\ UseLookup /\ call.op \in {"read", "size"} /\ pc' # "done"
        /\ UNCHANGED latest
    BY <1>3 DEF UseRead, UseSize, UseLookup, state
  <2>2. Missed /\ UNCHANGED <<call, info>> /\ pc' = "get" /\ dbType' \in DefaultTypes
    BY <2>1 DEF UseLookup, Finish, Missed, NextDefault, DefaultTypes
  <2>c. Clean(call.res) /\ HasDefaults(call.res)
    BY <1>c, <2>2
  <2>3. handleDB \in Databases /\ store[Entry] = Absent /\ ~ (Slot[1] >= DbTableSize)
    <3>1. CASE Slot[1] >= DbTableSize
      <4>1. handleDB = NoDb /\ NoDb \notin Databases /\ NoDb # Closed
        BY <2>1, <2>c, <3>1, HandleAssumption DEF SeekInv
      <4>2. dbType \notin DefaultTypes
        <5>1. Slot[1] \in Nat /\ DbTableSize \in Nat
          <6>1. Slot[1] = ArrayIdx(call.res.ldbid, info.storage) /\ call.res.ldbid \in Nat
            BY <2>1, CallFacts, ResourceAssumption DEF Slot, IInv
          <6>2. info.storage \in Storages
            BY ConfFacts DEF IInv, TypeInv, TypeOK, Confs
          <6> QED
            BY <6>1, <6>2, CodeAssumption DEF ArrayIdx
        <5> QED
          BY <2>1, <2>c, <3>1, <5>1 DEF SeekInv
      <4> QED
        BY <2>1, <4>1, <4>2 DEF UseLookup, Finish
    <3>2. CASE ~ (Slot[1] >= DbTableSize)
      <4>1. handleDB \in Databases /\ NoDb \notin Databases /\ Closed \notin Databases
        BY <2>1, <2>c, <3>2, HandleAssumption DEF SeekInv
      <4> QED
        BY <2>1, <3>2, <4>1 DEF UseLookup, Finish
    <3> QED
      BY <3>1, <3>2
  <2>4. Slot[1] \in Nat /\ DbTableSize \in Nat /\ Slot'[1] = Slot[1]
    <3>1. Slot[1] = ArrayIdx(call.res.ldbid, info.storage) /\ call.res.ldbid \in Nat
      BY <2>1, CallFacts, ResourceAssumption DEF Slot, IInv
    <3>2. info.storage \in Storages
      BY ConfFacts DEF IInv, TypeInv, TypeOK, Confs
    <3> QED
      BY <2>2, <3>1, <3>2, CodeAssumption DEF ArrayIdx, Slot
  <2>5. OwnAbsent(call.res, call.user)
    BY <2>1, <2>c, <2>3, EntryValue DEF SeekInv, OwnAbsent
  <2>6. dbType' = "default" => latest[<<call.res, DefaultUser>>] = Absent
    <3>1. dbType' = "default" => dbType = "confdefault"
      BY <2>1, <2>2 DEF Missed, NextDefault, Finish
    <3>2. dbType = "confdefault" => latest[<<call.res, DefaultUser>>] = Absent
      BY <2>1, <2>c, <2>3, EntryValue
    <3> QED
      BY <3>1, <3>2
  <2> QED
    BY <2>1, <2>2, <2>3, <2>4, <2>5, <2>6 DEF OwnAbsent
<1>4. CASE PluginRead \/ PluginSize
  <2>1. /\ pc = "plugin" /\ plugin[call.res] = Absent /\ info' = [info EXCEPT !.policy = "wc"]
        /\ NextDefault("confdefault") /\ UNCHANGED <<latest, call>>
    BY <1>4 DEF PluginRead, PluginSize, PluginLookup, Finish, NextDefault, state
  <2>2. /\ IsCustom(call.res) /\ call.res \in Resources /\ info = ConfigKey(call.res)
        /\ Clean(call.res) /\ HasDefaults(call.res)
    BY <1>c, <2>1, CallFacts DEF IInv, InfoInv
  <2>3. info'.storage = "custom"
    BY <2>1, <2>2 DEF ConfigKey, IsCustom
  <2>4. Slot'[1] < DbTableSize
    BY <2>1, <2>2, <2>3 DEF Slot, HasDefaults
  <2>5. OwnAbsent(call.res, call.user)
    BY <2>1, <2>2 DEF StoreInv, OwnAbsent, Owner, IsCustom
  <2> QED
    BY <2>1, <2>4, <2>5 DEF NextDefault, OwnAbsent
<1>5. CASE PrepareShutdown \/ Unlock
  BY <1>c, <1>5 DEF PrepareShutdown, CloseTables, Unlock, SeekInv, Slot, OwnAbsent
<1> QED
  BY <1>1, <1>2, <1>3, <1>4, <1>5
  DEF Next, Step, Begin, GetTable, UseWrite, UseDelete, PluginWrite, PluginDelete,
      PluginPut, Announced, Finish, Return, Idle

(* So what it ends with is what the key is worth.                          *)
LEMMA LatestStep ==
  ASSUME IInv, RouteInv, StoreInv, SeekInv, ReadsLatest, [Next]_vars PROVE ReadsLatest'
<1> SUFFICES ASSUME ~ Disturbed, pc' = "done", call'.op \in {"read", "size"}, result' # Error,
                    Clean(call.res)', HasDefaults(call'.res)
             PROVE  result' = Lookup(call.res, call.user)'
  BY DEF ReadsLatest, Next, vars, Disturbed, Clean
<1>1. ASSUME UNCHANGED <<latest, store, call, result, pc, strayed>>
      PROVE  result' = Lookup(call.res, call.user)'
  BY <1>1 DEF ReadsLatest, Lookup, Clean
<1>2. ASSUME NEW o, Finish(o), o = Lookup(call.res, call.user), UNCHANGED <<latest, store>>
      PROVE  result' = Lookup(call.res, call.user)'
  BY <1>2 DEF Finish, Lookup
<1>3. CASE UseRead \/ UseSize
  <2>1. pc = "use" /\ UseLookup /\ call.op \in {"read", "size"} /\ UNCHANGED <<latest, store>>
    BY <1>3 DEF UseRead, UseSize, UseLookup, state
  <2>c. Clean(call.res) /\ HasDefaults(call.res)
    BY <1>3 DEF UseRead, UseSize, UseLookup, Missed, NextDefault, Finish, state, Clean
  <2>2. call.res \in Resources /\ call.user \in Users /\ Slot[1] \in Nat /\ DbTableSize \in Nat
    <3>1. call.res \in Resources /\ call.user \in Users /\ call.res.ldbid \in Nat
      BY <2>1, CallFacts, ResourceAssumption DEF IInv
    <3>2. info.storage \in Storages
      BY ConfFacts DEF IInv, TypeInv, TypeOK, Confs
    <3> QED
      BY <3>1, <3>2, CodeAssumption DEF ArrayIdx, Slot
  <2>3. handleDB \in Databases /\ NoDb \notin Databases /\ Closed \notin Databases
    <3>1. CASE Slot[1] >= DbTableSize
      <4>1. handleDB = NoDb /\ dbType \notin DefaultTypes /\ NoDb # Closed /\ NoDb \notin Databases
        BY <2>1, <2>c, <2>2, <3>1, HandleAssumption DEF SeekInv
      <4> QED
        BY <2>1, <4>1 DEF UseLookup, Finish
    <3> QED
      BY <2>1, <2>c, <3>1, HandleAssumption DEF SeekInv
  <2>4. CASE Finish(store[Entry]) /\ store[Entry] # Absent
    <3>1. CASE dbType = "confdefault"
      <4>1. /\ store[Entry] = latest[<<call.res, DefaultUser>>]
            /\ OwnAbsent(call.res, call.user)
        BY <2>1, <2>c, <2>3, <3>1, EntryValue DEF SeekInv, DefaultTypes
      <4>2. store[Entry] = Lookup(call.res, call.user)
        BY <2>4, <4>1 DEF Lookup, OwnAbsent
      <4> QED
        BY <1>2, <2>1, <2>4, <4>2
    <3>2. CASE dbType = "default"
      <4>1. /\ store[Entry] = Factory[call.res]
            /\ OwnAbsent(call.res, call.user) /\ latest[<<call.res, DefaultUser>>] = Absent
        BY <2>1, <2>c, <2>3, <3>2, EntryValue DEF SeekInv, DefaultTypes
      <4>2. store[Entry] = Lookup(call.res, call.user)
        BY <2>c, <2>2, <4>1 DEF Lookup, OwnAbsent, StoreInv, DefaultEntry
      <4> QED
        BY <1>2, <2>1, <2>4, <4>2
    <3>3. CASE dbType \notin DefaultTypes
      <4>1. /\ Owner(call.res, call.user) = call.user /\ call.user # DefaultUser
            /\ store[Entry] = latest[<<call.res, call.user>>]
        BY <2>1, <2>c, <2>3, <2>4, <3>3, EntryValue
      <4>2. store[Entry] = Lookup(call.res, call.user)
        BY <2>4, <4>1 DEF Lookup
      <4> QED
        BY <1>2, <2>1, <2>4, <4>2
    <3> QED
      BY <3>1, <3>2, <3>3 DEF DefaultTypes
  <2>5. CASE Missed /\ store[Entry] = Absent
    <3>1. dbType = "default" /\ Finish(Absent)
      BY <2>1, <2>5 DEF Missed, NextDefault, IInv, TypeInv, TypeOK, Types
    <3>2. /\ Factory[call.res] = Absent
          /\ OwnAbsent(call.res, call.user) /\ latest[<<call.res, DefaultUser>>] = Absent
      BY <2>1, <2>c, <2>3, <2>5, <3>1, EntryValue DEF SeekInv, DefaultTypes
    <3>3. Absent = Lookup(call.res, call.user)
      BY <2>c, <2>2, <3>2 DEF Lookup, OwnAbsent, StoreInv, DefaultEntry
    <3> QED
      BY <1>2, <2>1, <3>1, <3>3
  <2> QED
    BY <2>1, <2>3, <2>4, <2>5 DEF UseLookup
<1>4. CASE PluginRead \/ PluginSize
  <2>1. /\ pc = "plugin" /\ Finish(plugin[call.res]) /\ plugin[call.res] # Absent
        /\ UNCHANGED <<latest, store>>
    BY <1>4 DEF PluginRead, PluginSize, PluginLookup, NextDefault, state
  <2>2. /\ call.res \in Resources /\ Owner(call.res, call.user) = Node /\ Node # DefaultUser
        /\ plugin[call.res] = latest[<<call.res, Node>>]
    <3>1. IsCustom(call.res) /\ call.res \in Resources /\ Clean(call.res)
      BY <1>4, <2>1, CallFacts
      DEF PluginRead, PluginSize, PluginLookup, Finish, state, IInv, InfoInv, Clean
    <3> QED
      BY <2>1, <3>1, UserAssumption DEF StoreInv, Owner
  <2>3. plugin[call.res] = Lookup(call.res, call.user)
    BY <2>1, <2>2 DEF Lookup
  <2> QED
    BY <1>2, <2>1, <2>3
<1>5. CASE ReadTable
  BY <1>5 DEF ReadTable, Proceed, Finish
<1> QED
  BY <1>1, <1>3, <1>4, <1>5
  DEF Next, Step, vars, state, Begin, GetTable, DatabaseGet, UseWrite, UseDelete,
      PluginWrite, PluginDelete, PluginPut, Announced, Finish, Return, Idle, PrepareShutdown,
      CloseTables, Unlock

(* As long as nothing fails and no shutdown overlaps a call, a read        *)
(* returns the value last written, or else the configurable, or else the   *)
(* factory default, unless the resource was once looked up in a database   *)
(* that is not its own.                                                    *)
THEOREM ReadsLatestCorrect == Spec => []ReadsLatest
<1> DEFINE Inv == IInv /\ DataInv /\ SeekInv /\ ReadsLatest
<1>1. Init => Inv
  BY DataInit DEF Init, SeekInv, ReadsLatest
<1>2. Inv /\ [Next]_vars => Inv'
  BY RightStep, DataStep, SeekStep, LatestStep DEF DataInv
<1>3. Inv => ReadsLatest
  OBVIOUS
<1> QED
  BY <1>1, <1>2, <1>3, PTL DEF Spec

=============================================================================

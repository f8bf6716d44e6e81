------------------------------ MODULE KeyValue ------------------------------
(***************************************************************************)
(* The key-value API: pclKeyReadData, pclKeyGetSize, pclKeyWriteData and   *)
(* pclKeyDelete of persistence_client_library_key.c, the lookup in the     *)
(* resource configuration table of persistence_client_library_prct_access.c*)
(* and the databases and default values of                                 *)
(* persistence_client_library_db_access.c.                                 *)
(*                                                                         *)
(* gKeyAPIAccessMtx serialises the calls, so there is one in progress; it  *)
(* is cut where the main loop thread, which closes tables and databases    *)
(* without that mutex, can interfere: between getting a handle and using   *)
(* it.                                                                     *)
(*                                                                         *)
(* Abstractions.  A value is opaque and its size is not modelled, so       *)
(* pclKeyGetSize follows the path of a read.  A seat is part of the user.  *)
(* A handle is the database it was opened on.  Every resource is a key;    *)
(* calls that are refused before the table is looked at change nothing.    *)
(* What a write or delete announces is in module Notification.             *)
(***************************************************************************)
EXTENDS Integers

CONSTANTS
  Resources,     \* records: what the application uses and its table entries
  Users, Node, DefaultUser,    \* PCL_USER_DEFAULTDATA is a user
  Values, Absent, Error,
  Written,       \* the values a user may write
  Factory,       \* the factory defaults installed with the system
  NoDb, Closed,  \* no handle, a handle that was closed
  StorageCode,   \* the numbers of PersistenceStorage_e
  DbTableSize,
  Scenarios      \* which resources are used, and whether calls of the database
                 \* plugin may fail and a shutdown may overlap a call

PCL_LDBID_LOCAL == 255

Storages == {"local", "shared", "custom"}

ASSUME ResourceAssumption ==
  \A r \in Resources : /\ r.ldbid \in Nat
                       /\ r.storage \in Storages /\ r.policy \in {"wc", "wt"}
                       /\ r.permission \in {"ReadWrite", "ReadOnly"}
                       /\ r.responsible \in BOOLEAN /\ r.listed \in BOOLEAN
ASSUME UserAssumption  == Node \in Users /\ DefaultUser \in Users /\ Node # DefaultUser
ASSUME ValueAssumption == /\ Absent \notin Values /\ Error \notin Values \cup {Absent}
                          /\ Written \in [Users -> SUBSET Values]
                          /\ Factory \in [Resources -> Values \cup {Absent}]
ASSUME CodeAssumption  == StorageCode \in [Storages -> Nat] /\ DbTableSize \in Nat
ASSUME ScenarioAssumption == Scenarios \subseteq [uses : SUBSET Resources, disturbed : BOOLEAN]

VARIABLES
  scenario,     \* never changes
  locked,       \* isAccessLocked()
  gResourceOpen,   \* indices of the open resource configuration tables
  gHandlesDB,   \* array index and type of database -> database
  store,        \* database and key -> value
  plugin,       \* resource -> value kept by its custom library
  pc, call,     \* the call in progress
  info,         \* the configKey get_db_context found for it
  dbType,       \* which database of the resource it looks into
  handleDB,     \* the handle it holds
  result,
  \* history variables
  latest,       \* what was last written
  strayed       \* names of resources that were looked up in a database not their own

state == <<locked, gResourceOpen, gHandlesDB, store, plugin, latest, strayed>>
vars  == <<scenario, state, pc, call, info, dbType, handleDB, result>>

-----------------------------------------------------------------------------
(* get_table_id and the index of get_resource_cfg_table                    *)
RctIndex(ldbid) == CASE ldbid >= 128 -> 0
                     [] ldbid = 0    -> 1
                     [] OTHER        -> 2 + ldbid

(* get_db_path_and_key: the directory depends on the policy and on whether *)
(* the data is local, public or of a group; in the directory there is one  *)
(* database per type.                                                      *)
Database(ldbid, policy, type) ==
  <<IF ldbid >= 128 THEN PCL_LDBID_LOCAL ELSE ldbid, policy, type>>

(* The group is in the path; only a local ldbid of its own is in the key.  *)
DbKey(r, u)   == <<IF r.ldbid >= 128 THEN r.ldbid ELSE PCL_LDBID_LOCAL, u, r.id>>
DefaultKey(r) == <<PCL_LDBID_LOCAL, DefaultUser, r.id>>

(* What get_db_context leaves in configKey.                                *)
ConfigKey(r) == [storage |-> r.storage, policy |-> r.policy,
                 permission |-> r.permission, responsible |-> r.responsible]
LocalCached  == [storage |-> "local", policy |-> "wc",
                 permission |-> "ReadWrite", responsible |-> TRUE]

(* The array index of database_get.                                        *)
ArrayIdx(ldbid, storage) == StorageCode[storage] + ldbid

Types     == {"wc", "wt", "confdefault", "default"}
Databases == {Database(r.ldbid, p, t) : r \in Resources, p \in {"wc", "wt"}, t \in Types}
Keys      == {DbKey(r, u) : r \in Resources, u \in Users}
                \cup {DefaultKey(r) : r \in Resources}
Indices   == {ArrayIdx(r.ldbid, s) : r \in Resources, s \in Storages}
Outcomes  == Values \cup {Absent, Error}

ASSUME HandleAssumption == NoDb \notin Databases /\ Closed \notin Databases /\ NoDb # Closed

NoCall == [op |-> "none"]
Calls  == [op : {"read", "size", "delete"}, res : Resources, user : Users]
            \cup {c \in [op : {"write"}, res : Resources, user : Users, value : Values] :
                    c.value \in Written[c.user]}

Disturbed == scenario.disturbed

TypeOK ==
  /\ scenario \in Scenarios
  /\ locked \in BOOLEAN
  /\ gResourceOpen \subseteq {RctIndex(r.ldbid) : r \in Resources}
  /\ gHandlesDB \in [Indices \X Types -> Databases \cup {NoDb}]
  /\ store \in [Databases \X Keys -> Values \cup {Absent}]
  /\ plugin \in [Resources -> Values \cup {Absent}]
  /\ pc \in {"idle", "rct", "rctRead", "get", "use", "plugin", "done"}
  /\ call \in Calls \cup {NoCall}
  /\ info \in {ConfigKey(r) : r \in Resources} \cup {LocalCached}
                \cup {[ConfigKey(r) EXCEPT !.policy = "wc"] : r \in Resources}
  /\ dbType \in Types
  /\ handleDB \in Databases \cup {NoDb, Closed}
  /\ result \in Outcomes
  /\ latest \in [Resources \X Users -> Values \cup {Absent}]
  /\ strayed \subseteq {r.id : r \in Resources}

(* Where the factory defaults of a resource are; a custom resource has     *)
(* them with the cached data.                                              *)
IsCustom(r)  == r.listed /\ r.storage = "custom"
OwnPolicy(r) == IF r.listed /\ ~ IsCustom(r) THEN r.policy ELSE "wc"
OwnDefault(r, type) == Database(r.ldbid, OwnPolicy(r), type)

Idle == /\ pc' = "idle" /\ call' = NoCall /\ info' = LocalCached
        /\ dbType' = "wc" /\ handleDB' = NoDb /\ result' = Absent

Init ==
  /\ scenario \in Scenarios
  /\ locked = FALSE
  /\ gResourceOpen = {}
  /\ gHandlesDB = [s \in Indices \X Types |-> NoDb]
  /\ store = [e \in Databases \X Keys |->
                LET mine == {r \in Resources :
                               e = <<OwnDefault(r, "default"), DefaultKey(r)>>}
                IN  IF mine = {} THEN Absent ELSE Factory[CHOOSE r \in mine : TRUE]]
  /\ plugin = [r \in Resources |-> Absent]
  /\ pc = "idle" /\ call = NoCall /\ info = LocalCached
  /\ dbType = "wc" /\ handleDB = NoDb /\ result = Absent
  /\ latest = [e \in Resources \X Users |-> Absent] /\ strayed = {}

-----------------------------------------------------------------------------
(* A call begins                                                           *)

Finish(outcome) == /\ pc' = "done" /\ result' = outcome
                   /\ UNCHANGED <<call, info, dbType, handleDB>>

(* pclKeyGetSize is the one that does not look at the gate.                *)
Begin(c) ==
  /\ pc = "idle" /\ c.res \in scenario.uses
  /\ c.op # "size" => ~ locked
  /\ pc' = "rct" /\ call' = c
  /\ UNCHANGED <<state, info, dbType, handleDB, result>>

(* get_resource_cfg_table                                                  *)
GetTable ==
  /\ pc = "rct"
  /\ \/ gResourceOpen' = gResourceOpen \cup {RctIndex(call.res.ldbid)}
     \/ /\ Disturbed /\ RctIndex(call.res.ldbid) \notin gResourceOpen
        /\ UNCHANGED gResourceOpen
  /\ pc' = "rctRead"
  /\ UNCHANGED <<locked, gHandlesDB, store, plugin, latest, strayed, call, info, dbType,
                 handleDB, result>>

(* The call goes on with this entry of the table: the checks of            *)
(* pclKeyWriteData, then database or plugin.  Configurable defaults are    *)
(* written as data of DefaultUser.                                         *)
Proceed(conf) ==
  IF /\ call.op = "write"
     /\ conf.permission = "ReadOnly" \/ (conf.storage = "shared" /\ ~ conf.responsible)
  THEN Finish(Error)
  ELSE /\ info' = conf
       /\ pc' = IF conf.storage = "custom" THEN "plugin" ELSE "get"
       /\ dbType' = IF call.op = "write" /\ call.user = DefaultUser
                      THEN "confdefault" ELSE conf.policy
       /\ UNCHANGED <<call, handleDB, result>>

(* get_db_context: a resource that could not be read from the table, for   *)
(* whatever reason, is a cached key if it is local and an error otherwise. *)
ReadTable ==
  /\ pc = "rctRead"
  /\ LET found == call.res.listed /\ RctIndex(call.res.ldbid) \in gResourceOpen
     IN  CASE found -> Proceed(ConfigKey(call.res))
           [] ~ found /\ call.res.ldbid = PCL_LDBID_LOCAL -> Proceed(LocalCached)
           [] OTHER -> Finish(Error)
  /\ UNCHANGED state

-----------------------------------------------------------------------------
(* Databases                                                               *)

(* Mutant: the policy of the resource, not the type asked for, is the index *)
Slot_Policy == <<ArrayIdx(call.res.ldbid, info.storage), info.policy>>

Slot == <<ArrayIdx(call.res.ldbid, info.storage), dbType>>

(* The call is about to use the database of its own resource: its table    *)
(* entry was read, and the place of the array is not another database's.   *)
OwnWay ==
  /\ handleDB = Database(call.res.ldbid, OwnPolicy(call.res), dbType)
  /\ info.policy = OwnPolicy(call.res)
  /\ IsCustom(call.res) => info.storage = "custom"

(* database_get: a handle in the array is used whatever it was opened on.  *)
DatabaseGet ==
  LET path == Database(call.res.ldbid, info.policy, dbType)
  IN  /\ pc = "get"
      /\ IF Slot[1] >= DbTableSize
           THEN handleDB' = NoDb /\ UNCHANGED gHandlesDB
           ELSE \/ /\ handleDB' = IF gHandlesDB[Slot] = NoDb THEN path ELSE gHandlesDB[Slot]
                   /\ gHandlesDB' = [gHandlesDB EXCEPT ![Slot] = handleDB']
                \/ /\ Disturbed /\ gHandlesDB[Slot] = NoDb
                   /\ handleDB' = NoDb /\ UNCHANGED gHandlesDB
      /\ pc' = "use"
      /\ UNCHANGED <<locked, gResourceOpen, store, plugin, latest, call, info,
                     dbType, result>>
      /\ strayed' = IF handleDB' \in Databases /\ ~ OwnWay' THEN strayed \cup {call.res.id}
                                                           ELSE strayed

DefaultTypes == {"confdefault", "default"}
Entry == <<handleDB, IF dbType \in DefaultTypes THEN DefaultKey(call.res)
                                                ELSE DbKey(call.res, call.user)>>

(* pers_get_defaults: first the configurable, then the factory defaults.   *)
NextDefault(type) ==
  /\ pc' = "get" /\ dbType' = type /\ handleDB' = NoDb
  /\ UNCHANGED <<call, result>>

(* Mutant: the factory defaults come first.                                *)
Missed_FactoryFirst ==
  CASE dbType \in {"wc", "wt"} -> NextDefault("default") /\ UNCHANGED info
    [] dbType = "default"      -> NextDefault("confdefault") /\ UNCHANGED info
    [] OTHER                   -> Finish(Absent)

(* A lookup that did not succeed, for whatever reason, goes to the         *)
(* defaults; without a handle the resource has none.                       *)
Missed ==
  CASE dbType \in {"wc", "wt"} -> NextDefault("confdefault") /\ UNCHANGED info
    [] dbType = "confdefault"  -> NextDefault("default") /\ UNCHANGED info
    [] OTHER                   -> Finish(Absent)

(* The database has the key, does not have it, or fails.                   *)
UseLookup ==
  /\ pc = "use"
  /\ \/ handleDB \in Databases /\ store[Entry] # Absent /\ Finish(store[Entry])
     \/ handleDB \in Databases /\ (store[Entry] = Absent \/ Disturbed) /\ Missed
     \/ handleDB = Closed /\ Missed
     \/ handleDB = NoDb /\ dbType \in DefaultTypes /\ Missed
     \/ handleDB = NoDb /\ dbType \notin DefaultTypes /\ Finish(Error)
  /\ UNCHANGED state

(* persComDbReadKey and persComDbGetKeySize                                *)
UseRead == call.op = "read" /\ UseLookup
UseSize == call.op = "size" /\ UseLookup

(* Whose data a call is about: a custom library is not told the user.      *)
Owner(r, u) == IF IsCustom(r) THEN Node ELSE u

Put(v) == latest' = [latest EXCEPT ![<<call.res, Owner(call.res, call.user)>>] = v]

(* A stored change that is not announced is reported as an error.          *)
Announced(v, announces) == Finish(v) \/ (Disturbed /\ announces /\ Finish(Error))

(* persComDbWriteKey                                                       *)
UseWrite ==
  /\ pc = "use" /\ call.op = "write"
  /\ \/ /\ handleDB \in Databases
        /\ store' = [store EXCEPT ![Entry] = call.value]
        /\ Put(call.value)
        /\ Announced(call.value, info.storage = "shared")
     \/ /\ handleDB \notin Databases \/ Disturbed
        /\ Finish(Error) /\ UNCHANGED <<store, latest>>
  /\ UNCHANGED <<locked, gResourceOpen, gHandlesDB, plugin, strayed>>

(* Mutant: the resource, not the key of its user, is deleted.              *)
UseDelete_ResourceId ==
  /\ pc = "use" /\ call.op = "delete"
  /\ \/ /\ handleDB \in Databases
        /\ store' = [store EXCEPT ![<<handleDB, DefaultKey(call.res)>>] = Absent]
        /\ IF call.user = DefaultUser THEN UNCHANGED latest ELSE Put(Absent)
        /\ Finish(store[Entry])
     \/ /\ handleDB \notin Databases \/ Disturbed
        /\ Finish(Error) /\ UNCHANGED <<store, latest>>
  /\ UNCHANGED <<locked, gResourceOpen, gHandlesDB, plugin, strayed>>

(* persComDbDeleteKey; the configurable default of a key cannot be deleted *)
UseDelete ==
  /\ pc = "use" /\ call.op = "delete"
  /\ \/ /\ handleDB \in Databases
        /\ store' = [store EXCEPT ![Entry] = Absent]
        /\ IF call.user = DefaultUser THEN UNCHANGED latest ELSE Put(Absent)
        /\ Finish(store[Entry])
     \/ /\ handleDB \notin Databases \/ Disturbed
        /\ Finish(Error) /\ UNCHANGED <<store, latest>>
  /\ UNCHANGED <<locked, gResourceOpen, gHandlesDB, plugin, strayed>>

-----------------------------------------------------------------------------
(* Custom storage                                                          *)

(* Without data from the plugin the defaults are looked up, as for a       *)
(* cached key.                                                             *)
PluginLookup ==
  /\ pc = "plugin"
  /\ \/ plugin[call.res] # Absent /\ Finish(plugin[call.res])
     \/ /\ plugin[call.res] = Absent \/ Disturbed
        /\ info' = [info EXCEPT !.policy = "wc"]
        /\ NextDefault("confdefault")
  /\ UNCHANGED state

PluginRead == call.op = "read" /\ PluginLookup
PluginSize == call.op = "size" /\ PluginLookup

PluginPut(v, announces) ==
  /\ pc = "plugin"
  /\ \/ /\ plugin' = [plugin EXCEPT ![call.res] = v]
        /\ Put(v) /\ Announced(v, announces)
     \/ Disturbed /\ Finish(Error) /\ UNCHANGED <<plugin, latest>>
  /\ UNCHANGED <<locked, gResourceOpen, gHandlesDB, store, strayed>>

(* A deletion is announced too, and succeeds whether or not that worked.   *)
PluginWrite  == call.op = "write" /\ PluginPut(call.value, TRUE)
PluginDelete == call.op = "delete" /\ PluginPut(Absent, FALSE)

Return ==
  /\ pc = "done" /\ Idle
  /\ UNCHANGED state

-----------------------------------------------------------------------------
(* What gHandlesDBCreated marks.                                           *)
Open == {s \in Indices \X Types : gHandlesDB[s] # NoDb}

(* Mutant: database_close_all does not clear gHandlesDBCreated.            *)
PrepareShutdown_NotCleared ==
  /\ Disturbed \/ pc = "idle"
  /\ locked' = TRUE
  /\ gResourceOpen' = {}
  /\ gHandlesDB' = [s \in Indices \X Types |->
                      IF gHandlesDB[s] = NoDb THEN NoDb ELSE Closed]
  /\ handleDB' = IF handleDB = NoDb THEN NoDb ELSE Closed
  /\ UNCHANGED <<store, plugin, latest, strayed, pc, call, info, dbType, result>>

(* pers_rct_close_all: a table counts as closed even if closing it failed. *)
CloseTables == gResourceOpen' = {}

(* process_prepare_shutdown on the main loop thread: the gate closes, then *)
(* pers_rct_close_all and database_close_all.  A database that cannot be   *)
(* closed stays in the array; any other handle a call still holds is no    *)
(* longer good.                                                            *)
PrepareShutdown ==
  /\ Disturbed \/ pc = "idle"
  /\ locked' = TRUE
  /\ CloseTables
  /\ \E kept \in IF Disturbed THEN SUBSET Open ELSE {{}} :
       /\ gHandlesDB' = [s \in Indices \X Types |->
                           IF s \in kept THEN gHandlesDB[s] ELSE NoDb]
       /\ handleDB' = IF handleDB = NoDb \/ \E s \in kept : gHandlesDB[s] = handleDB
                        THEN handleDB ELSE Closed
  /\ UNCHANGED <<store, plugin, latest, strayed, pc, call, info, dbType, result>>

(* PCL_SHUTDOWN_CANCEL                                                     *)
Unlock ==
  /\ locked /\ locked' = FALSE
  /\ UNCHANGED <<gResourceOpen, gHandlesDB, store, plugin, latest, strayed, pc, call,
                 info, dbType, handleDB, result>>

Step ==
  \/ \E c \in Calls : Begin(c)
  \/ GetTable \/ ReadTable
  \/ DatabaseGet \/ UseRead \/ UseSize \/ UseWrite \/ UseDelete
  \/ PluginRead \/ PluginSize \/ PluginWrite \/ PluginDelete
  \/ Return
  \/ PrepareShutdown \/ Unlock

Next == Step /\ UNCHANGED scenario

Spec == Init /\ [][Next]_vars

-----------------------------------------------------------------------------
(* Properties                                                              *)

(* The table entries with which a call may look for a resource in the     *)
(* databases: its own, as cached data if a custom library has nothing, or  *)
(* that of a local key whose entry could not be read.                      *)
DbConfs(r) ==
  (IF ~ r.listed THEN {}
   ELSE {IF IsCustom(r) THEN [ConfigKey(r) EXCEPT !.policy = "wc"] ELSE ConfigKey(r)})
    \cup (IF r.ldbid = PCL_LDBID_LOCAL /\ (Disturbed \/ ~ r.listed) THEN {LocalCached} ELSE {})

(* The databases that the resources in use mean by a place of gHandlesDB.  *)
Meant(idx, type) ==
  UNION {{Database(r.ldbid, c.policy, type) :
            c \in {d \in DbConfs(r) : /\ ArrayIdx(r.ldbid, d.storage) = idx
                                     /\ type \in {d.policy} \cup DefaultTypes}} :
         r \in scenario.uses}

(* A call uses a database of the type it looks into, and one that some     *)
(* resource in use means by this place of gHandlesDB: its own one, unless  *)
(* resources of different databases have the place in common.  They do for *)
(* the defaults of local keys of both policies and of neighbouring groups. *)
RightDatabase ==
  (pc = "use" /\ handleDB \in Databases)
     => handleDB \in Meant(ArrayIdx(call.res.ldbid, info.storage), dbType)

(* No other resource has name and directory in common with this one.       *)
Dir(r)  == IF r.ldbid >= 128 THEN PCL_LDBID_LOCAL ELSE r.ldbid
Sole(r) == \A q \in Resources : (q.id = r.id /\ Dir(q) = Dir(r)) => q = r

(* What a key is worth: the value last written for its user, else the      *)
(* configurable default, else the factory default.                         *)
Lookup(r, u) ==
  LET o == Owner(r, u)
      conf == latest[<<r, DefaultUser>>]
  IN  IF o # DefaultUser /\ latest[<<r, o>>] # Absent THEN latest[<<r, o>>]
      ELSE IF conf # Absent THEN conf
      ELSE store[<<OwnDefault(r, "default"), DefaultKey(r)>>]

(* The defaults of a custom resource may be outside gHandlesDB.            *)
HasDefaults(r) == IsCustom(r) => ArrayIdx(r.ldbid, "custom") < DbTableSize

(* A read or a size that succeeds is about the value last written by       *)
(* pclKeyWriteData, or else about the defaults of this very resource,      *)
(* whatever other resources, users, deletions and shutdowns came before,   *)
(* if no plugin fails and no shutdown overlaps a call.  Excepted are the   *)
(* resources that were looked up in a database other than their own.       *)
ReadsLatest ==
  (/\ ~ Disturbed /\ pc = "done" /\ call.op \in {"read", "size"} /\ result # Error
   /\ Sole(call.res) /\ HasDefaults(call.res) /\ call.res.id \notin strayed)
     => result = Lookup(call.res, call.user)

(* Whatever fails and whenever a shutdown closes what a call is using, a   *)
(* read ends in an error, in no data, or in data of this resource: what    *)
(* its user wrote last or one of its own defaults, never older data and    *)
(* never those of another resource.  Excepted are the resources that were  *)
(* looked up in a database other than their own: their place of gHandlesDB *)
(* was another's, or their table was closed in the middle of a call.       *)
FallsBackToOwn ==
  (/\ pc = "done" /\ call.op \in {"read", "size"}
   /\ Sole(call.res) /\ call.res.id \notin strayed)
     => result \in {Error, Absent, latest[<<call.res, Owner(call.res, call.user)>>],
                    latest[<<call.res, DefaultUser>>], Factory[call.res]}

=============================================================================

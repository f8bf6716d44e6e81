----------------------------- MODULE MCKeyValue -----------------------------
(* KeyValue for TLC: the resources of an application and the numbers of    *)
(* PersistenceStorage_e.                                                   *)
EXTENDS KeyValue

CONSTANTS x, y, z, node, data, preset, fact

Resource(id, ldbid, storage, policy, listed) ==
  [id |-> id, ldbid |-> ldbid, storage |-> storage, policy |-> policy,
   permission |-> "ReadWrite", responsible |-> TRUE, listed |-> listed]

(* Local keys of both policies, one of them outside the table: they have   *)
(* one place of gHandlesDB for the defaults of either.  And a key that may *)
(* not be written and whose ldbid is outside gHandlesDB.                   *)
Cached       == Resource(x, 255, "local", "wc", FALSE)
WriteThrough == Resource(y, 255, "local", "wt", TRUE)
Locals == {Cached, WriteThrough,
           [Resource(z, 2000, "local", "wc", TRUE) EXCEPT !.permission = "ReadOnly"]}

(* A cached key of group 1 and a custom key of that group.                 *)
Shared == Resource(y, 1, "shared", "wc", TRUE)
Custom == Resource(x, 1, "custom", "wt", TRUE)

(* The custom key of group 1 and a write-through key of group 2, whose     *)
(* defaults have one place of gHandlesDB.                                  *)
Neighbours == {Resource(y, 2, "shared", "wt", TRUE), Custom}

(* Undisturbed calls on keys that share places, and disturbed calls; a     *)
(* local key of the table becomes a cached one while its table is closed.  *)
MCResources == Locals \cup Neighbours \cup {Shared}
MCScenarios == {[uses |-> Locals, disturbed |-> FALSE],
                [uses |-> Neighbours, disturbed |-> FALSE],
                [uses |-> {Shared}, disturbed |-> TRUE],
                [uses |-> {Custom}, disturbed |-> TRUE],
                [uses |-> {WriteThrough}, disturbed |-> TRUE]}

(* A call uses the database its path and type name, never one that another *)
(* resource has left in the same place of gHandlesDB.                      *)
OwnDatabase ==
  (pc = "use" /\ handleDB \in Databases)
     => handleDB = Database(call.res.ldbid, info.policy, dbType)

MCStorageCode == [s \in {"local", "shared", "custom"} |->
                    CASE s = "local" -> 0 [] s = "shared" -> 1 [] OTHER -> 2]
MCUsers   == {node, DefaultUser}
MCValues  == {data, preset, fact}
MCWritten == [u \in MCUsers |-> IF u = node THEN {data} ELSE {preset}]
MCFactory == [r \in Resources |-> fact]

=============================================================================

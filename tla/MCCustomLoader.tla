-------------------------- MODULE MCCustomLoader ---------------------------
(***************************************************************************)
(* Instances of CustomLoader, and its properties without the exceptions    *)
(* that the code makes necessary.                                          *)
(***************************************************************************)
EXTENDS CustomLoader

MCNames == <<"default", "secure", "hwinfo">>

MCLibs == {"libpers", "libsecure", "libhwinfo", "libodd"}

(* libhwinfo cannot be written and has only the asynchronous init, libodd  *)
(* tells sizes but no data.                                                *)
MCExports ==
  [l \in MCLibs |->
     CASE l = "libpers"   -> {}
       [] l = "libsecure" -> Functions
       [] l = "libhwinfo" -> {"get_data", "get_size", "init_async", "deinit"}
       [] l = "libodd"    -> {"get_size", "init", "deinit"}]

MCVars == {"libpers"}

Entry(name, lib, load, how) == <<name, lib, load, how>>
Newline == <<"">>

(* A long file, shorter ones of different lengths, with and without a      *)
(* newline at the end, in which libraries come, go or change their loading *)
(* type, are missing, lack a function or have a name that is not known.    *)
MCFiles ==
  {Entry("default", "libpers", "init", "sync") \o Entry("secure", "libsecure", "init", "sync")
     \o Entry("hwinfo", "libhwinfo", "init", "async"),
   Entry("default", "libnone", "init", "sync") \o Entry("hwinfo", "libsecure", "od", "sync"),
   Entry("secure", "libsecure", "od", "sync") \o Newline,
   Entry("hwinfo", "libodd", "init", "sync"), Entry("secure", "libhwinfo", "od", "sync"),
   Entry("unheard", "libsecure", "init", "sync")}

OneAndTwo ==
  {Entry("default", "libpers", "init", "sync"),
   Entry("default", "libpers", "init", "sync") \o Entry("secure", "libsecure", "init", "sync")}

OnDemand ==
  {Entry("default", "libpers", "init", "sync") \o Entry("secure", "libhwinfo", "od", "sync")}

Shared ==
  {Entry("default", "libpers", "init", "sync") \o Entry("secure", "libsecure", "init", "sync")}

(* The library on demand of the first file is not in the second.           *)
Removed ==
  {Entry("secure", "libsecure", "od", "sync"), Entry("hwinfo", "libhwinfo", "init", "async")}

AsDocumented == {Entry("secure", "libsecure", "on", "sync")}

WrongDefault ==
  {Entry("default", "libnone", "init", "sync") \o Entry("secure", "libsecure", "init", "sync")}

(* The library array says what the file says, whatever was read before.    *)
NothingIsLeft ==
  (initPc # "idle" \/ gPclInitCounter = 1) =>
     \A i \in Ids : gCustomLibArray[i].valid <=>
        \E k \in Starts(file) : file[k] = Names[i + 1]
=============================================================================

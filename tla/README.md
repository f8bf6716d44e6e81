# TLA+ models of the persistence client library

The persistence client library (PCL) is a C library that an application links to
read and write persistent keys and files. It keeps process-wide state (handle
pools, database handles, an access gate, a notification callback), runs one extra
thread (the D-Bus main loop) and keeps files recoverable with a backup and a
checksum file. This directory models that core in TLA+, model-checks it with TLC
and proves its most important invariants with TLAPS.

Paths below are relative to `src/src/` of the repository unless they say
otherwise; `pcl_` abbreviates `persistence_client_library_`.

## 1. Inventory

| component | state it keeps | operations | code |
|---|---|---|---|
| file API and backup recovery | per file: the original, `<file>~`, `<file>~.crc`; per descriptor: `backupCreated`, permission, paths | `pclFileOpen`, `pclFileWriteData`, `pclFileClose`, `pclFileRemove`; `pclVerifyConsistency`, `pclRecoverFromBackup`, `pclCreateBackup` | `pcl_file.c`, `pcl_backup_filelist.c` |
| handle pool and handle trees | `gHandleIdx`, `gFreeHandleArray`, `gFreeHandleIdxHead`, `gKeyHandleTree`, `gOssFileHandleTree`, `gFileHandleTree`, the list `gOpenFdList` | draw, hand back, close all; `pclKeyHandleOpen/Close`, `pclFileCreatePath/ReleasePath` | `pcl_handle.c`, `pcl_key.c`, `pcl_file.c` |
| main loop and command pipe | `gPipeFd`, `gMainLoopCondValue`, `gMainCondMtx`, `gDeliverpMtx`, `gDbusMainloopRunning`, `gPollInfo` | `deliverToMainloop`, `deliverToMainloop_NM`, `mainLoop`, `setup_dbus_mainloop`, `addWatch`, `removeWatch`, `addTimeout`, `removeTimeout` | `pcl_dbus_service.c`, `pcl_dbus_cmd.c`, `persistence_client_library.c` |
| lifecycle and access gate | `gLockAccess`, `gCancelCounter`, `gPclInitCounter`, `gShutdownMode` | `pclInitLibrary`, `pclDeinitLibrary`, `pclLifecycleSet`, NSM and PAS requests, `process_prepare_shutdown` | `persistence_client_library.c`, `pcl_pas_interface.c`, `pcl_lc_interface.c`, `pcl_dbus_cmd.c` |
| key-value access | `gResource_table`/`gResourceOpen`, `gHandlesDB`, the databases behind the plugin | `pclKeyReadData`, `pclKeyGetSize`, `pclKeyWriteData`, `pclKeyDelete`, `get_db_context`, `database_get`, defaults, custom storage | `pcl_key.c`, `pcl_prct_access.c`, `pcl_db_access.c` |
| change notifications | `gNotificationTree`, `gChangeNotifyCallback`, match rules at the bus | register and unregister through two APIs, the signal handler | `pcl_key.c`, `pcl_db_access.c`, `pcl_dbus_cmd.c`, `pcl_dbus_service.c` |
| administration service registration | `gPasRegistered`, `gDbusPendingCondValue`, the pending call, a thread per NameOwnerChanged | `register_pers_admin_service`, `unregister_pers_admin_service`, `msg_pending_func`, the NameOwnerChanged handler | `pcl_pas_interface.c`, `pcl_dbus_cmd.c`, `pcl_dbus_service.c` |
| custom library loader | `gpCustomTokenArray`, `gCustomLibArray`, `gPersCustomFuncs` | `load_custom_plugins`, `get_custom_libraries`, `load_custom_library`, the calls of the libraries, unloading in a full shutdown | `pcl_custom_loader.c`, `pcl_db_access.c`, `pcl_dbus_cmd.c` |
| blacklist parser | tree of file names | `readBlacklistConfigFile`, `need_backup_key` | `pcl_backup_filelist.c` |
| application check | none | `doAppcheck` | `pcl_data_organization.c` |
| containers | red-black tree, CRC | `jsw_rbinsert`, `jsw_rberase`, `jsw_rbfind`, `jsw_rbdelete` | `rbtree.c`, `pcl_tree_helper.c`, `crc32.c` |
| tools and tests | none | | `src/tools`, `src/test` |

**How they interact.** The key and file APIs run on application threads, each
under a mutex of its own (`gKeyAPIAccessMtx`, `gKeyAPIHandleAccessMtx`,
`gFileAccessMtx`). They share the handle pool (under `gMtx`), look at the gate
without a lock, and send commands to the main loop thread through a pipe: with
`deliverToMainloop` they wait for the dispatch, with `deliverToMainloop_NM` they
do not. The loop thread executes the commands (shutdown, signals, match rules,
quit) and serves D-Bus (NSM requests, PAS requests, change signals). A shutdown on
the loop thread closes the gate, syncs or closes files, closes tables and
databases and resets the handle pool, taking none of the API mutexes except
`gFileAccessMtx`. `pclInitLibrary` and `pclDeinitLibrary` start, stop and join the
loop.

**What is hard.** Crashes between system calls that maintain three files; the
handshake over a pipe plus a condition variable that is reset outside its mutex;
a two-step lock of the gate, with unlocks from other threads; shutdowns that close
handles under a running call; an array of database handles addressed by a sum;
one global callback shared by all registrations; an index pool shared by two
kinds of handles under different mutexes; a list that is walked on one thread while
another frees its items; an array of poll descriptors that changes while it is
iterated over; a pending call whose answer, timeout and caller race. `PROJECT.json` lists these hazards line
by line, with the properties that watch over each.

**What makes each component correct.**

* Files: an open that succeeds delivers what the last completed session left, unless
  a system call failed; the backup is complete before the original changes; nothing
  stale is left behind, except what cannot be removed; an existing file is deleted only
  in known crash windows.
* Handles: one owner per index, no leak, no index free twice, a handle names its key.
* Main loop: no lost wakeup, every call returns, no delivered command is dropped at
  quit, initialised means running.
* Gate: closed exactly when a lock was the last thing asked for; the limit on cancels
  is final;
  every shutdown writes back; the NSM gets its answer.
* Keys: only resources that share a place of `gHandlesDB` are ever mixed up; for all
  others a read returns the latest value or the right default, and failures fall back
  to data of the same resource.
* Notifications: registered resources are notified with their callback, others are
  silent.
* Open files: application, tree and kernel mean the same file by a descriptor; a
  shutdown reaches every writable file that is open; a changed file has a backup.
* Registration: every caller gets an answer, and the flag is set exactly when the
  service knows the client.
* Poll array: each entry belongs to a live watch or timer, and what is enabled is
  polled; a timeout that has expired is handled.
* Loader: the table of libraries has what the file of this session names; a library
  is called only while it is loaded and initialised, unless a shutdown meets the call.
* Tree: it is a set of items, whatever rotations happen on the way down.

## 2. Modules

| module | models | one step is |
|---|---|---|
| `FileBackup` (`MCFileBackup`) | one file resource, open to close, recovery, crash at any point | one system call that changes a file on disk |
| `OpenFiles` (`MCOpenFiles`) | all open files together: tree and list of descriptors, several descriptors of one file, reused descriptors, shutdowns that walk the list | one call of the file API (they hold `gFileAccessMtx`); one item, or one `next` pointer, of the list |
| `HandlePool` | the pool, the key handle tree, the path handle tree | one critical section of `gMtx`, or one access to a tree |
| `MainLoop` | application threads, the pipe, the loop thread, init and deinit | the code between two points where another thread can interfere |
| `PollInfo` | the array of poll descriptors, the iteration of `mainLoop`, watches and timeouts | one entry of the array, with the callbacks libdbus makes while it is handled |
| `PasRegister` (`MCPasRegister`) | registration with the administration service: callers, loop, bus, service | as in `MainLoop`; one message on the bus |
| `Lifecycle` | the gate, its writers, the requests that move it, write-back | as in `MainLoop`; a command is dispatched in the steps take, store, add, flush |
| `KeyValue` (`MCKeyValue`) | one key call at a time against table, database handles and defaults, with the loop closing them | getting a handle, using a handle |
| `CustomLoader` (`MCCustomLoader`) | parsing the configuration, loading, calling and unloading custom libraries | parsing the file; loading or initialising one library; check, load and call of a key call; one library of a shutdown |
| `Notification` (`MCNotification`) | registration, tree, callback, match rules, signals | check of the callback, update of the tree, delivery; check and call in the handler |
| `RbTree` | the red-black tree of `rbtree.c` | one iteration of the loop of an operation |
| `ItemSet` | what the users of the tree rely on: a set of items | one call, one return |
| `AtomicFile` | what the backups promise: a file whose sessions take effect as a whole or not at all | one call of the file API, one crash |
| `FileBackupProofs`, `OpenFilesProofs`, `HandlePoolProofs`, `MainLoopProofs`, `KeyValueProofs`, `CustomLoaderProofs` | the theorems about the module of that name | |
| `LifecycleProofs` | the theorems about `Lifecycle` and `PasRegister` | |
| `NotificationProofs` | the theorems about `Notification` and `PollInfo` | |

The modules are separate because the code's components share little state. Where
they do, one module abstracts the other: `Lifecycle` keeps the order of commands
and leaves the handshake to `MainLoop`; `MainLoop` does not interpret commands and
takes the array of `PollInfo` as "the pipe is read"; `PasRegister` uses the
handshake as one step; `KeyValue` has a shutdown action whose content is
`process_prepare_shutdown`; `Notification` treats the delivery of a command as one
step; `OpenFiles` takes backup and checksum as one, `FileBackup` cuts them into system
calls and is shown to implement `AtomicFile`; every tree of these modules is a set or a
function, which is what `RbTree` is shown to implement.

**State.** Variables keep the names of the C variables where one exists. A tree is
a set or a total function with a "not there" value; a mutex is its holder; a
position in a function is a `pc`. History variables (marked as such) record what the
application believes: committed content, held handles, what was asked of the gate,
the last value written, what is registered.

**Behaviour under which a promise is not kept.** The runs contain it, and a history
variable tells that it has happened, so that a property states exactly when it holds:

| variable | set when |
|---|---|
| `fault`, `kept` (`FileBackup`) | a system call on the three files has failed; which files `remove()` has left |
| `shared`, `raced`, `stale` (`OpenFiles`) | a second session of a file; an open in the middle of a shutdown, or a freed item that was read and held something else than before; a descriptor the application keeps that is not its own any more |
| `disturbed`, `dropped` (`HandlePool`) | a full shutdown reset a pool in use, or a foreign handle was released; an index came back to a full free array |
| `nmDispatched`, `raced` (`MainLoop`) | a command nobody waits for was dispatched; a call has overlapped an init or deinit of another thread |
| `barred` (`Lifecycle`) | the gate was closed with the limit on cancels reached and no accepted cancel still to unlock |
| `crossed`, `overtaken`, `unsent`, `lapsed` (`PasRegister`) | a registration was begun in the middle of another; a signal was handled in the middle of one; no message, and so no reply, was sent; an answer was an error |
| `strayed` (`KeyValue`) | resources that were looked up in a database other than their own |
| `overlapped`, `leaked` (`CustomLoader`) | a shutdown has met a call or an init; libraries that a failed init left open, or that were opened as the default library |
| `clean` (`RbTree`) | never a duplicate insert, nor an erase of what is not there |

The scenario of `KeyValue`, chosen in the initial state, says which resources are used and
whether plugins fail and shutdowns fall into a call (`scenario.disturbed`). Three things
are constants: `Again` and more than one element of `Apis` (`Notification`), under which
registrations free what is still in the tree, and `UsePas` (`Lifecycle`), a build option.
Section 6 says what each of these shows.

**Abstractions worth knowing.**

* `FileBackup`: contents are opaque, the CRC is injective on the contents of one
  file, one descriptor at a time, the process dies but the machine does not (no
  loss of the page cache), the user is not `PCL_USER_DEFAULTDATA`, the build is
  without `USE_FILECACHE`. A write or copy that is interrupted or fails leaves any
  content. Which descriptors can be read (`readable`) is part of the state: those that
  `pclCreateFile` and `pclRecoverFromBackup` open are `O_RDWR` whatever the resource says,
  so a file that is `WriteOnly` has checksums and backups in some sessions and not in others.
* `HandlePool`: at most one key-handle call and one path call are in progress, which
  is what the two API mutexes enforce.
* `MainLoop`: dispatching a command is atomic. The only blocking call of the callbacks on
  the loop thread is its own write to the pipe: on a full pipe it waits for itself, and
  stays there (`mainPc = "stuck"`). `_NM` callers do not take `gDeliverpMtx`.
* `Lifecycle`: one cancel at a time; a writer is one API; data is only "written and not written back".
* `KeyValue`: sizes and buffers are left out, a seat is part of the user, a handle is
  the database it was opened on. `StorageCode` and `DbTableSize` are the numbers
  that make up the array index, kept exact because the index is where collisions
  come from. The database plugin and the custom libraries are external: they store
  what they are given, and may fail in a disturbed scenario.
* `Notification`: of the database key only the hash matters; the bus counts match
  rules and delivers one signal per change. A search through a tree that contains
  a freed item may have any result.
* `OpenFiles`: items of the list are cells of memory, which an open may be given again.
  Reading a freed one yields anything, or kills the process: other allocations and the
  allocator itself may have written to it. When a shutdown is done, cells out of reach are
  forgotten. The gate is left out: any call may have passed it before it closed.
* `PollInfo`: libdbus is external and may toggle its watches in any call; a message is
  a reply to a pending call or not.
* `PasRegister`: the bus answers in place of a service that is gone or too slow.
* `CustomLoader`: a file is a sequence of tokens; after undefined behaviour (a null
  call, a write behind the array) the process stops.
* `RbTree`: an item is its key, a node is named by its item, memory is never short.

## 3. Runs

Eleven runs pass, one shows a disagreement between the code and its own
documentation. Numbers are distinct states.

| run | question | bounds | states |
|---|---|---|---|
| `file_crashes` | recovery under any sequence of open, write, close, remove, crash and failing system call; are sessions atomic? | three contents (committed, being written, torn all differ); all combinations of permission, blacklist, table entry and default file; crashes and failures are unlimited | 2.93 M |
| `openfiles` | descriptors, list, backups and shutdowns of several files, with freed items that hold anything | two files of three pairs of kinds, two descriptors, two list items, one stale descriptor | 1.14 M |
| `handles` | the pool shared by key and path handles, to exhaustion, with full shutdowns and foreign releases | 4 slots (2 usable handles), two keys, one path, two disturbances | 3.17 M |
| `mainloop` | handshake, init, deinit, spurious wakeups, calls that overlap init and deinit, a full pipe; safety and liveness | two threads, two commands in the pipe, counter to 2 | 217 k |
| `poll` | the poll array under callbacks during the iteration; safety and liveness | four places, two watches, two timeouts, one command in the pipe | 180 k |
| `registration` | register, unregister and the flag, with signals in between, calls that overlap and messages that are not sent; safety and liveness | one thread of init and one started by the handler, two changes of the service, two sessions, one timeout | 462 k |
| `lifecycle` | the gate under application, NSM and PAS requests; a cancel checks and unlocks in two steps | the real `Shutdown_MaxCount` of 3, four shutdowns, `gLockAccess` down to -2, two commands in the pipe | 590 k |
| `lifecycle_cancel` | does an accepted cancel reopen access? (violated) | | |
| `keys` | reads after any writes, deletes, sizes and shutdowns | undisturbed: three local keys (cached and unlisted, write-through, read-only with an ldbid outside the array), of which the first two share places of `gHandlesDB`; a custom key of group 1 and a shared key of group 2, which share places too; disturbed: a shared cached, a custom and a local write-through key, one at a time; two users | 645 k |
| `loader` | the table, the loading and the calls of custom libraries, over sessions with different files and with shutdowns in the middle of calls and inits | three library ids, four libraries (complete, without some functions, with `get_size` and no `get_data`) and one that is missing, six files of three lengths with and without a newline at the end and one with an unknown name, three inits | 2.79 M |
| `notify` | registration, change and signal handling | three resources, two callbacks, two signals on the bus | 41 k |
| `rbtree` | does the red-black tree implement a set? | seven keys | 346 k |

**Why the bounds are enough.** Three contents let the committed, the current and a
torn content differ pairwise, which is all that the comparisons in
`pclVerifyConsistency` tell apart. Two usable handles and four possible holders (two
keys, a path, a call in progress) exhaust the pool and refill it in every order; the
theorems cover larger pools. Two descriptors and two list items are enough for the
iteration to stand on a freed item while the other is closed, and to be led back, on or to
the end by what it reads there; the pairs of kinds put two files with backups, or one file inside the
list and one outside, next to each other. Two threads give a waiter and an intruder;
a third only adds another waiter on `gDeliverpMtx`. The pipe of two holds a call and the
quit behind it, the situation `NoCallLostAtQuit` is about, and a third command meets a full
pipe, on which a thread or the loop itself blocks. Four places of
the poll array hold the pipe, both watches and one timeout, so that the second timeout,
or a watch, meets a full array; a removal can move one entry over another. The gate's
counter needs to be below zero by more than one to show that a lock works from any
value. Array indices do not depend on how many values exist, so one value per user
and per default suffices to tell them apart. Files of one entry after one of three leave tokens of both others
behind. Seven keys give red-black trees of three to four levels, in which the insertion uses the great-grandparent and the deletion
meets each of its cases (red sibling, black sibling with and without red nephews, at
the root and below).

**Deadlock** is checked everywhere except in four models where the system really
stops: in `mainloop` the loop may wait for room in its own pipe, and a call for a loop that
has ended; in `notify` the loop thread may die in the signal handler (section 6); and in
`loader` and `registration` the process stops after undefined behaviour, a caller waits
for ever, or the numbers of inits, sessions and changes of the service run out.

**Fairness.** `MainLoop` assumes strong fairness of the loop thread and of each step of
a call that has begun: these steps take mutexes, and the threads that compete for
them release them in a bounded number of steps, so a waiting thread is not overtaken
for ever by a fair scheduler. Starting a call is never assumed. `Lifecycle` and
`Notification` assume weak fairness of the loop thread only: it polls pipe and bus,
and nothing else disables its steps for good. `PollInfo` adds that timers run out.
`PasRegister` assumes weak fairness of the loop, of each caller that has begun, and of
the bus, which answers a pending call at the latest when its time has run out
(`dbus_connection_send_with_reply` is given a timeout). `RbTree` assumes that a thread in
an operation goes on. No fairness is assumed of the application, the NSM or the PAS.

**Mutants.** For each property a mutated definition (`..._NoSignal`, `..._OffByOne` and
so on, each with a comment) stands next to the original; replacing the original by it
makes TLC find a violation of the property, so that no property holds vacuously.

## 4. Properties in words

* `FileBackup`: `OpenDeliversCommitted` (for a file that is in the table, readable,
  writable and not blacklisted, unless a system call on the files failed, the copy of this
  very recovery included; with the exception of sessions that started from an empty file,
  whose empty checksum the code takes for "nothing to do"), `BackupBeforeWrite`,
  `NoStaleBackup` (a session that ends without a crash leaves neither backup nor
  checksum, except one that `remove()` has refused to take away), `LossOnlyInWindows` (as
  long as no system call fails, an existing file is deleted as corrupt only after a crash
  between creating the backup and its checksum file; between the two `remove()` calls of
  `pclFileClose`; or, for a `WriteOnly` file, between writing the checksum and the end of
  the copy), and `ImplementsAtomicFile`: with what the last close left as
  the content and what the descriptor shows as the view, every system call is a step of
  `AtomicFile` or a stutter. This says, beyond what one open hands out, that neither a
  write nor a crash, nor a recovery that is itself cut short, ever becomes part of the
  content on its own; a failing call suspends the promise (`trusted`) until a close
  that leaves nothing behind.
* `OpenFiles`: `DescriptorsAgree` (application, tree and kernel mean the same file by a
  descriptor: `TreeNamesKernel` and `HeldNamesItsFile`), `ListTracks` (between shutdowns
  the list holds exactly the writable files that are open), `ShutdownReachesAll` (every
  file that was open is synced or closed although other threads close files meanwhile).
  Both except shutdowns into which an open fell, or in which a freed item that the walk
  read held something else than before; that such a shutdown ends as it should rests on
  memory that the library has given back. `ChangedHasBackup`, `WritesStay`.
* `HandlePool`: `HandleNamesItsKey`, `OneOwner`, `NoLeak`; proved only: `FreeArrayIsASet`.
* `MainLoop`: `NoLostWakeup`, `EarlyReturnIsStale` (a delivery returns before its
  dispatch only because of a command that nobody waited for), `LoopServes`
  (`InitialisedMeansRunning`, always, and `NoCallLostAtQuit`), `EveryCallReturns`. A call
  that overlaps an init or deinit is the exception of the first and third: it may be left
  waiting (`Stranded`), and with it all who call after it. So may everybody when the loop
  waits for its own pipe (`stuck`). `EveryCallReturns` says that there is no other way.
* `PollInfo`: `ArrayIsSound` (`EntriesMatch` and `EnabledIsPolled`), `TimeoutIsHandled`.
* `PasRegister`: `RegistrationIsSound` (`AnswerToCome`, until calls overlap or a message is
  not sent; `FlagTellsTheTruth`, until calls overlap or a signal is handled in the middle
  of one), `EveryRegistrationReturns` with the exceptions of the former.
* `Lifecycle`: `GateFollowsRequests`, `LimitIsFinal` (of `gLockAccess` itself: once it was
  closed with the limit reached it is closed, except between the two halves of a further
  lock, until an init or the PAS opens it; the code looks at the counter before it unlocks,
  so a cancel that has looked may still come), `ShutdownWritesBack`, `NsmIsAnswered`;
  documented but not kept: `CancelReopens`, `WrittenBackWhenLocked`.
* `KeyValue`: `RightDatabase` (a call uses a database of the type it looks into that some
  resource in use means by this place of `gHandlesDB`: the place is the only way in which
  resources are mixed up), `ReadsLatest` and `FallsBackToOwn`, of resources that are not
  `strayed` and have no namesake in their directory. What clashes, and what strays because a
  table is closed in the middle of a lookup, is part of the run, and the resources that this
  happens to are named exactly.
* `CustomLoader`: `TableIsTheFile` (the table has what the file of this session names, and
  more only while tokens of a longer file are left), `CallsAreSafe` (`InsideArray`, with the
  exception of names that are not known; `NoNullCall`, with that of a library that has
  `get_size` and not `get_data`; `CallsReadyLibrary`; the latter two until a shutdown meets a
  call or an init), `OpenedOnce`, `ConfiguredIsReady`.
* `Notification`: `RegisteredIsNotified`, `UnregisteredIsSilent`, `ChangeIsNotified`.
* `RbTree`: `IsRedBlackTree` (`Ordered`, `RedBlack` and `SizeIsCount`), and
  `ImplementsItemSet`: with the allocated nodes as the set, every step of an operation
  is a step of `ItemSet` or a stutter, every lookup gives the set's answer, and every
  operation ends.

A type invariant that is not a property of its own is the first conjunct of another one
(`DescriptorsAgree`, `LoopServes`, `ArrayIsSound`, `RegistrationIsSound`, `CallsAreSafe`,
`IsRedBlackTree`); those of `FileBackup` and `Lifecycle` are proved and in no run.

## 5. Proofs

All theorems hold for every value of the constants that satisfies the named
assumptions of the module (`CrcAssumption`, `MaxAssumption`, ...). Two proof modules
extend two components each, which is why the specifications of `PasRegister` and
`PollInfo` are called `RegSpec` and `PollSpec`.

| theorem | states | further condition |
|---|---|---|
| `FileBackupProofs!TypeCorrect`, `BackupBeforeWriteCorrect`, `NoStaleBackupCorrect`, `OpenCorrect`, `LossCorrect` | `TypeOK`, `BackupBeforeWrite`, `NoStaleBackup`, `OpenDeliversCommitted`, `LossOnlyInWindows` | none |
| `OpenFilesProofs!DescriptorsAgreeCorrect`, `ChangedHasBackupCorrect`, `WritesStayCorrect`, `ListTracksCorrect`, `ShutdownReachesAllCorrect` | the five properties of `OpenFiles`, which name their exceptions (`shared`, `raced`, `stale`) themselves | none |
| `FileBackupProofs!AtomicCorrect` | `ImplementsAtomicFile`, the refinement | none |
| `HandlePoolProofs!TypeCorrect` | `TypeOK` | none |
| `HandlePoolProofs!OneOwnerCorrect`, `HandleNamesItsKeyCorrect`, `FreeArrayCorrect`, `NoLeakCorrect` | `OneOwner`, `HandleNamesItsKey`, `FreeArrayIsASet`, which say themselves that they hold while the pool is undisturbed; `NoLeak`, which holds unless an index was dropped, and none is while the pool is undisturbed | none |
| `MainLoopProofs!TypeCorrect`, `EarlyReturnCorrect` | `TypeOK`, `EarlyReturnIsStale` | none |
| `MainLoopProofs!NoLostWakeupCorrect`, `LoopServesCorrect` | `NoLostWakeup`, `LoopServes`, which hold until a call overlaps an init or deinit | none |
| `LifecycleProofs!TypeCorrect`, `GateCorrect`, `LimitCorrect` | `TypeOK`, `GateFollowsRequests`, `LimitIsFinal` | none |
| `LifecycleProofs!RegisterTyped` | `RegTypeOK` | none |
| `LifecycleProofs!RegistrationCorrect` | `RegistrationIsSound` | none |
| `KeyValueProofs!TypeCorrect` | `TypeOK` | none |
| `KeyValueProofs!RightDatabaseCorrect` | `RightDatabase`, with faults and racing shutdowns | none |
| `KeyValueProofs!FallsBackCorrect` | `FallsBackToOwn`, with faults and racing shutdowns | none |
| `KeyValueProofs!ReadsLatestCorrect` | `ReadsLatest` | none |
| `CustomLoaderProofs!TypeCorrect`, `ConfiguredIsReadyCorrect`, `TableIsTheFileCorrect`, `CallsAreSafeCorrect`, `OpenedOnceCorrect` | `TypeOK`, `ConfiguredIsReady`, `TableIsTheFile`, `CallsAreSafe`, `OpenedOnce`, for any files and libraries | none |
| `NotificationProofs!TypeCorrect` | `TypeOK` | none |
| `NotificationProofs!RegisteredIsNotifiedCorrect`, `UnregisteredIsSilentCorrect` | the two properties | `OneApi`, `Distinct`, `~ Again` |
| `NotificationProofs!ArrayCorrect` | `ArrayIsSound` | none |

**The arguments.**

* *Files.* `IInv` adds to the types: where the descriptor and the files stand at each
  program counter (`ControlInv`), that what `pclVerifyConsistency` found still holds
  when it is acted upon (`VerifiedInv`), and, for a protected linked file without
  faults, that the committed content is restorable (`Restorable`): the original has
  it and no checksum contradicts, or the checksum is the committed one and the backup
  has the content or is gone, or the session started from an empty file. This is needed
  because a crash may hit a recovery from an earlier crash: the property about one open
  says nothing about the states between. `CleanInv` says that
  between sessions there is neither backup nor checksum unless the process has died or
  `remove()` has failed. For `LossOnlyInWindows`, which holds for files
  that are not protected too, `WindowInv` says what the three files look like at each
  stage outside the windows: whatever a crash leaves there, the next check finds the
  original valid, nothing to check, or a backup to recover from. The refinement of
  `AtomicFile` needs one more fact (`LinkInv`): a path that is gone has no committed
  content, and an open descriptor shows one. Then the four steps that hand out a
  descriptor are `Open` or `Create`, the step that drops the descriptor is `Close`, a write
  of the original is `Write`, the removal of a corrupt file is `Remove`, a failing backup
  is `Fail`, and all other system calls change nothing the application can tell.
* *Open files.* `IInv` is about descriptors and backups: tree and kernel agree, whoever
  is not alone with a file is on record in `shared` (`SharedInv`), and an entry that
  notes a backup has one (`BackupInv`). The list needs more. `Chain(r)` says that it leads
  through the allocated items in the order of some ranking `r`, which an open extends and
  a close restricts; `Links(S, r)` that the items allocated when the shutdown began, the
  freed ones among them, still lead upwards in `r` and skip nothing that is allocated;
  `Ahead(r)` that every file still to be reached lies ahead of the walk. So following
  freed items is harmless as long as they hold what they held; once one does not (`raced`),
  nothing is claimed of this shutdown, nor of the list after a full one. That the
  sequence `Item`, a recursive function, runs through exactly the allocated items is
  shown by taking the least rank, or the least position, for which it fails.
* *Handles.* `IInv` says that below `gHandleIdx` each index has exactly one owner
  (free array, application, or an open that has drawn it), that the free array holds
  distinct indices, and that the trees hold what is out, except the one entry whose
  close has handed back the index and not cleared it yet. That the array cannot
  overflow is the pigeonhole principle (`HeadBound`). The types hold without it, the rest
  as long as `disturbed` is 0. In a disturbed pool an index may be free twice, but none
  gets lost (`LeakInv`) before such duplicates have filled the free array.
* *Main loop.* `IInv` holds whatever calls overlap: each mutex belongs to the
  thread between its lock and its unlock, the loop's pipe lives as long as the loop
  (`LoopInv`), only the holder of `gDeliverpMtx` resets the condition (`CondInv`), and as
  long as no command without a waiting sender has been dispatched, the condition is set
  only for the one caller that is about to see it (`ExactInv`). `RunInv` adds that the loop
  ends only for a deinit that waits to join it. Until a call overlaps an
  init or deinit (`raced`), `SerialInv` adds that whoever is in a call has a loop to talk to
  (`AloneInv`), that nothing that somebody waits for comes after `CMD_QUIT` (`QuitInv`),
  and that whoever may go to sleep has a command on its way (`WakeInv`). `NoLostWakeup`
  is not inductive without the latter two: the wakeup would be lost if the loop could
  quit over a waiting caller. Afterwards it can.
* *Gate.* `GateInv` fixes the value of `gLockAccess` at each moment: 0 between the two
  halves of `pers_lock_access` unless somebody unlocked meanwhile, below 0 then, 1 when
  locked, at most 0 when open. `TypeCorrect` rests on it too: only because
  `pers_lock_access` stores before it adds does `gLockAccess` never exceed 1.
  `LimitCorrect` rests on `BarInv`: of a barred gate the value is 1, or 0 between the two
  halves, because from then on nobody but `pers_lock_access` moves it.
* *Keys.* `SlotInv` says that a handle in the array is one that some resource in use
  means by its place (`Meant`), `InfoInv` with which table entries a call gets there. This
  is all that holds of every resource. Of those that have a name of their own in their
  directory and have not strayed (`Clean`), `RouteInv` says that a call goes to the database
  and the kind of entry of its resource, `StoreInv` that databases and custom libraries hold
  what was last written, and `SeekInv` that a lookup which has come to the defaults missed
  only what is absent. A resource strays when a handle it is given is not of its own database
  (its place was taken), or its table entry could not be read (a listed local key
  is then looked for among the cached ones, where older data may be). Namesakes are excepted
  because the key of a default has no ldbid in it, so local resources (ldbid of 128 and
  above) of one name share their defaults; and `ReadsLatest` excepts custom keys whose index
  is outside the array, which lose their defaults (`HasDefaults`).
* *Custom libraries.* Each place that holds a library has opened it (`RefsInv`, an
  inequality of cardinalities, because a failed init leaves libraries open that nobody
  holds) and init and shutdown are at a library of the table (`IndexInv`): these hold
  throughout. Until a shutdown meets a call or an init (`overlapped`), `TurnInv` says that
  they take turns, `LoadedInv` that a loaded library is the one its entry names, `PassedInv`
  that a shutdown has unloaded what it has passed. `FileInv` says of any files that the table
  comes from this session's file or from what is left of a longer one; it needs a lemma
  about which entries `get_custom_libraries` sees, because the tokens of a file that are
  followed by leftovers are read on. `ReadyInv`
  says that a loaded library is ready or about to be, if it exports the init function that
  is asked for, and `EnterInv` which functions a call may find missing. `OpenInv` says that a
  complete library is open exactly as often as places hold it. The next library of a
  shutdown is the least one left: here, as in `OpenFiles`, the least
  element of a set of numbers takes the place of an induction.
* *Notifications.* `IInv` relates the tree, the rules, the callback and the call in
  progress: what is in the tree is registered or about to be, one rule per resource,
  one callback for all.
* *Registration.* A caller waits for a condition variable that it shares with every
  other registration, so the first part of `RegInv` (`Handshake`) is about the channel: until
  two calls overlap (`crossed`) one thread at a time is in a registration (`OneAtATime`), and
  the command, the pending call and the condition are exactly what its program counter says
  (`Channel`). Once a message could not be sent (`unsent`), its caller is the only one and
  stays where it is (`Stuck`). `FlagTellsTheTruth` is about the states in which no signal is
  on its way, and steps from states in which there are some lead there. The second part
  (`Truth`) therefore says of every answer under way, and of `gPasRegistered`, that it is true
  of the service as it is now or that a signal which corrects it is still to be handled
  (`Fits`, `Settled`), and that the signals alternate and the last one is the news
  (`SignalsTell`). It holds until a signal is handled in the middle of a call (`overtaken`): then
  the answer may be older than the signal. An error answer (`lapsed`) takes back what is said
  of answers and flag, not the rest. That each exception is needed is in section 6.
* *Poll array.* `Sound(P, T)` says of any array that place 0 is the pipe's, that every
  other place is a watch's or the only one of a timeout in `T`, and that no timeout is
  missing; `Serves(P, w)` that a watch is polled for what it waits for. Each callback is
  shown to keep both as a function on arrays, for any array and any timeouts: the
  removal shifts the entries above the removed one, which is a bijection between the
  places before and after. `ArrayInv` adds the count: the pipe, one place for each watch
  that took one (`grown`) and one for each pending timeout. The count is what excludes a
  place that nobody owns.

**Only model-checked.** Of the safety properties only those of `RbTree`, with its
refinement of `ItemSet`: these need recursion over trees, and the induction theorems of
the library, which take a predicate as a parameter, cannot be used here. Liveness under
fairness is out of the prover's reach (`EveryCallReturns`, `EveryRegistrationReturns`,
`TimeoutIsHandled`, `ShutdownWritesBack`, `NsmIsAnswered`, `ChangeIsNotified`). Where an
induction runs over numbers, the least counterexample takes its place
(`OpenFilesProofs`, `CustomLoaderProofs`, `NotificationProofs`).

## 6. Disagreements between code and documentation

Shown by a run and listed in `PROJECT.json`:

* `lifecycle_cancel`: `PCL_SHUTDOWN_CANCEL` unlocks at once while the shutdown it
  cancels is still in the pipe, so access ends up locked.

Each of the following has a configuration of its own beside the runs, with which TLC
finds the property violated (`tlc -config X.cfg M`, M being the part before the `_`):

| configuration | violated | what happens |
|---|---|---|
| `Lifecycle_writeback` | `WrittenBackWhenLocked` | a writer that passed the gate writes after the write-back |
| `MCKeyValue_policies` | `OwnDatabase` | the array index has no policy in it, but the directory of the default databases has; cached and write-through keys share the first one opened |
| `MCNotification_groups` | `RegisteredIsNotified` | the hashed key lacks the group, so unregistering a resource of one group silences its namesake in another |
| `RbTree_size` | `SizeDocumented` | `size` is counted up and down whether or not an item was inserted or erased, and the last unregistration is told by it |
| `MCCustomLoader_stale` | `NothingIsLeft` | the token array keeps the entries of an earlier, longer file |
| `MCCustomLoader_removed` | `LoadedIsConfigured` | loading on demand looks at `libname`, which survives the removal of the library from the file |
| `MCCustomLoader_first` | `InitIsFirst` | when `plugin_init` cannot be resolved the functions resolved before it stay, and the next call uses them |
| `MCCustomLoader_last` | `DeinitIsLast` | a shutdown deinitialises a library that a call is about to use |
| `MCCustomLoader_masked` | `ErrorIsReturned` | the result of each library overwrites that of the one before |
| `MCCustomLoader_on` | `LoadingTypeUnderstood` | the code compares with "od", the description says "on" |
| `MCPasRegister_lost` | `HoldsWhenCrossed` | the condition is reset by the caller that wakes first, outside the mutex: of two overlapping registrations one waits for ever |
| `MCPasRegister_unsent` | `HoldsWhenUnsent` | `process_send_pas_register` tells nobody that it has sent nothing, and the caller waits for ever |
| `MCPasRegister_stale` | `HoldsWhenOvertaken` | the flag is stored after the loop has handled that the service has gone |
| `PollInfo_stale` | `OnlyExpiredIsRead` | `revents` is not cleared: a timeout added in the round in which another was handled is read at once, and the loop blocks in `read()` until the new call has timed out too |

The properties of the runs name these cases as exceptions, so that they hold of the code as
it is. Further cases met while modelling, each an exception that a property names or, for
`Notification`, a constant:

* `HandlePool`: a full shutdown announced by the NSM resets the pool and leaves the
  trees, after which a handle may name another key; `pclFileReleasePath` accepts any
  handle while no path tree exists (both set `disturbed`). Afterwards an index can be
  freed twice; enough duplicates fill the free array, whereupon it is neither drawn from
  nor handed back to, and indices that are closed are lost (`dropped`; a pool of six
  slots is the smallest in which TLC shows an index lost after one shutdown).
* `MainLoop`: a `_NM` command leaves `gMainLoopCondValue` set (`EarlyReturnIsStale` is
  the exact statement); a call that overlaps the last `pclDeinitLibrary` waits for
  ever, with all that come after it (`Stranded`); the loop writes the requests of NSM and PAS
  to the pipe that only it reads, and blocks for good when it is full (`stuck`).
* `Lifecycle`: the counter counts shutdowns, not cancels, so cancels without a
  shutdown are unlimited; locking a locked gate opens it between its two halves, after the
  last permitted cancel too; a cancel unlocks after its check, although the last shutdown may
  have come between; a
  fast shutdown of the NSM is answered "pending" and dropped.
* `KeyValue`: an array index is also shared by a custom key of group `g` and a shared
  key of group `g + 1`; configurable defaults are stored without the ldbid; a table
  closed in the middle of a lookup makes a listed local key a cached one
  (`pcl_prct_access.c:211`), so that a write-through key reads older cached data, and a read
  error is answered with defaults (both in the disturbed scenarios); `pclKeyGetSize` ignores the gate.
* `Notification`: registering twice frees the item in the tree and adds a second rule
  (`Again`); the callback may be cleared between check and call; it survives
  `pclDeinitLibrary`; the two APIs can install different callbacks.
* `FileBackup`: in the three windows of `LossOnlyInWindows` an intact file may be deleted. A
  recovery whose copy fails hands out a truncated original, and a `remove()` that fails leaves
  a backup and checksum that roll the next session's open back; both are only logged.
* `OpenFiles`: the iteration of a full shutdown reads the item it has just freed; what is
  written to that memory in between, by an open or anybody else, may end it early
  (`raced`); a second open of a written file rolls it back, and the close of one session removes the backup of the other
  (`shared`); an open that fails is entered under -1 all the same; a full shutdown
  closes descriptors the application goes on using (`stale`).
* `CustomLoader`: a failing `pclInitLibrary` leaves libraries open (`leaked`); a name in the
  file that is not known, or what a longer file has left, is written behind the library
  array; a library with `get_size` and without `get_data` is called through a null pointer; a
  shutdown in the middle of a call unloads its library (`overlapped`).

## 7. Not modelled

* The blacklist parser: tokenising a file into a tree of names. `FileBackup` and
  `OpenFiles` take its answer as part of the resource.
* The application check (`USE_APPCHECK`): refuses a call before any state is touched.
* `pclFileSeek`, `pclFileMapData`, `pclFileUnmapData`, `pclFileReadData`,
  `pclFileGetSize`: no state that another operation depends on. The consistency check
  in `pclFileCreatePath`.
* The file cache build (`USE_FILECACHE`), value sizes and buffer limits, the content of
  change signals, failures of D-Bus when sending them, a lost connection.
* `crc32.c`: third-party code, taken as an injection on the contents of one file.
* Power loss (unsynced files) and several processes on one file.
* The tools and the tests.

## 8. Plan

1. `FileBackup`, `HandlePool`, `MainLoop`, `Lifecycle`, `KeyValue`, `Notification`, with
   runs, mutants and the proofs above. **Done.**
2. `OpenFiles`, `PollInfo`, `PasRegister`, `CustomLoader`, `RbTree`, and `ItemSet` as the
   abstract specification of the tree. **Done.**
3. Proofs of the invariants of `MainLoop`, `OpenFiles` and `CustomLoader`, of
   `LossOnlyInWindows`, `ReadsLatest` and `FallsBackToOwn`. **Done.**
4. Proofs of `ArrayIsSound` of `PollInfo` and of `RegistrationIsSound` of `PasRegister`;
   `AtomicFile` as the abstract specification of `FileBackup`, with a proof. **Done.**
5. Later: a disk that loses unsynced writes in `FileBackup`; the blacklist parser as a
   pure operator; a map with defaults as the abstract specification of `KeyValue`.

# TLA+ models of the saker.build native file watchers

The repository's native code is two JNI libraries that implement one
contract (spec.md): watch a directory, report created / modified / deleted
entries and an explicit *overflow* when the engine cannot tell what changed.

* `src/native/win32/watcher/dllmain.cpp` — the completion-port backend.
* `src/native/macos/watcher/main.cpp` — the FSEvents / run-loop backend.

This directory holds the TLA+ modules that model them, the TLC configurations
that check them, and `PROJECT.json`, which lists components, runs, mutants,
the definition-to-source map, findings and hazards.

## 1. Inventory

### 1.1 Windows backend (dllmain.cpp)

| Component | State it keeps | Operations |
|---|---|---|
| Completion port | FIFO of entries: I/O completions and synthetic `COMMAND_KEY_*` entries | `PostQueuedCompletionStatus` by callers and by the event thread, `GetQueuedCompletionStatusEx` by the event thread |
| Event thread (`runThread`, `handleCompletionEntries`) | `addedWatches`, `toDeleteWatches`, `pollEventNotifies`, `overlappedEntries` (its size bounds a batch) | dequeue a batch, handle its entries **last to first**; ADD, REMOVE, DELETE, POLL, POLL_DONE, EXIT, I/O completion; fault path when the dequeue fails |
| Watch (`DirectoryWatch`) | file handle, buffer, `OVERLAPPED`, `pollEvent` (auto-reset), `anyErrorCode`, key global ref | `readDirectoryChanges` (arm, with the ERROR_NOTIFY_ENUM_DIR overflow-and-retry), `closeHandles` |
| Registration protocol (`addKey`, `poll`, `removeKey`) | the caller's stack `AddFileCallbackParam`; the service-wide auto-reset `addFileEvent` | post a command, block on an event |
| Completion decoding (`handleNotifyInformations`) | none | one notify per `FILE_NOTIFY_INFORMATION` record; zero bytes = overflow, or a leftover of a cancelled read when the watch is no longer added; then re-arm |
| Lifecycle (`OpenWatcher_native`, `~WatcherService`) | port, thread handle | open without waiting for the thread; close posts EXIT, joins, deletes all watches |

### 1.2 macOS backend (main.cpp)

| Component | State it keeps | Operations |
|---|---|---|
| Run-loop thread (`watcherThreadRunnable`, `runThread`) | `ThreadLocalData`: `exit` (plain bool), `threadRunLoop`, `threadAlive`, semaphores `keyerSemaphore` (counting, 0) and `accessSemaphore` (mutex) | attach, publish run loop, loop over `CFRunLoopRunInMode` (Finished → wait on keyer, Stopped → leave, TimedOut → continue), clear `threadRunLoop` under the mutex |
| Registration (`addKey`, `removeKey`, `poll`, `isValidKey`) | `blockFinishSemaphore` | add: under the mutex, perform a block on the run loop that creates, schedules and starts the stream, wake the loop, signal keyer, wait for the block. remove: read run loop under the mutex, then stop / unschedule / invalidate / release **on the caller thread** and delete the key. poll: `FSEventStreamFlushSync`. valid: always true |
| Translator (`eventCallbackFunction`) | none (per event: path, flags) | prefix check with `memcmp`, separator check, root special case, flag priority create > modify > delete, otherwise overflow |
| Lifecycle (`OpenWatcher_native`, `~WatcherService`) | | open waits for the thread to attach; close sets `exit`, signals keyer, stops the run loop under the mutex, joins |

### 1.3 How they interact and what is hard

Callers reach the event thread only through the port (Windows) or
`CFRunLoopPerformBlock` (macOS) and block on an event or semaphore; the
event thread calls back into Java (`notifyEvent`) inline. The hard parts:

* **Ordering** — Windows handles each batch in reverse; a REMOVE can be
  handled before a data completion queued ahead of it, and a DELETE before
  the aborted completion of the read its REMOVE cancelled.
* **Shared one-shot gates** — one auto-reset `addFileEvent` for all callers
  of `addKey`; one `pollEvent` per watch shared by `poll` and `removeKey`.
* **Stale state** — the caller reads its `param.err` after any SetEvent;
  macOS `removeKey` uses the run loop it read under the mutex after
  releasing it.
* **Cross-thread teardown** — macOS removes streams from the caller thread
  while the run-loop thread may be in the callback.
* **Shutdown** — EXIT deferred to the end of a batch; close racing an add.
* **Numeric edges** — `memcmp` counts bytes, paths are 2-byte UniChars.

### 1.4 What makes each component correct

* Registration: `addKey` reports the outcome of its own ADD; the read is
  armed before the key is returned (no lost change); no caller blocks
  forever.
* Unregistration: no notify for a key after `CloseKey_native` returned (its
  global reference is deleted then); no entry in the port refers to a freed
  watch.
* Poll: when it returns, every change the kernel had queued before the call
  has been delivered.
* Delivery: every change under a live, valid watch is eventually reported,
  as itself or through an overflow.
* Translator: an event is attributed to the key exactly when its path lies
  under the key's path, with the relative path the spec prescribes.
* Validity: once invalid, a key stays invalid, and an overflow precedes it.

## 2. Plan

In order of importance (all steps are done as far as the code allows; what
is left open is said at the step and in section 5):

1. `WinWatcher` — Windows event thread, port, registration protocol and the
   kernel as environment. **Done.**
2. `MacEventTranslate` — the macOS translator as operators, checked against
   the spec's rule over all short paths. **Done.**
3. `WinWatcher` extended with close (EXIT, deferred exit, destructor),
   the dequeue-failure fault path (all watches to error plus overflow) and
   keys shared between caller threads (two polls of one key). **Done**:
   close, the dequeue failure both during close and as a spontaneous
   RuntimeFault on an open port (`DequeueMayFail`, in `win_safety`), and
   the ignored result of `CreateIoCompletionPort` in `addKey`
   (`AssociationMayFail`, `win_lost_association`), and the failure of the
   caller-side `PostQueuedCompletionStatus` (`PostMayFail`): `addKey`
   deletes its watch, `poll` returns FALSE, `removeKey` returns without
   waiting (`win_remove_post_fails`). Shared keys are left out (section 5).
4. `MacWatcher` — the run-loop thread, the semaphores, `addKey` via a
   performed block, `removeKey` from the caller thread against the callback
   loop (one action per event of a batch, so removal interleaves), close.
   **Done**, with a callback abstracted to its number of events, and with
   the test of `exit` and the start of a run as separate steps, so that a
   `CFRunLoopStop` falling between them is lost; close then waits for the
   run's 10000 s timeout, which a model without a clock cannot flag.
   The translation of each event is `MacEventTranslate`; it is a pure
   function of the key's path and the event, so composing the two modules
   would check nothing that the two do not check apart (section 5).
5. `WatchHandles` — the abstract contract of spec §3–4 for handles and the
   engine's life. `WinWatcher` and `MacWatcher` are shown to implement it
   through `INSTANCE WatchHandles WITH` refinement mappings in `win_safety`
   and `mac_engine`. **Done**, including the RuntimeFault of spec §7 at any time after
   open. Notifications are left out of the contract: the
   unregister fence is broken by both engines (`win_notify_after_close`,
   `mac_remove_during_callback`) and the poll barrier is `PollBarrier`.

Bounds (macOS): two callers and two keys are the least for two adders to
share blockFinishSemaphore and for a callback of one key to interleave
with the other's removal; one change per key suffices, since a change of
one key can arrive during the callback of the other (two changes per key
put the temporal check past eight minutes).

Bounds (Windows): two caller threads and two watches are the least that show
concurrent registration and batches of more than one entry; `BufCap = 1`
and two changes per watch make the buffer overflow while a read is pending;
the overflow before a re-arm (ENUM_DIR) needs a third change, which
`win_liveness` adds on a single watch and a single caller (with one watch a
second caller never gets a key) to stay within the time budget.
With `DequeueMayFail` nothing consumes the port after the fault, and a poll
of a watch in error posts an entry and returns at once, so the queue grows
without end; `win_safety` cuts it off with the state constraint
`OrphanBound` (at most `MaxOrphaned` = 2 entries once the thread exited),
which leaves every state before the fault and two calls after it.

## 3. Modules

### WinWatcher.tla (dllmain.cpp)

Variables follow the code: `port` and `batch` (the entries of the last
`GetQueuedCompletionStatusEx`, handled from the end), `addedWatches`,
`toDeleteWatches`, `pollEventNotifies`, `addFileEvent`; per watch `alloc`
(free / live / freed memory), `closed` (`closeHandles` ran), `armed`,
`anyError`, `pollEvt`; per caller `pc`, `target`, `paramErr` (the stack
param), `mark` (poll barrier), plus `owner` and `keyClosed` (the Java key).
`made`, `accounted`, `notified`, `overflowed` are history variables.
Close adds `exitReq` (the local `exit` of `handleCompletionEntries`),
`tstate` (event thread running / exited), `portOpen` and `spc` (the
closing thread: open, waiting in the join, closed). `assoc` records whether
`CreateIoCompletionPort` associated the directory handle with the port;
`PostCompletion` delivers a read's completion to the port only then.

Actions: callers `AddKey`, `AddReturn`, `Poll`, `PollReturn`, `RemoveKey`,
`RemoveReturn`; event thread `Dequeue` and `HandleEntry`, which dispatches
to `HandleAdd`, `HandlePoll`, `HandlePollDone`, `HandleRemove`,
`HandleDelete`, `HandleIo`, `HandleExit`; `ExitThread` (the deferred exit
at the end of a batch: `executeExitThread` sets every awaited pollEvent) and
`DequeueFails` (the dequeue fails on the closed port: every added watch is
put in error, closed and given an overflow, then the thread exits); closing
thread `CloseBegin` (post EXIT, or with `PostMayFail` on a failed post close the port) and
`CloseJoin` (after the join: close the port, set addFileEvent, delete the
remaining watches); kernel `FsChange`, `OsComplete`, `RootDeleted`
(environment: after the first read the directory handle buffers changes,
completes a pending read with them, with zero bytes on overflow or when the
directory is deleted; an arm fails on a closed handle or deleted directory).
Data abstraction: a completion carries the number of changes it covers.

Assumptions: `CancelIoEx` queues the aborted completion before it returns
(the most favourable order for the code); `AddsSerialized` (TRUE in the
passing runs) says the Java side never runs two `addKey` at once — nothing
in the native code ensures it, and `win_concurrent_add` drops it.
A key is used only by the thread it was returned to.
Faults of the OS, each a constant that is FALSE unless a run says
otherwise: `AssociationMayFail` (the association in `addKey` fails; the
code goes on, since it tests `port` and not the result) and
`DequeueMayFail` (`GetQueuedCompletionStatusEx` fails while the port is
open, which takes the thread's RuntimeFault path) and `PostMayFail`
(`PostQueuedCompletionStatus` fails for lack of resources: `addKey`
deletes its watch and returns nullptr (`AddKeyPostFails`), `removeKey`
returns at once and `CloseKey_native` deletes the global reference with
the watch still added (`RemoveKeyPostFails`), close closes the port
instead of posting EXIT; a failed `poll` returns FALSE and changes
nothing, a stuttering step). `win_safety` assumes every post succeeds:
with `PostMayFail` its refinement fails (`win_remove_post_fails`), and
`PollBarrier` speaks of the polls that blocked. `win_liveness` lets every
post fail.
`CallsBeforeClose` (TRUE except in `win_liveness`) says close starts with no
call in progress; with it FALSE calls in flight overlap close. No call
starts after close began. A poll or removeKey blocked on a
pollEvent returns when it is signalled or when `closeHandles` sets and
closes it (`PollReturn` and `RemoveReturn` accept a closed handle). After the port is closed no completion reaches the service.

Fairness: weak fairness of `Dequeue` and `HandleEntry` (the thread blocks
in `GetQueuedCompletionStatusEx` with INFINITE and runs whenever entries
exist), of `OsComplete` (the kernel completes a pending read that has
changes) and of the caller return actions (a thread whose event is
signalled is scheduled), of `ExitThread`, `DequeueFails` and `CloseJoin`
(the thread runs its exit path, the closing thread resumes when the
joined thread exited). Callers, close and file changes are not forced.

### MacWatcher.tla (main.cpp:64-447)

Variables follow `ThreadLocalData` and `WatcherService`: `exit`, `keyer`
(keyerSemaphore count), `access` (the caller holding accessSemaphore across
its wait; the other users take and release it within one step), `runLoop`
(threadRunLoop not NULL), `alive`, `blockFinish`; the thread's place `tpc`
and `stopReq` (CFRunLoopStop reached the run in progress); `blocks`, the
blocks performed on the run loop; per key `kst` (none, new, started,
stopped, deleted), `sched`, `pending` (events FSEvents holds), `owner` and
`keyClosed`; per caller `pc`, `target`, `rl` (the run loop removeKey read)
and `mark`; the closing thread's `cpc`; history `made` and `delivered`.

Actions: opener `OpenFails` (pthread_create fails), thread `ThreadAttach`, `LoopTest` (head of the while loop: the test of
`exit`), `RunEnter` (`CFRunLoopRunInMode` begins a run with a clear stop
flag; on an empty mode it returns Finished at once), `PerformBlock`,
`BeginCallback`, `CallbackEvent` (one event of the callback loop),
`CallbackReturn`, `RunStopped`, `RunFinished`, `RunTimedOut`, `KeyerWake`,
`ThreadExit`; opener `OpenReturn`; callers `AddKey` (lock, read run loop,
NULL → return nullptr, otherwise perform block, wake, signal keyer),
`AddReturn`, `RemoveKey`, `RemoveStop`, `RemoveRelease`, `Poll`,
`PollReturn`; close `CloseBegin` (exit, keyer signal), `CloseStop`,
`CloseJoin`; file system `FsChange`.

CoreFoundation semantics used (not code of this repository): a run returns
Finished when the mode has no scheduled source and no pending block;
CFRunLoopStop sets the stop flag only of a run in progress (it is per run);
a run may time out. FSEventStreamStop ends the delivery of new callbacks
but does not wait for one in progress. `FSEventStreamFlushSync` returns once
the callback ran for every event that occurred before the call.

Assumptions: `CallsBeforeClose` (TRUE in `mac_engine`) says the Java side
starts no call once close began and closes only with no call in progress;
`mac_close_during_add` drops it, and then close deadlocks with a blocked
`addKey`. `exit` is a plain bool in
the code; it is modelled as an atomic flag. A key is used by the thread
it was returned to.

Fairness: weak fairness of every thread step that stays enabled until
taken; strong fairness of `PerformBlock`, `BeginCallback(k)` (a run may time
out between two of them, so they are only intermittently enabled, but a run
lasts 10000 s and serves ready sources and blocks) and of the steps that
wait for accessSemaphore (`ThreadExit`, `CloseStop`), which adders hold
intermittently; weak fairness of `RunTimedOut`, since a run that is neither
stopped nor finished ends after 10000 s. Callers, close and file changes
are not forced.

### WatchHandles.tla (spec.md §3–4) and the refinements

The abstract contract. Per handle: `handle` (none, pending while register
blocks, registered, unregistering while unregister blocks, unregistered,
failed), `outcome` (what the event-loop thread decided for a pending
register), `active` (in the thread's registry), `valid`; for the engine:
`engine` (starting, open, closing, closed) and `serving` (the thread runs).
Its steps say: register returns the outcome the thread decided (a
register the thread never decided fails only once the engine is closed);
only the serving thread decides and enters the registry; unregister returns
only after the handle left the registry; validity is lost for good; close
stops the thread, which empties the registry, before it returns; a
RuntimeFault stops the thread at any time after open and invalidates every
handle in the registry (spec §7); open fails (StartupError) only if the
thread did not come up.

`WinWatcher!Contract` maps a watch to pending / registered / unregistering /
unregistered / failed from the callers' `pc`, `owner`, `keyClosed` and
`alloc`, the outcome to the blocked adder's `param.err`, the registry to
`addedWatches` while the thread runs, validity to `KeyIsValid`
(anyErrorCode), the engine to the closing thread. `MacWatcher!Contract`
maps the outcome to the stream being started by the performed block, the
registry to the started streams while the thread serves, validity to
`isValidKey` (constant TRUE), the engine to `open` and the closing thread.
`RefinesWatchHandles` (the contract's `Spec`) is checked in `win_safety`
and `mac_engine`; with `PostMayFail` the Windows engine breaks it
(`win_remove_post_fails`). The contract's `RegisterRefused` is a register
that fails on the calling thread, the failed post of `addKey`.

### MacEventTranslate.tla (main.cpp:64-178)

`Translate(key, ev, fl)` is one iteration of `eventCallbackFunction`; paths
are sequences of UniChar values so `memcmp` can be evaluated byte-wise
(`MemcmpEqual`, little-endian). `SpecTranslate` is the reference from
spec §4.4. The inputs range over all canonical absolute paths of up to
four units over `/`, `a`, `b`.

## 4. Runs

| Run | Config | Expect | Shows |
|---|---|---|---|
| win_safety | MCWinSafety.cfg | pass | `PollBarrier`, `NoLeakAfterClose` and `RefinesWatchHandles`, 2 callers × 2 watches, up to 2 changes per watch (symmetry over callers and watches), every post succeeding; a spontaneous GetQueuedCompletionStatusEx failure (RuntimeFault) may happen at any point, with the port cut off by `OrphanBound` |
| win_liveness | MCWinLiveness.cfg | pass | `EventuallyReported`, `CallerReturns` and `CloseReturns` with 1 caller, 1 watch and 3 changes, close allowed while calls are in flight, every post allowed to fail: the kernel buffer overflows both while a read is pending and before a re-arm (ERROR_NOTIFY_ENUM_DIR), close goes via EXIT or via the dequeue failure on the closed port |
| win_notify_after_close | MCWinNotifyAfterClose.cfg | violation | a data completion queued before REMOVE is handled after removeKey returned |
| win_delete_before_abort | MCWinDanglingDelete.cfg | violation | with two watches a batch holds the aborted completion and DELETE; reversed, DELETE frees the watch first |
| win_concurrent_add | MCWinConcurrentAdd.cfg | violation | a second addKey is woken by the first one's SetEvent and returns before its own ADD ran |
| win_invalid_without_overflow | MCWinInvalidNoOverflow.cfg | violation | the root is deleted while a data completion is queued; the re-arm after it fails and the watch goes invalid with no overflow |
| win_lost_association | MCWinLostAssociation.cfg | violation | `EventuallyReported` with `AssociationMayFail`: addKey succeeds although the handle is not associated with the port; no change and not even the deletion of the root is ever reported, and the key stays valid |
| win_remove_post_fails | MCWinRemovePostFails.cfg | violation | `RefinesWatchHandles` with `PostMayFail`: removeKey's post fails, it returns at once and the key is unregistered while its watch is still added and armed |
| mac_engine | MCMacEngine.cfg | pass | type invariant, `AddReturnsStarted`, `RefinesWatchHandles`, `CallerReturns`, `CloseReturns`, `EventuallyReported`, 2 callers × 2 keys, 1 change per key, no call overlaps close |
| mac_close_during_add | MCMacCloseDuringAdd.cfg | violation | addKey waits for a block the exiting thread never runs, the thread waits for the semaphore addKey holds, close waits too |
| mac_remove_during_callback | MCMacRemoveDuringCallback.cfg | violation | removeKey deletes the WatchKey while the run-loop thread is in its callback |
| mac_translate | MacEventTranslate.cfg | violation | `/b` is reported as a creation of the watched `/a` itself |

`win_liveness` uses one watch: with two watches and two changes each,
temporal checking of close overlapping calls exceeds the time budget. The
two-watch interleavings (batches of several entries, a DELETE beside an
aborted completion) are the safety run's. `mac_engine` checks safety and
liveness in one run with one change per key: with two changes per key the
temporal check takes over eight minutes.

## 5. Not modelled

* Windows: keys shared between caller threads. Two polls of one watch
  would deadlock (the second POLL_DONE finds the pollEvent already erased
  from `pollEventNotifies`, dllmain.cpp:169), but whether the Java side
  ever polls or removes one key from two threads is decided outside
  `src/`, and the spec only says that callers may call concurrently; the
  model lets only the thread that received a key use it.
* Windows: liveness after a spontaneous RuntimeFault. Once the thread has
  exited nobody dequeues, so a later `addKey` blocks until close; the spec
  calls the engine unusable until it is closed, so `CallerReturns` is
  checked without that fault.
* Windows: the failure branches of `OpenWatcher_native` (they return
  before any state is shared); `runPolling`, whose only call is commented
  out.
* macOS: the failures of `OpenWatcher_native` before `pthread_create`
  (they return before a service exists). `removeKey` racing close is
  only reached in `mac_close_during_add`, and CoreFoundation does not say whether a thread's run
  loop outlives the thread, so what `FSEventStreamUnscheduleFromRunLoop`
  on it does (main.cpp:316) is not stated by any property. `isValidKey`
  returns true and has no state; the spec's demand that a deleted root
  invalidate the key has nothing in the code to check.
* macOS: the composition of `MacWatcher` with `MacEventTranslate`. The
  callback's translation is a pure function of the key's path and one
  event; `MacWatcher` decides which callbacks run and when, and the
  translator what each event becomes, so a composed module would check
  the product of two things already checked apart. Path lengths beyond
  the 16K `UniChar` stack buffer (main.cpp:77) depend on the longest path
  FSEvents reports, which nothing here states.
* Windows: `PollKey_native` discards the FALSE of a failed `poll`. The
  failure changes no state, and what the Java caller does with a `poll`
  that returned is decided outside `src/`.
* macOS: the time close waits. A `CFRunLoopStop` lost between the test of
  `exit` and the next run leaves close waiting for that run's 10000 s
  timeout; `CloseReturns` holds, and the model has no clock to bound the
  wait.
* `DllMain`, `getImplementationClassName_native`: no state.
* String conversion of reported paths (JNI `NewString`): formatting only.

------------------------------ MODULE MacWatcher ------------------------------
(***************************************************************************)
(* The FSEvents watch engine of src/native/macos/watcher/main.cpp.         *)
(*                                                                         *)
(* One run-loop thread (watcherThreadRunnable, runThread) runs             *)
(* CFRunLoopRunInMode in a loop; FSEvents streams scheduled on its run     *)
(* loop deliver their callbacks there.  Caller threads add a key by        *)
(* performing a block on that run loop under accessSemaphore and waiting   *)
(* on the service-wide blockFinishSemaphore; they remove a key by stopping *)
(* and invalidating its stream on their own thread; they poll with         *)
(* FSEventStreamFlushSync.  Close (~WatcherService) sets exit, signals     *)
(* keyerSemaphore, stops the run loop under accessSemaphore and joins.     *)
(*                                                                         *)
(* Run-loop semantics taken from CoreFoundation: a run returns Finished    *)
(* when the mode has neither a scheduled source nor a pending block;       *)
(* CFRunLoopStop only affects a run in progress; a run may time out.       *)
(* Data abstraction: a callback carries the number of events it covers;    *)
(* their translation is MacEventTranslate.                                 *)
(***************************************************************************)
EXTENDS Naturals, Sequences, FiniteSets

CONSTANTS
    Callers,            \* caller (Java) threads
    Keys,               \* WatchKey objects addKey may allocate
    NoCaller,           \* model value: nobody (a free semaphore, no owner)
    NoKey,              \* model value: no key
    MaxChanges,         \* bound: file system changes per key
    CallsBeforeClose    \* TRUE: no caller call overlaps CloseWatcher_native

ASSUME /\ MaxChanges \in Nat
       /\ CallsBeforeClose \in BOOLEAN
       /\ NoCaller \notin Callers
       /\ NoKey \notin Keys

VARIABLES
    open,         \* OpenWatcher_native: "starting", "ok", "failed"
    tpc,          \* run-loop thread: "attach", "loop", "enter", "run", "cb", "keyer", "after", "done"
    exit,         \* ThreadLocalData::exit
    keyer,        \* ThreadLocalData::keyerSemaphore count
    access,       \* holder of ThreadLocalData::accessSemaphore across a wait
    runLoop,      \* ThreadLocalData::threadRunLoop # NULL
    alive,        \* ThreadLocalData::threadAlive
    stopReq,      \* CFRunLoopStop hit the run in progress
    blocks,       \* blocks performed on the run loop, not yet run (their keys)
    blockFinish,  \* WatcherService::blockFinishSemaphore count
    cb,           \* key whose eventCallbackFunction is running
    cbLeft,       \* events of that callback not yet handled
    cpc,          \* closing thread: "idle", "stop", "join", "done"
    kst,          \* WatchKey: "none", "new", "started", "stopped", "deleted"
    sched,        \* its stream is scheduled on the run loop
    pending,      \* events FSEvents holds for its stream, not yet delivered
    owner,        \* caller that addKey returned the key to
    keyClosed,    \* CloseKey_native returned: global ref deleted
    pc,           \* caller: "idle", "add", "rmStop", "rmRelease", "poll"
    target,       \* caller: key of the blocking call
    rl,           \* caller: runloop # NULL as removeKey read it
    mark,         \* caller: changes made when poll was called
    made,         \* history: changes made under a registered key
    delivered     \* history: events handed to the callback of the key

threadVars == <<tpc, exit, keyer, runLoop, alive, stopReq, cb, cbLeft>>
keyVars == <<kst, sched, pending, owner, keyClosed>>
callerVars == <<pc, target, rl, mark>>
vars == <<open, threadVars, access, blocks, blockFinish, cpc, keyVars,
          callerVars, made, delivered>>

(* new WatchKey: copies the path (MacEventTranslate) and has no stream    *)
(* yet.                                                                     *)
NewWatchKey(k) == kst' = [kst EXCEPT ![k] = "new"]

(* delete of a WatchKey: its path copy is freed; a callback that still    *)
(* holds the pointer reads freed memory.                                   *)
DeleteWatchKey(k) == kst' = [kst EXCEPT ![k] = "deleted"]

(* The mode is empty: no scheduled stream and no pending block.            *)
ModeEmpty == blocks = <<>> /\ \A k \in Keys : ~sched[k]

Init ==
    /\ open = "starting"
    /\ tpc = "attach"
    /\ exit = FALSE
    /\ keyer = 0
    /\ access = NoCaller
    /\ runLoop = FALSE
    /\ alive = FALSE
    /\ stopReq = FALSE
    /\ blocks = <<>>
    /\ blockFinish = 0
    /\ cb = NoKey
    /\ cbLeft = 0
    /\ cpc = "idle"
    /\ kst = [k \in Keys |-> "none"]
    /\ sched = [k \in Keys |-> FALSE]
    /\ pending = [k \in Keys |-> 0]
    /\ owner = [k \in Keys |-> NoCaller]
    /\ keyClosed = [k \in Keys |-> FALSE]
    /\ pc = [c \in Callers |-> "idle"]
    /\ target = [c \in Callers |-> NoKey]
    /\ rl = [c \in Callers |-> FALSE]
    /\ mark = [c \in Callers |-> 0]
    /\ made = [k \in Keys |-> 0]
    /\ delivered = [k \in Keys |-> 0]

-----------------------------------------------------------------------------
(* The run-loop thread.                                                    *)

(* watcherThreadRunnable: attach to the JVM; on failure signal the opener *)
(* and return, otherwise publish the run loop and threadAlive, then       *)
(* signal the opener, who is waiting in OpenWatcher_native.               *)
ThreadAttach ==
    /\ tpc = "attach"
    /\ \/ /\ tpc' = "done"
          /\ UNCHANGED <<runLoop, alive>>
       \/ /\ tpc' = "loop"
          /\ runLoop' = TRUE
          /\ alive' = TRUE
    /\ UNCHANGED <<open, exit, keyer, stopReq, cb, cbLeft, access, blocks,
                   blockFinish, cpc, keyVars, callerVars, made, delivered>>

(* pthread_create fails: OpenWatcher_native deletes the service and       *)
(* returns 0; no thread ever runs.                                          *)
OpenFails ==
    /\ open = "starting"
    /\ tpc = "attach"
    /\ open' = "failed"
    /\ tpc' = "done"
    /\ UNCHANGED <<exit, keyer, runLoop, alive, stopReq, cb, cbLeft, access,
                   blocks, blockFinish, cpc, keyVars, callerVars, made, delivered>>

(* OpenWatcher_native returns when the initializer semaphore is signalled: *)
(* the service if the thread attached, 0 (and the service deleted) if not. *)
OpenReturn ==
    /\ open = "starting"
    /\ tpc # "attach"
    /\ open' = IF alive THEN "ok" ELSE "failed"
    /\ UNCHANGED <<threadVars, access, blocks, blockFinish, cpc, keyVars,
                   callerVars, made, delivered>>

(* The head of the while loop of runThread: leave it if exit is set.      *)
LoopTest ==
    /\ tpc = "loop"
    /\ tpc' = IF exit THEN "after" ELSE "enter"
    /\ UNCHANGED <<open, exit, keyer, runLoop, alive, stopReq, cb, cbLeft,
                   access, blocks, blockFinish, cpc, keyVars, callerVars, made, delivered>>

(* CFRunLoopRunInMode begins a run, with its stop flag clear: a           *)
(* CFRunLoopStop that came after the test of exit and before this point   *)
(* is lost.  On an empty mode the run returns kCFRunLoopRunFinished at    *)
(* once and the thread waits on keyerSemaphore.                            *)
RunEnter ==
    /\ tpc = "enter"
    /\ tpc' = IF ModeEmpty THEN "keyer" ELSE "run"
    /\ stopReq' = FALSE
    /\ UNCHANGED <<open, exit, keyer, runLoop, alive, cb, cbLeft, access,
                   blocks, blockFinish, cpc, keyVars, callerVars, made, delivered>>

(* Mutant: the block schedules the stream but never starts it.           *)
PerformBlockNoStart ==
    LET k == Head(blocks) IN
    /\ tpc = "run"
    /\ blocks # <<>>
    /\ blocks' = Tail(blocks)
    /\ sched' = [sched EXCEPT ![k] = TRUE]
    /\ blockFinish' = blockFinish + 1
    /\ UNCHANGED <<open, threadVars, access, cpc, kst, pending, owner,
                   keyClosed, callerVars, made, delivered>>

(* The block addKey performed: create the stream for the key, schedule it *)
(* on the run loop, start it, signal blockFinishSemaphore.                 *)
PerformBlock ==
    LET k == Head(blocks) IN
    /\ tpc = "run"
    /\ blocks # <<>>
    /\ blocks' = Tail(blocks)
    /\ kst' = [kst EXCEPT ![k] = "started"]
    /\ sched' = [sched EXCEPT ![k] = TRUE]
    /\ blockFinish' = blockFinish + 1
    /\ UNCHANGED <<open, threadVars, access, cpc, pending, owner, keyClosed,
                   callerVars, made, delivered>>

(* FSEvents calls eventCallbackFunction for a started, scheduled stream   *)
(* with the events it holds.                                               *)
BeginCallback(k) ==
    /\ tpc = "run"
    /\ kst[k] = "started"
    /\ sched[k]
    /\ pending[k] > 0
    /\ tpc' = "cb"
    /\ cb' = k
    /\ cbLeft' = pending[k]
    /\ pending' = [pending EXCEPT ![k] = 0]
    /\ UNCHANGED <<open, exit, keyer, runLoop, alive, stopReq, access, blocks,
                   blockFinish, cpc, kst, sched, owner, keyClosed, callerVars,
                   made, delivered>>

(* Mutant: the event loop does not advance to the next event.            *)
CallbackEventNoAdvance ==
    /\ tpc = "cb"
    /\ cbLeft > 0
    /\ delivered' = [delivered EXCEPT ![cb] = @ + 1]
    /\ UNCHANGED <<open, tpc, exit, keyer, runLoop, alive, stopReq, cb, cbLeft,
                   access, blocks, blockFinish, cpc, keyVars, callerVars, made>>

(* One iteration of the event loop of eventCallbackFunction: it reads the *)
(* key's path and keyObject and calls notifyEvent (MacEventTranslate).    *)
CallbackEvent ==
    /\ tpc = "cb"
    /\ cbLeft > 0
    /\ cbLeft' = cbLeft - 1
    /\ delivered' = [delivered EXCEPT ![cb] = @ + 1]
    /\ UNCHANGED <<open, tpc, exit, keyer, runLoop, alive, stopReq, cb, access,
                   blocks, blockFinish, cpc, keyVars, callerVars, made>>

CallbackReturn ==
    /\ tpc = "cb"
    /\ cbLeft = 0
    /\ tpc' = "run"
    /\ cb' = NoKey
    /\ UNCHANGED <<open, exit, keyer, runLoop, alive, stopReq, cbLeft, access,
                   blocks, blockFinish, cpc, keyVars, callerVars, made, delivered>>

(* CFRunLoopRunInMode returns: kCFRunLoopRunStopped leaves the loop;      *)
(* kCFRunLoopRunFinished (mode emptied, no stop) waits on keyerSemaphore; *)
(* kCFRunLoopRunTimedOut (10000 s) continues the loop.                    *)
RunStopped ==
    /\ tpc = "run"
    /\ stopReq
    /\ tpc' = "after"
    /\ UNCHANGED <<open, exit, keyer, runLoop, alive, stopReq, cb, cbLeft, access,
                   blocks, blockFinish, cpc, keyVars, callerVars, made, delivered>>

RunFinished ==
    /\ tpc = "run"
    /\ ~stopReq
    /\ ModeEmpty
    /\ tpc' = "keyer"
    /\ UNCHANGED <<open, exit, keyer, runLoop, alive, stopReq, cb, cbLeft, access,
                   blocks, blockFinish, cpc, keyVars, callerVars, made, delivered>>

RunTimedOut ==
    /\ tpc = "run"
    /\ tpc' = "loop"
    /\ UNCHANGED <<open, exit, keyer, runLoop, alive, stopReq, cb, cbLeft, access,
                   blocks, blockFinish, cpc, keyVars, callerVars, made, delivered>>

(* dispatch_semaphore_wait(keyerSemaphore) returns, back to the loop head. *)
KeyerWake ==
    /\ tpc = "keyer"
    /\ keyer > 0
    /\ keyer' = keyer - 1
    /\ tpc' = "loop"
    /\ UNCHANGED <<open, exit, runLoop, alive, stopReq, cb, cbLeft, access,
                   blocks, blockFinish, cpc, keyVars, callerVars, made, delivered>>

(* after_loop: detach, then clear threadRunLoop under accessSemaphore.     *)
ThreadExit ==
    /\ tpc = "after"
    /\ access = NoCaller
    /\ runLoop' = FALSE
    /\ tpc' = "done"
    /\ UNCHANGED <<open, exit, keyer, alive, stopReq, cb, cbLeft, access,
                   blocks, blockFinish, cpc, keyVars, callerVars, made, delivered>>

-----------------------------------------------------------------------------
(* Caller threads.  A caller acts only on a service that is open and not  *)
(* yet deleted; with CallsBeforeClose no call starts once close has begun. *)
CanCall == open = "ok" /\ cpc # "done" /\ (CallsBeforeClose => cpc = "idle")

(* Mutant: addKey does not hold accessSemaphore across its wait.          *)
AddKeyNoLock(c, k) ==
    /\ CanCall
    /\ pc[c] = "idle"
    /\ kst[k] = "none"
    /\ runLoop
    /\ kst' = [kst EXCEPT ![k] = "new"]
    /\ blocks' = Append(blocks, k)
    /\ keyer' = keyer + 1
    /\ pc' = [pc EXCEPT ![c] = "add"]
    /\ target' = [target EXCEPT ![c] = k]
    /\ UNCHANGED <<open, tpc, exit, runLoop, alive, stopReq, cb, cbLeft, access,
                   blockFinish, cpc, sched, pending, owner, keyClosed, rl,
                   mark, made, delivered>>

(* Mutant: addKey does not signal keyerSemaphore.                          *)
AddKeyNoKeyerSignal(c, k) ==
    /\ CanCall
    /\ pc[c] = "idle"
    /\ kst[k] = "none"
    /\ access = NoCaller
    /\ runLoop
    /\ access' = c
    /\ kst' = [kst EXCEPT ![k] = "new"]
    /\ blocks' = Append(blocks, k)
    /\ pc' = [pc EXCEPT ![c] = "add"]
    /\ target' = [target EXCEPT ![c] = k]
    /\ UNCHANGED <<open, tpc, exit, keyer, runLoop, alive, stopReq, cb, cbLeft,
                   blockFinish, cpc, sched, pending, owner, keyClosed, rl,
                   mark, made, delivered>>

(* addKey: take accessSemaphore and read threadRunLoop; if it is NULL     *)
(* release and return nullptr.  Otherwise create the WatchKey, perform    *)
(* the stream-creating block on the run loop, wake it, signal             *)
(* keyerSemaphore and wait on blockFinishSemaphore, still holding access. *)
AddKey(c, k) ==
    /\ CanCall
    /\ pc[c] = "idle"
    /\ kst[k] = "none"
    /\ access = NoCaller
    /\ IF runLoop
         THEN /\ access' = c
              /\ NewWatchKey(k)
              /\ blocks' = Append(blocks, k)
              /\ keyer' = keyer + 1
              /\ pc' = [pc EXCEPT ![c] = "add"]
              /\ target' = [target EXCEPT ![c] = k]
         ELSE UNCHANGED <<access, kst, blocks, keyer, pc, target>>
    /\ UNCHANGED <<open, tpc, exit, runLoop, alive, stopReq, cb, cbLeft,
                   blockFinish, cpc, sched, pending, owner, keyClosed, rl,
                   mark, made, delivered>>

(* The wait on blockFinishSemaphore returns: release accessSemaphore and  *)
(* return the key to the caller.                                           *)
AddReturn(c) ==
    /\ pc[c] = "add"
    /\ blockFinish > 0
    /\ blockFinish' = blockFinish - 1
    /\ access' = NoCaller
    /\ owner' = [owner EXCEPT ![target[c]] = c]
    /\ pc' = [pc EXCEPT ![c] = "idle"]
    /\ target' = [target EXCEPT ![c] = NoKey]
    /\ UNCHANGED <<open, threadVars, blocks, cpc, kst, sched, pending,
                   keyClosed, rl, mark, made, delivered>>

(* removeKey: read threadRunLoop under accessSemaphore and release it.    *)
RemoveKey(c, k) ==
    /\ CanCall
    /\ pc[c] = "idle"
    /\ owner[k] = c
    /\ ~keyClosed[k]
    /\ access = NoCaller
    /\ rl' = [rl EXCEPT ![c] = runLoop]
    /\ pc' = [pc EXCEPT ![c] = "rmStop"]
    /\ target' = [target EXCEPT ![c] = k]
    /\ UNCHANGED <<open, threadVars, access, blocks, blockFinish, cpc, keyVars,
                   mark, made, delivered>>

(* Mutant of RemoveStop: FSEventStreamStop is left out.                    *)
RemoveStopSkipped(c) ==
    /\ pc[c] = "rmStop"
    /\ pc' = [pc EXCEPT ![c] = "rmRelease"]
    /\ UNCHANGED <<open, threadVars, access, blocks, blockFinish, cpc, keyVars,
                   target, rl, mark, made, delivered>>

(* FSEventStreamStop on the caller thread: no further callback starts and *)
(* the events FSEvents held for the stream are dropped.                   *)
RemoveStop(c) ==
    LET k == target[c] IN
    /\ pc[c] = "rmStop"
    /\ kst' = [kst EXCEPT ![k] = "stopped"]
    /\ pending' = [pending EXCEPT ![k] = 0]
    /\ pc' = [pc EXCEPT ![c] = "rmRelease"]
    /\ UNCHANGED <<open, threadVars, access, blocks, blockFinish, cpc, sched,
                   owner, keyClosed, target, rl, mark, made, delivered>>

(* Unschedule from the run loop read earlier (if it was not NULL),        *)
(* invalidate and release the stream, delete the WatchKey; then           *)
(* CloseKey_native deletes the key's global reference and returns.        *)
RemoveRelease(c) ==
    LET k == target[c] IN
    /\ pc[c] = "rmRelease"
    /\ sched' = [sched EXCEPT ![k] = IF rl[c] THEN FALSE ELSE @]
    /\ DeleteWatchKey(k)
    /\ keyClosed' = [keyClosed EXCEPT ![k] = TRUE]
    /\ pc' = [pc EXCEPT ![c] = "idle"]
    /\ target' = [target EXCEPT ![c] = NoKey]
    /\ UNCHANGED <<open, threadVars, access, blocks, blockFinish, cpc, pending,
                   owner, rl, mark, made, delivered>>

(* poll: FSEventStreamFlushSync returns once the callback has been        *)
(* invoked for every event that had occurred when it was called.          *)
Poll(c, k) ==
    /\ CanCall
    /\ pc[c] = "idle"
    /\ owner[k] = c
    /\ ~keyClosed[k]
    /\ mark' = [mark EXCEPT ![c] = made[k]]
    /\ pc' = [pc EXCEPT ![c] = "poll"]
    /\ target' = [target EXCEPT ![c] = k]
    /\ UNCHANGED <<open, threadVars, access, blocks, blockFinish, cpc, keyVars,
                   rl, made, delivered>>

PollReturn(c) ==
    /\ pc[c] = "poll"
    /\ delivered[target[c]] >= mark[c]
    /\ pc' = [pc EXCEPT ![c] = "idle"]
    /\ target' = [target EXCEPT ![c] = NoKey]
    /\ UNCHANGED <<open, threadVars, access, blocks, blockFinish, cpc, keyVars,
                   rl, mark, made, delivered>>

-----------------------------------------------------------------------------
(* CloseWatcher_native: ~WatcherService.                                   *)

(* Mutant: close sets exit but does not signal keyerSemaphore.            *)
CloseBeginNoKeyerSignal ==
    /\ open = "ok"
    /\ cpc = "idle"
    /\ CallsBeforeClose => \A c \in Callers : pc[c] = "idle"
    /\ exit' = TRUE
    /\ cpc' = "stop"
    /\ UNCHANGED <<open, tpc, keyer, runLoop, alive, stopReq, cb, cbLeft, access,
                   blocks, blockFinish, keyVars, callerVars, made, delivered>>

(* Set exit and signal keyerSemaphore.                                     *)
CloseBegin ==
    /\ open = "ok"
    /\ cpc = "idle"
    /\ CallsBeforeClose => \A c \in Callers : pc[c] = "idle"
    /\ exit' = TRUE
    /\ keyer' = keyer + 1
    /\ cpc' = "stop"
    /\ UNCHANGED <<open, tpc, runLoop, alive, stopReq, cb, cbLeft, access,
                   blocks, blockFinish, keyVars, callerVars, made, delivered>>

(* Under accessSemaphore: CFRunLoopStop if threadRunLoop is not NULL; it  *)
(* stops only a run in progress.                                           *)
CloseStop ==
    /\ cpc = "stop"
    /\ access = NoCaller
    /\ stopReq' = (stopReq \/ (runLoop /\ tpc \in {"run", "cb"}))
    /\ cpc' = "join"
    /\ UNCHANGED <<open, tpc, exit, keyer, runLoop, alive, cb, cbLeft, access,
                   blocks, blockFinish, keyVars, callerVars, made, delivered>>

(* pthread_join if threadAlive.                                            *)
CloseJoin ==
    /\ cpc = "join"
    /\ alive => tpc = "done"
    /\ cpc' = "done"
    /\ UNCHANGED <<open, threadVars, access, blocks, blockFinish, keyVars,
                   callerVars, made, delivered>>

-----------------------------------------------------------------------------
(* The file system: a change under a key the caller holds; FSEvents holds *)
(* an event for it if the stream is started (kFSEventStreamEventIdSinceNow). *)
FsChange(k) ==
    /\ owner[k] # NoCaller
    /\ ~keyClosed[k]
    /\ made[k] < MaxChanges
    /\ made' = [made EXCEPT ![k] = @ + 1]
    /\ pending' = [pending EXCEPT ![k] = IF kst[k] = "started" THEN @ + 1 ELSE @]
    /\ UNCHANGED <<open, threadVars, access, blocks, blockFinish, cpc, kst,
                   sched, owner, keyClosed, callerVars, delivered>>

Next ==
    \/ ThreadAttach \/ OpenFails \/ OpenReturn \/ LoopTest \/ RunEnter \/ PerformBlock
    \/ CallbackEvent \/ CallbackReturn
    \/ RunStopped \/ RunFinished \/ RunTimedOut \/ KeyerWake \/ ThreadExit
    \/ CloseBegin \/ CloseStop \/ CloseJoin
    \/ \E k \in Keys : BeginCallback(k) \/ FsChange(k)
    \/ \E c \in Callers, k \in Keys : AddKey(c, k) \/ RemoveKey(c, k) \/ Poll(c, k)
    \/ \E c \in Callers : AddReturn(c) \/ RemoveStop(c) \/ RemoveRelease(c)
                          \/ PollReturn(c)

(* The run-loop thread runs whenever it is not blocked.  Within a run,    *)
(* the run loop serves its pending blocks and ready sources; a run can    *)
(* end in a 10000 s timeout between two of them, so those steps are only *)
(* intermittently enabled and get strong fairness, as does every step     *)
(* that waits for accessSemaphore.  A thread whose semaphore is signalled *)
(* is eventually scheduled.  A run that is not stopped ends at its 10000 s *)
(* timeout.  Callers, close and file changes are never forced.            *)
Fairness ==
    /\ WF_vars(ThreadAttach) /\ WF_vars(OpenReturn) /\ WF_vars(LoopTest)
    /\ WF_vars(RunEnter)
    /\ SF_vars(PerformBlock) /\ \A k \in Keys : SF_vars(BeginCallback(k))
    /\ WF_vars(CallbackEvent) /\ WF_vars(CallbackReturn)
    /\ WF_vars(RunStopped) /\ WF_vars(RunFinished) /\ WF_vars(RunTimedOut)
    /\ WF_vars(KeyerWake)
    /\ SF_vars(ThreadExit) /\ SF_vars(CloseStop) /\ WF_vars(CloseJoin)
    /\ \A c \in Callers : /\ WF_vars(AddReturn(c)) /\ WF_vars(RemoveStop(c))
                          /\ WF_vars(RemoveRelease(c)) /\ WF_vars(PollReturn(c))

Spec == Init /\ [][Next]_vars /\ Fairness

-----------------------------------------------------------------------------
TypeOK ==
    /\ open \in {"starting", "ok", "failed"}
    /\ tpc \in {"attach", "loop", "enter", "run", "cb", "keyer", "after", "done"}
    /\ exit \in BOOLEAN /\ runLoop \in BOOLEAN /\ alive \in BOOLEAN
    /\ stopReq \in BOOLEAN
    /\ keyer \in 0..Cardinality(Keys) + 1
    /\ access \in Callers \cup {NoCaller}
    /\ blocks \in Seq(Keys)
    /\ blockFinish \in 0..Cardinality(Keys)
    /\ cb \in Keys \cup {NoKey}
    /\ cbLeft \in 0..MaxChanges
    /\ cpc \in {"idle", "stop", "join", "done"}
    /\ kst \in [Keys -> {"none", "new", "started", "stopped", "deleted"}]
    /\ sched \in [Keys -> BOOLEAN]
    /\ pending \in [Keys -> 0..MaxChanges]
    /\ owner \in [Keys -> Callers \cup {NoCaller}]
    /\ keyClosed \in [Keys -> BOOLEAN]
    /\ pc \in [Callers -> {"idle", "add", "rmStop", "rmRelease", "poll"}]
    /\ target \in [Callers -> Keys \cup {NoKey}]
    /\ rl \in [Callers -> BOOLEAN]
    /\ mark \in [Callers -> 0..MaxChanges]
    /\ made \in [Keys -> 0..MaxChanges]
    /\ delivered \in [Keys -> 0..MaxChanges]

(* Arm first, then publish: a key addKey has returned to its caller has a *)
(* created, scheduled and started stream until removeKey stops it, so no  *)
(* change made after CreateKeyObject_native returned is missed.  At risk: *)
(* blockFinishSemaphore is shared by all adders and only accessSemaphore  *)
(* keeps one adder from being woken by another adder's block.             *)
AddReturnsStarted ==
    \A k \in Keys :
        (owner[k] # NoCaller /\ kst[k] \notin {"stopped", "deleted"})
            => kst[k] = "started" /\ sched[k]

(* No caller blocks forever in addKey, removeKey or poll.                  *)
CallerReturns ==
    \A c \in Callers : pc[c] # "idle" ~> pc[c] = "idle"

(* CloseWatcher_native returns: the exit flag, the keyerSemaphore signal  *)
(* and CFRunLoopStop together get the thread out of every state it can be *)
(* in (waiting on keyerSemaphore, inside a run, between two runs).        *)
CloseReturns ==
    cpc = "stop" ~> cpc = "done"

(* No lost change: every change made under a held key is eventually       *)
(* handed to the callback, unless the key is being removed or the engine  *)
(* is closing.                                                             *)
Removed(k) == kst[k] \in {"stopped", "deleted"} \/ exit

EventuallyReported ==
    \A k \in Keys : \A n \in 1..MaxChanges :
        made[k] >= n ~> (delivered[k] >= n \/ Removed(k))

(* The callback never runs on a deleted key: eventCallbackFunction reads  *)
(* the WatchKey (its path, its keyObject global reference) for every      *)
(* event, so the key must outlive every callback for its stream (spec:    *)
(* resources are destroyed only on the event-loop thread, and no notify   *)
(* follows unregister).                                                    *)
NoCallbackOnDeletedKey ==
    (tpc = "cb" /\ cbLeft > 0) => kst[cb] # "deleted"

-----------------------------------------------------------------------------
(* Refinement of the handle contract WatchHandles.  A key is pending      *)
(* while its addKey blocks, registered once addKey returned it, being     *)
(* unregistered while removeKey runs, unregistered once it returned.  The *)
(* run-loop thread serves from a successful attach until it leaves        *)
(* runThread; the registry is the started streams while it serves; the   *)
(* outcome of a pending add is decided when the block starts the stream. *)
(* isValidKey is constant TRUE, so no key ever becomes invalid.           *)
Serving == alive /\ tpc # "done"

(* isValidKey: a key, once created, is never invalidated.                  *)
IsValidKey(k) == TRUE

KeyHandle(k) ==
    CASE keyClosed[k] -> "unregistered"
      [] owner[k] # NoCaller /\ \E c \in Callers :
            pc[c] \in {"rmStop", "rmRelease"} /\ target[c] = k -> "unregistering"
      [] owner[k] # NoCaller -> "registered"
      [] \E c \in Callers : pc[c] = "add" /\ target[c] = k -> "pending"
      [] OTHER -> "none"

Contract == INSTANCE WatchHandles WITH
    Handles <- Keys,
    engine  <- CASE open = "starting" -> "starting"
                 [] open = "failed" \/ cpc = "done" -> "closed"
                 [] cpc = "idle" -> "open"
                 [] OTHER -> "closing",
    serving <- Serving,
    handle  <- [k \in Keys |-> KeyHandle(k)],
    outcome <- [k \in Keys |-> IF KeyHandle(k) = "pending" /\ kst[k] = "started"
                               THEN "ok" ELSE "none"],
    active  <- [k \in Keys |-> kst[k] = "started" /\ Serving],
    valid   <- [k \in Keys |-> IsValidKey(k)]

(* The run-loop engine implements the handle contract: addKey returns a   *)
(* key only after the block started its stream, removeKey returns only    *)
(* after the stream was stopped, and close returns only after the thread  *)
(* left its loop.                                                          *)
RefinesWatchHandles == Contract!Spec
=============================================================================

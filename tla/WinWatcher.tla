----------------------------- MODULE WinWatcher -----------------------------
(***************************************************************************)
(* The completion-port watch engine of src/native/win32/watcher/dllmain.cpp *)
(*                                                                         *)
(* One event thread (WatcherService::runThread) dequeues batches of        *)
(* completion entries from the port and handles each batch in REVERSE      *)
(* order (handleCompletionEntries).  Caller threads register, poll and     *)
(* remove watches by posting synthetic entries to the same port and then   *)
(* blocking on a Win32 auto-reset event: the service-wide addFileEvent for *)
(* addKey, the per-watch pollEvent for poll and removeKey.  The kernel is  *)
(* modelled by the environment actions FsChange, OsComplete, RootDeleted:  *)
(* a directory handle buffers changes after its first ReadDirectoryChangesW *)
(* and completes the pending read with the buffered records, or with zero  *)
(* bytes when the buffer overflowed or the directory went away.            *)
(*                                                                         *)
(* Data abstraction: a completion carries the number of changes it covers  *)
(* instead of FILE_NOTIFY_INFORMATION records; a notify callback is        *)
(* counted, not rendered into a Java string.                               *)
(***************************************************************************)
EXTENDS Naturals, SequencesExt

CONSTANTS
    Callers,        \* caller (Java) threads
    Watches,        \* DirectoryWatch objects that addKey may allocate
    NoCaller,       \* model value: no owner
    NoWatch,        \* model value: no watch (a null DirectoryWatch*)
    BufCap,         \* changes the kernel buffer holds before it overflows
    MaxChanges,     \* bound: file system changes per watch
    AddsSerialized, \* TRUE: the caller side never runs two addKey at once
    CallsBeforeClose, \* TRUE: no caller call overlaps CloseWatcher_native
    AssociationMayFail, \* CreateIoCompletionPort(file, port) may fail in addKey
    DequeueMayFail, \* GetQueuedCompletionStatusEx may fail while the port is open
    PostMayFail     \* PostQueuedCompletionStatus may fail (no system resources)

ASSUME /\ BufCap \in Nat \ {0}
       /\ MaxChanges \in Nat
       /\ AddsSerialized \in BOOLEAN
       /\ CallsBeforeClose \in BOOLEAN
       /\ AssociationMayFail \in BOOLEAN
       /\ DequeueMayFail \in BOOLEAN
       /\ PostMayFail \in BOOLEAN
       /\ NoCaller \notin Callers
       /\ NoWatch \notin Watches

VARIABLES
    port,               \* entries queued in the completion port
    batch,              \* entries removed by the last GetQueuedCompletionStatusEx, not yet handled
    addedWatches,       \* WatcherService::addedWatches
    toDeleteWatches,    \* WatcherService::toDeleteWatches
    pollEventNotifies,  \* WatcherService::pollEventNotifies (pollEvent of each watch)
    addFileEvent,       \* auto-reset event: signalled?
    alloc,              \* memory of each DirectoryWatch: "free", "live", "freed"
    closed,             \* closeHandles() has run: file handle and pollEvent closed
    armed,              \* a ReadDirectoryChangesW is pending on the handle
    anyError,           \* anyErrorCode # ERROR_SUCCESS
    pollEvt,            \* auto-reset pollEvent: signalled?
    osBuf,              \* changes the kernel buffered for the handle
    everArmed,          \* the kernel buffers changes only after a first read
    rootGone,           \* the watched directory was deleted
    assoc,              \* the directory handle is associated with the port
    pc,                 \* caller: "idle", or blocked in "add", "poll", "remove"
    target,             \* caller: the watch of the blocking call
    paramErr,           \* caller: AddFileCallbackParam::err on the caller's stack
    mark,               \* caller: changes already handed to the port when poll was called
    owner,              \* caller that addKey returned the watch to
    keyClosed,          \* CloseKey_native returned and deleted the key's global ref
    made,               \* history: changes made under a registered watch
    accounted,          \* history: changes reported, one by one or by an overflow
    notified,           \* history: notify callbacks made for the watch
    overflowed,         \* history: an overflow was notified for the watch
    exitReq,            \* handleCompletionEntries: COMMAND_KEY_EXIT seen in this batch
    tstate,             \* event thread: "running", "exited" (ExitThread)
    portOpen,           \* the port handle is not closed
    spc                 \* closing thread: "open", "wait" (joining), "closed"

vars == <<port, batch, addedWatches, toDeleteWatches, pollEventNotifies,
          addFileEvent, alloc, closed, armed, anyError, pollEvt, osBuf,
          everArmed, rootGone, assoc, pc, target, paramErr, mark, owner, keyClosed,
          made, accounted, notified, overflowed, exitReq, tstate, portOpen, spc>>

watchVars == <<alloc, closed, armed, anyError, pollEvt, osBuf, everArmed, rootGone, assoc>>
callerVars == <<pc, target, paramErr, mark, owner, keyClosed>>
historyVars == <<made, accounted, notified, overflowed>>
lifeVars == <<exitReq, tstate, portOpen, spc>>

(* A port entry.  op is the COMMAND_KEY_* of a synthetic entry, or "IO"   *)
(* for a ReadDirectoryChangesW completion covering n changes; data is     *)
(* dwNumberOfBytesTransferred > 0.                                         *)
Entry(op, w, c, n, data) == [op |-> op, w |-> w, c |-> c, n |-> n, data |-> data]
Cmd(op, w, c) == Entry(op, w, c, 0, FALSE)
Io(w, n, data) == Entry("IO", w, NoCaller, n, data)

Ops == {"ADD", "REMOVE", "DELETE", "POLL", "POLL_DONE", "EXIT", "IO"}
Entries == [op : Ops, w : Watches \cup {NoWatch}, c : Callers \cup {NoCaller},
            n : 0..MaxChanges, data : BOOLEAN]

-----------------------------------------------------------------------------
(* DirectoryWatch::closeHandles for the watches S: the directory handle  *)
(* is closed and pollEvent is set, then closed.                            *)
CloseHandles(S) == closed' = [w \in Watches |-> closed[w] \/ w \in S]

(* new DirectoryWatch: the object becomes live; its pollEvent is created  *)
(* unsignalled and its error code is ERROR_SUCCESS (as in Init).           *)
NewWatch(w) == alloc' = [alloc EXCEPT ![w] = "live"]

(* delete of the DirectoryWatch objects S: ~DirectoryWatch closes their   *)
(* handles (closeHandles again, a no-op on closed ones) and frees them.    *)
DeleteWatches(S) ==
    /\ alloc' = [w \in Watches |-> IF w \in S THEN "freed" ELSE alloc[w]]
    /\ CloseHandles(S)

(* KeyIsValid_native: the watch has no error code.                         *)
KeyIsValid(w) == ~anyError[w]

(* ReadDirectoryChangesW as readDirectoryChanges() calls it.  It fails on *)
(* a closed handle or a deleted directory; ERROR_NOTIFY_ENUM_DIR (the     *)
(* buffered changes overflowed) posts an overflow and retries.            *)
ArmFails(w) == closed[w] \/ rootGone[w]

(* Mutant of ReadDirectoryChanges: the ENUM_DIR retry drops the buffered *)
(* changes without posting the overflow.                                   *)
ReadDirectoryChangesNoOverflow(w, ntf, acc, ovf) ==
    /\ overflowed' = [overflowed EXCEPT ![w] = ovf]
    /\ armed' = [armed EXCEPT ![w] = TRUE]
    /\ everArmed' = [everArmed EXCEPT ![w] = TRUE]
    /\ notified' = [notified EXCEPT ![w] = ntf]
    /\ accounted' = [accounted EXCEPT ![w] = acc]
    /\ osBuf' = [osBuf EXCEPT ![w] = IF @ > BufCap THEN 0 ELSE @]

(* The effect of a successful readDirectoryChanges(w), given the notify,  *)
(* accounted and overflowed history of the step it is part of.            *)
ReadDirectoryChanges(w, ntf, acc, ovf) ==
    /\ overflowed' = [overflowed EXCEPT ![w] = ovf \/ osBuf[w] > BufCap]
    /\ armed' = [armed EXCEPT ![w] = TRUE]
    /\ everArmed' = [everArmed EXCEPT ![w] = TRUE]
    /\ IF osBuf[w] > BufCap
         THEN /\ notified' = [notified EXCEPT ![w] = ntf + 1]
              /\ accounted' = [accounted EXCEPT ![w] = acc + osBuf[w]]
              /\ osBuf' = [osBuf EXCEPT ![w] = 0]
         ELSE /\ notified' = [notified EXCEPT ![w] = ntf]
              /\ accounted' = [accounted EXCEPT ![w] = acc]
              /\ UNCHANGED osBuf

Init ==
    /\ port = <<>>
    /\ batch = <<>>
    /\ addedWatches = {}
    /\ toDeleteWatches = {}
    /\ pollEventNotifies = {}
    /\ addFileEvent = FALSE
    /\ alloc = [w \in Watches |-> "free"]
    /\ closed = [w \in Watches |-> FALSE]
    /\ armed = [w \in Watches |-> FALSE]
    /\ anyError = [w \in Watches |-> FALSE]
    /\ pollEvt = [w \in Watches |-> FALSE]
    /\ osBuf = [w \in Watches |-> 0]
    /\ everArmed = [w \in Watches |-> FALSE]
    /\ rootGone = [w \in Watches |-> FALSE]
    /\ assoc = [w \in Watches |-> FALSE]
    /\ pc = [c \in Callers |-> "idle"]
    /\ target = [c \in Callers |-> NoWatch]
    /\ paramErr = [c \in Callers |-> "denied"]
    /\ mark = [c \in Callers |-> 0]
    /\ owner = [w \in Watches |-> NoCaller]
    /\ keyClosed = [w \in Watches |-> FALSE]
    /\ made = [w \in Watches |-> 0]
    /\ accounted = [w \in Watches |-> 0]
    /\ notified = [w \in Watches |-> 0]
    /\ overflowed = [w \in Watches |-> FALSE]
    /\ exitReq = FALSE
    /\ tstate = "running"
    /\ portOpen = TRUE
    /\ spc = "open"
-----------------------------------------------------------------------------
(* Caller threads.                                                         *)

(* addKey: CreateFile, new DirectoryWatch, associate the handle with the  *)
(* port, post COMMAND_KEY_ADD_FILE with a pointer to the stack-allocated  *)
(* AddFileCallbackParam (err preset to ERROR_ACCESS_DENIED), then block.  *)
(* A failing CreateFile returns before anything changes and is not a step. *)
(* The result of CreateIoCompletionPort is never tested (the code tests   *)
(* the port member, which is not NULL), so a failed association goes on. *)
AddKey(c, w) ==
    /\ pc[c] = "idle"
    /\ spc = "open"
    /\ alloc[w] = "free"
    /\ AddsSerialized => \A d \in Callers : pc[d] # "add"
    /\ NewWatch(w)
    /\ \E ok \in IF AssociationMayFail THEN BOOLEAN ELSE {TRUE} :
          assoc' = [assoc EXCEPT ![w] = ok]
    /\ port' = Append(port, Cmd("ADD", w, c))
    /\ paramErr' = [paramErr EXCEPT ![c] = "denied"]
    /\ pc' = [pc EXCEPT ![c] = "add"]
    /\ target' = [target EXCEPT ![c] = w]
    /\ UNCHANGED <<batch, addedWatches, toDeleteWatches, pollEventNotifies,
                   addFileEvent, closed, armed, anyError, pollEvt, osBuf,
                   everArmed, rootGone, mark, owner, keyClosed, historyVars>>
    /\ UNCHANGED lifeVars

(* addKey when PostQueuedCompletionStatus(ADD_FILE) fails: the watch is  *)
(* deleted (closing its handles) and nullptr returned, without blocking.  *)
AddKeyPostFails(c, w) ==
    /\ PostMayFail
    /\ pc[c] = "idle"
    /\ spc = "open"
    /\ alloc[w] = "free"
    /\ DeleteWatches({w})
    /\ UNCHANGED <<port, batch, addedWatches, toDeleteWatches, pollEventNotifies,
                   addFileEvent, armed, anyError, pollEvt, osBuf, everArmed, rootGone,
                   assoc, callerVars, historyVars, lifeVars>>

(* Mutant of AddReturn: param.err is not checked, the watch is returned. *)
AddReturnIgnoreErr(c) ==
    LET w == target[c] IN
    /\ pc[c] = "add"
    /\ addFileEvent
    /\ addFileEvent' = FALSE
    /\ owner' = [owner EXCEPT ![w] = c]
    /\ pc' = [pc EXCEPT ![c] = "idle"]
    /\ target' = [target EXCEPT ![c] = NoWatch]
    /\ UNCHANGED <<port, batch, addedWatches, toDeleteWatches, pollEventNotifies,
                   alloc, closed, armed, anyError, pollEvt, osBuf, everArmed,
                   rootGone, assoc, paramErr, mark, keyClosed, historyVars, lifeVars>>

(* addKey after WaitForSingleObject(addFileEvent): whatever command set   *)
(* the event, the caller reads its own param.err; on failure it deletes   *)
(* the watch (closing its handles) and CreateKeyObject_native returns 0.  *)
AddReturn(c) ==
    LET w == target[c] IN
    /\ pc[c] = "add"
    /\ addFileEvent
    /\ addFileEvent' = FALSE
    /\ IF paramErr[c] = "ok"
         THEN /\ owner' = [owner EXCEPT ![w] = c]
              /\ UNCHANGED <<alloc, closed>>
         ELSE /\ DeleteWatches({w})
              /\ UNCHANGED owner
    /\ pc' = [pc EXCEPT ![c] = "idle"]
    /\ target' = [target EXCEPT ![c] = NoWatch]
    /\ UNCHANGED <<port, batch, addedWatches, toDeleteWatches, pollEventNotifies,
                   armed, anyError, pollEvt, osBuf, everArmed, rootGone, assoc,
                   paramErr, mark, keyClosed, historyVars>>
    /\ UNCHANGED lifeVars

(* poll: post COMMAND_KEY_POLL and block on the watch's pollEvent.  mark  *)
(* records the changes the kernel already handed to the port, the ones    *)
(* the poll is a barrier for.                                              *)
Poll(c, w) ==
    /\ pc[c] = "idle"
    /\ spc = "open"
    /\ owner[w] = c
    /\ ~keyClosed[w]
    /\ port' = Append(port, Cmd("POLL", w, c))
    /\ pc' = [pc EXCEPT ![c] = "poll"]
    /\ target' = [target EXCEPT ![c] = w]
    /\ mark' = [mark EXCEPT ![c] = made[w] - osBuf[w]]
    /\ UNCHANGED <<batch, addedWatches, toDeleteWatches, pollEventNotifies,
                   addFileEvent, watchVars, paramErr, owner, keyClosed, historyVars>>
    /\ UNCHANGED lifeVars

(* When the post of COMMAND_KEY_POLL fails, poll returns FALSE at once    *)
(* and nothing changes: a stuttering step, not an action of the model.     *)

(* poll returns when WaitForSingleObject(pollEvent) consumes the signal,  *)
(* or when closeHandles() set and closed the event (a wait on a closed    *)
(* handle fails at once).                                                  *)
PollReturn(c) ==
    LET w == target[c] IN
    /\ pc[c] = "poll"
    /\ pollEvt[w] \/ closed[w]
    /\ pollEvt' = [pollEvt EXCEPT ![w] = FALSE]
    /\ pc' = [pc EXCEPT ![c] = "idle"]
    /\ target' = [target EXCEPT ![c] = NoWatch]
    /\ UNCHANGED <<port, batch, addedWatches, toDeleteWatches, pollEventNotifies,
                   addFileEvent, alloc, closed, armed, anyError, osBuf,
                   everArmed, rootGone, assoc, paramErr, mark, owner, keyClosed, historyVars>>
    /\ UNCHANGED lifeVars

(* removeKey: post COMMAND_KEY_REMOVE_FILE and block on pollEvent.        *)
RemoveKey(c, w) ==
    /\ pc[c] = "idle"
    /\ spc = "open"
    /\ owner[w] = c
    /\ ~keyClosed[w]
    /\ port' = Append(port, Cmd("REMOVE", w, c))
    /\ pc' = [pc EXCEPT ![c] = "remove"]
    /\ target' = [target EXCEPT ![c] = w]
    /\ UNCHANGED <<batch, addedWatches, toDeleteWatches, pollEventNotifies,
                   addFileEvent, watchVars, paramErr, mark, owner, keyClosed, historyVars>>
    /\ UNCHANGED lifeVars

(* removeKey when the post of COMMAND_KEY_REMOVE_FILE fails: it returns  *)
(* at once, and CloseKey_native deletes the key's global reference while   *)
(* the watch is still in addedWatches with its read pending.               *)
RemoveKeyPostFails(c, w) ==
    /\ PostMayFail
    /\ pc[c] = "idle"
    /\ spc = "open"
    /\ owner[w] = c
    /\ ~keyClosed[w]
    /\ keyClosed' = [keyClosed EXCEPT ![w] = TRUE]
    /\ UNCHANGED <<port, batch, addedWatches, toDeleteWatches, pollEventNotifies,
                   addFileEvent, watchVars, pc, target, paramErr, mark, owner,
                   historyVars, lifeVars>>

(* The wait of removeKey on pollEvent ends when the event is signalled,  *)
(* or when closeHandles set and closed it; CloseKey_native then deletes   *)
(* the key's global reference, after which no notify may name the key.    *)
RemoveReturn(c) ==
    LET w == target[c] IN
    /\ pc[c] = "remove"
    /\ pollEvt[w] \/ closed[w]
    /\ pollEvt' = [pollEvt EXCEPT ![w] = FALSE]
    /\ keyClosed' = [keyClosed EXCEPT ![w] = TRUE]
    /\ pc' = [pc EXCEPT ![c] = "idle"]
    /\ target' = [target EXCEPT ![c] = NoWatch]
    /\ UNCHANGED <<port, batch, addedWatches, toDeleteWatches, pollEventNotifies,
                   addFileEvent, alloc, closed, armed, anyError, osBuf,
                   everArmed, rootGone, assoc, paramErr, mark, owner, historyVars>>
    /\ UNCHANGED lifeVars

-----------------------------------------------------------------------------
(* The event thread: runThread and handleCompletionEntries.                *)

(* GetQueuedCompletionStatusEx(port, overlappedEntries.data(),             *)
(* overlappedEntries.size(), ..., INFINITE): removes at most as many       *)
(* entries as overlappedEntries holds, one slot plus one per added watch.  *)
Dequeue ==
    LET k == IF Len(port) < Cardinality(addedWatches) + 1
               THEN Len(port) ELSE Cardinality(addedWatches) + 1
    IN /\ tstate = "running"
       /\ ~exitReq
       /\ portOpen
       /\ batch = <<>>
       /\ port # <<>>
       /\ batch' = SubSeq(port, 1, k)
       /\ port' = SubSeq(port, k + 1, Len(port))
       /\ UNCHANGED <<addedWatches, toDeleteWatches, pollEventNotifies,
                      addFileEvent, watchVars, callerVars, historyVars, lifeVars>>

HandleAdd(e) ==
    LET w == e.w  c == e.c IN
    /\ IF ArmFails(w)
         THEN /\ paramErr' = [paramErr EXCEPT ![c] = "fail"]
              /\ UNCHANGED <<addedWatches, armed, everArmed, osBuf, notified, accounted, overflowed>>
         ELSE /\ ReadDirectoryChanges(w, notified[w], accounted[w], overflowed[w])
              /\ paramErr' = [paramErr EXCEPT ![c] = "ok"]
              /\ addedWatches' = addedWatches \cup {w}
    /\ addFileEvent' = TRUE
    /\ UNCHANGED <<port, toDeleteWatches, pollEventNotifies, alloc, closed,
                   anyError, pollEvt, rootGone, assoc, pc, target, mark, owner,
                   keyClosed, made>>

(* Mutant of HandlePoll: the pollEvent is set at once, without a marker. *)
HandlePollNoMarker(e) ==
    /\ pollEvt' = [pollEvt EXCEPT ![e.w] = TRUE]
    /\ UNCHANGED <<port, pollEventNotifies, addedWatches, toDeleteWatches,
                   addFileEvent, alloc, closed, armed, anyError, osBuf,
                   everArmed, rootGone, assoc, callerVars, historyVars>>

(* COMMAND_KEY_POLL: with no user keys or a watch in error the pollEvent  *)
(* is set at once; otherwise a POLL_DONE marker is posted behind the      *)
(* entries already in the port.                                            *)
HandlePoll(e) ==
    LET w == e.w IN
    /\ IF addedWatches = {} \/ anyError[w]
         THEN /\ pollEvt' = [pollEvt EXCEPT ![w] = TRUE]
              /\ UNCHANGED <<pollEventNotifies, port>>
         ELSE /\ pollEventNotifies' = pollEventNotifies \cup {w}
              /\ port' = Append(port, Cmd("POLL_DONE", w, NoCaller))
              /\ UNCHANGED pollEvt
    /\ UNCHANGED <<addedWatches, toDeleteWatches, addFileEvent, alloc, closed,
                   armed, anyError, osBuf, everArmed, rootGone, assoc, callerVars, historyVars>>

(* COMMAND_KEY_POLL_DONE: signal the pollEvent if it is still awaited.    *)
HandlePollDone(e) ==
    LET w == e.w IN
    /\ pollEventNotifies' = pollEventNotifies \ {w}
    /\ pollEvt' = [pollEvt EXCEPT ![w] = @ \/ w \in pollEventNotifies]
    /\ UNCHANGED <<port, addedWatches, toDeleteWatches, addFileEvent, alloc,
                   closed, armed, anyError, osBuf, everArmed, rootGone, assoc,
                   callerVars, historyVars>>

(* COMMAND_KEY_REMOVE_FILE: unpublish the watch, wake a pending poll,     *)
(* CancelIoEx the pending read (its aborted completion enters the port),  *)
(* post COMMAND_KEY_DELETE_FILE, then closeHandles(), which sets and      *)
(* closes pollEvent and so releases the remover.                          *)
HandleRemove(e) ==
    LET w == e.w
        cancelled == IF armed[w] THEN <<Io(w, 0, FALSE)>> ELSE <<>>
    IN
    /\ addedWatches' = addedWatches \ {w}
    /\ toDeleteWatches' = toDeleteWatches \cup {w}
    /\ pollEventNotifies' = pollEventNotifies \ {w}
    /\ armed' = [armed EXCEPT ![w] = FALSE]
    /\ port' = (port \o cancelled) \o <<Cmd("DELETE", w, NoCaller)>>
    /\ CloseHandles({w})
    /\ pollEvt' = [pollEvt EXCEPT ![w] = FALSE]
    /\ osBuf' = [osBuf EXCEPT ![w] = 0]
    /\ UNCHANGED <<addFileEvent, alloc, anyError, everArmed, rootGone, assoc,
                   callerVars, historyVars>>

(* COMMAND_KEY_DELETE_FILE: free the watch if it is still to be deleted.  *)
HandleDelete(e) ==
    LET w == e.w IN
    /\ toDeleteWatches' = toDeleteWatches \ {w}
    /\ DeleteWatches({w} \cap toDeleteWatches)
    /\ UNCHANGED <<port, addedWatches, pollEventNotifies, addFileEvent,
                   armed, anyError, pollEvt, osBuf, everArmed, rootGone, assoc,
                   callerVars, historyVars>>

(* Mutant of HandleIo: the read is not re-armed after a data completion. *)
HandleIoNoRearm(e) ==
    LET w == e.w IN
    /\ e.data \/ w \in addedWatches
    /\ notified' = [notified EXCEPT ![w] = IF e.data THEN @ + e.n ELSE @ + 1]
    /\ accounted' = [accounted EXCEPT ![w] = @ + e.n]
    /\ overflowed' = [overflowed EXCEPT ![w] = @ \/ ~e.data]
    /\ UNCHANGED <<port, addedWatches, toDeleteWatches, pollEventNotifies,
                   addFileEvent, watchVars, callerVars, made>>

(* handleNotifyInformations: a completion with data notifies one event    *)
(* per record, whether or not the watch is still added; a zero-byte       *)
(* completion of a watch no longer added is a leftover of a cancelled     *)
(* read and is dropped, otherwise it is an overflow.  Then the read is    *)
(* re-armed, and a failure to re-arm puts the watch in error.             *)
HandleIo(e) ==
    LET w == e.w
        ntf == IF e.data THEN notified[w] + e.n ELSE notified[w] + 1
        acc == accounted[w] + e.n
        ovf == overflowed[w] \/ ~e.data
    IN
    IF ~e.data /\ w \notin addedWatches
      THEN UNCHANGED <<port, addedWatches, toDeleteWatches, pollEventNotifies,
                       addFileEvent, watchVars, callerVars, historyVars>>
      ELSE /\ IF ArmFails(w)
                THEN /\ anyError' = [anyError EXCEPT ![w] = TRUE]
                     /\ notified' = [notified EXCEPT ![w] = ntf]
                     /\ accounted' = [accounted EXCEPT ![w] = acc]
                     /\ overflowed' = [overflowed EXCEPT ![w] = ovf]
                     /\ UNCHANGED <<armed, everArmed, osBuf>>
                ELSE /\ ReadDirectoryChanges(w, ntf, acc, ovf)
                     /\ UNCHANGED anyError
           /\ UNCHANGED <<port, addedWatches, toDeleteWatches, pollEventNotifies,
                          addFileEvent, alloc, closed, pollEvt, rootGone, assoc,
                          callerVars, made>>

(* COMMAND_KEY_EXIT: only noted; the exit is deferred to the end of the   *)
(* batch so that the other entries are still handled.                     *)
HandleExit(e) ==
    UNCHANGED <<port, addedWatches, toDeleteWatches, pollEventNotifies,
                addFileEvent, watchVars, callerVars, historyVars>>

(* handleCompletionEntries: the entries of a batch are handled from the   *)
(* last to the first.                                                      *)
HandleEntry ==
    LET e == Last(batch) IN
    /\ batch # <<>>
    /\ batch' = Front(batch)
    /\ exitReq' = (exitReq \/ e.op = "EXIT")
    /\ UNCHANGED <<tstate, portOpen, spc>>
    /\ CASE e.op = "EXIT"      -> HandleExit(e)
         [] e.op = "ADD"       -> HandleAdd(e)
         [] e.op = "POLL"      -> HandlePoll(e)
         [] e.op = "POLL_DONE" -> HandlePollDone(e)
         [] e.op = "REMOVE"    -> HandleRemove(e)
         [] e.op = "DELETE"    -> HandleDelete(e)
         [] e.op = "IO"        -> HandleIo(e)

(* executeExitThread: set the pollEvent of every poll still awaiting its  *)
(* POLL_DONE marker, then ExitThread.                                      *)
NotifyPollers ==
    pollEvt' = [w \in Watches |-> pollEvt[w] \/ w \in pollEventNotifies]

(* The end of a batch that held COMMAND_KEY_EXIT.                          *)
ExitThread ==
    /\ tstate = "running"
    /\ exitReq
    /\ batch = <<>>
    /\ NotifyPollers
    /\ tstate' = "exited"
    /\ UNCHANGED <<port, batch, addedWatches, toDeleteWatches, pollEventNotifies,
                   addFileEvent, alloc, closed, armed, anyError, osBuf, everArmed,
                   rootGone, assoc, callerVars, historyVars, exitReq, portOpen, spc>>

(* Mutant of DequeueFails: the error loop runs but executeExitThread is   *)
(* not called, so the thread keeps failing on the closed port.             *)
DequeueFailsNoExit ==
    LET A == addedWatches IN
    /\ tstate = "running"
    /\ ~exitReq
    /\ ~portOpen \/ DequeueMayFail
    /\ batch = <<>>
    /\ anyError' = [w \in Watches |-> anyError[w] \/ w \in A]
    /\ CloseHandles(A)
    /\ armed' = [w \in Watches |-> armed[w] /\ w \notin A]
    /\ osBuf' = [w \in Watches |-> IF w \in A THEN 0 ELSE osBuf[w]]
    /\ notified' = [w \in Watches |-> IF w \in A THEN notified[w] + 1 ELSE notified[w]]
    /\ accounted' = [w \in Watches |-> IF w \in A THEN made[w] ELSE accounted[w]]
    /\ overflowed' = [w \in Watches |-> overflowed[w] \/ w \in A]
    /\ UNCHANGED <<port, batch, addedWatches, toDeleteWatches, pollEventNotifies,
                   addFileEvent, alloc, pollEvt, everArmed, rootGone, assoc, callerVars,
                   made, lifeVars>>

(* runThread when GetQueuedCompletionStatusEx fails: the port was closed, *)
(* or, with DequeueMayFail, the wait fails on an open port.               *)
(* every added watch gets the error code, has its handles closed (which   *)
(* cancels its read and releases a waiter on its pollEvent) and gets an   *)
(* overflow notify that reports all its changes; then executeExitThread.  *)
DequeueFails ==
    LET A == addedWatches IN
    /\ tstate = "running"
    /\ ~exitReq
    /\ ~portOpen \/ DequeueMayFail
    /\ batch = <<>>
    /\ anyError' = [w \in Watches |-> anyError[w] \/ w \in A]
    /\ CloseHandles(A)
    /\ armed' = [w \in Watches |-> armed[w] /\ w \notin A]
    /\ osBuf' = [w \in Watches |-> IF w \in A THEN 0 ELSE osBuf[w]]
    /\ notified' = [w \in Watches |-> IF w \in A THEN notified[w] + 1 ELSE notified[w]]
    /\ accounted' = [w \in Watches |-> IF w \in A THEN made[w] ELSE accounted[w]]
    /\ overflowed' = [w \in Watches |-> overflowed[w] \/ w \in A]
    /\ NotifyPollers
    /\ tstate' = "exited"
    /\ UNCHANGED <<port, batch, addedWatches, toDeleteWatches, pollEventNotifies,
                   addFileEvent, alloc, everArmed, rootGone, assoc, callerVars, made,
                   exitReq, portOpen, spc>>

-----------------------------------------------------------------------------
(* CloseWatcher_native: ~WatcherService on the closing thread.             *)

(* Post COMMAND_KEY_EXIT; if the post fails, close the port instead, so   *)
(* that the event thread's wait fails.  Then join the thread.             *)
CloseBegin ==
    /\ spc = "open"
    /\ CallsBeforeClose => \A c \in Callers : pc[c] = "idle"
    /\ spc' = "wait"
    /\ \/ /\ port' = Append(port, Cmd("EXIT", NoWatch, NoCaller))
          /\ UNCHANGED portOpen
       \/ /\ PostMayFail
          /\ port' = <<>>
          /\ portOpen' = FALSE
    /\ UNCHANGED <<batch, addedWatches, toDeleteWatches, pollEventNotifies,
                   addFileEvent, watchVars, callerVars, historyVars, exitReq, tstate>>

(* Mutant of CloseJoin: the watches still waiting for their               *)
(* COMMAND_KEY_DELETE_FILE are not deleted.                                *)
CloseJoinKeepDeleted ==
    LET D == addedWatches IN
    /\ spc = "wait"
    /\ tstate = "exited"
    /\ DeleteWatches(D)
    /\ armed' = [w \in Watches |-> armed[w] /\ w \notin D]
    /\ port' = <<>>
    /\ portOpen' = FALSE
    /\ addFileEvent' = TRUE
    /\ spc' = "closed"
    /\ UNCHANGED <<batch, addedWatches, toDeleteWatches, pollEventNotifies,
                   anyError, pollEvt, osBuf, everArmed, rootGone, assoc, callerVars,
                   historyVars, exitReq, tstate>>

(* After the join: close the port (discarding what is queued), set and    *)
(* close addFileEvent (a blocked addKey wakes), delete every watch in     *)
(* toDeleteWatches and addedWatches (~DirectoryWatch closes its handles). *)
CloseJoin ==
    LET D == addedWatches \cup toDeleteWatches IN
    /\ spc = "wait"
    /\ tstate = "exited"
    /\ DeleteWatches(D)
    /\ armed' = [w \in Watches |-> armed[w] /\ w \notin D]
    /\ port' = <<>>
    /\ portOpen' = FALSE
    /\ addFileEvent' = TRUE
    /\ spc' = "closed"
    /\ UNCHANGED <<batch, addedWatches, toDeleteWatches, pollEventNotifies,
                   anyError, pollEvt, osBuf, everArmed, rootGone, assoc, callerVars,
                   historyVars, exitReq, tstate>>

-----------------------------------------------------------------------------
(* The kernel.                                                             *)

(* A change under a registered watch.  Before the first read the handle   *)
(* does not buffer changes; afterwards the kernel keeps them until a read  *)
(* collects them.                                                          *)
FsChange(w) ==
    /\ alloc[w] = "live"
    /\ owner[w] # NoCaller
    /\ ~closed[w]
    /\ ~rootGone[w]
    /\ made[w] < MaxChanges
    /\ made' = [made EXCEPT ![w] = @ + 1]
    /\ osBuf' = IF everArmed[w] THEN [osBuf EXCEPT ![w] = @ + 1] ELSE osBuf
    /\ UNCHANGED <<port, batch, addedWatches, toDeleteWatches, pollEventNotifies,
                   addFileEvent, alloc, closed, armed, anyError, pollEvt,
                   everArmed, rootGone, assoc, callerVars, accounted, notified, overflowed>>
    /\ UNCHANGED lifeVars

(* The completion of a read reaches the port only through the handle's  *)
(* association with it; without one, nobody ever sees it.                  *)
PostCompletion(w, e) == port' = IF assoc[w] THEN Append(port, e) ELSE port

(* The kernel completes the pending read with the buffered changes, or    *)
(* with zero bytes when more changes came than the buffer holds.          *)
OsComplete(w) ==
    /\ portOpen
    /\ armed[w]
    /\ osBuf[w] > 0
    /\ PostCompletion(w, Io(w, osBuf[w], osBuf[w] <= BufCap))
    /\ armed' = [armed EXCEPT ![w] = FALSE]
    /\ osBuf' = [osBuf EXCEPT ![w] = 0]
    /\ UNCHANGED <<batch, addedWatches, toDeleteWatches, pollEventNotifies,
                   addFileEvent, alloc, closed, anyError, pollEvt, everArmed,
                   rootGone, assoc, callerVars, historyVars>>
    /\ UNCHANGED lifeVars

(* The watched directory is deleted: a pending read completes with zero   *)
(* bytes and every later read fails.                                       *)
RootDeleted(w) ==
    /\ portOpen
    /\ alloc[w] = "live"
    /\ ~closed[w]
    /\ ~rootGone[w]
    /\ rootGone' = [rootGone EXCEPT ![w] = TRUE]
    /\ IF armed[w]
         THEN /\ PostCompletion(w, Io(w, osBuf[w], FALSE))
              /\ armed' = [armed EXCEPT ![w] = FALSE]
              /\ osBuf' = [osBuf EXCEPT ![w] = 0]
         ELSE UNCHANGED <<port, armed, osBuf>>
    /\ UNCHANGED <<batch, addedWatches, toDeleteWatches, pollEventNotifies,
                   addFileEvent, alloc, closed, anyError, pollEvt, everArmed,
                   assoc, callerVars, historyVars>>
    /\ UNCHANGED lifeVars

-----------------------------------------------------------------------------
Next ==
    \/ \E c \in Callers, w \in Watches : AddKey(c, w) \/ Poll(c, w) \/ RemoveKey(c, w)
    \/ \E c \in Callers, w \in Watches : AddKeyPostFails(c, w) \/ RemoveKeyPostFails(c, w)
    \/ \E c \in Callers : AddReturn(c) \/ PollReturn(c) \/ RemoveReturn(c)
    \/ Dequeue
    \/ HandleEntry
    \/ ExitThread
    \/ DequeueFails
    \/ CloseBegin
    \/ CloseJoin
    \/ \E w \in Watches : FsChange(w) \/ OsComplete(w) \/ RootDeleted(w)

(* The event thread runs whenever GetQueuedCompletionStatusEx has entries *)
(* for it; the kernel completes a pending read that has buffered changes; *)
(* a caller blocked on a signalled event is eventually scheduled; the     *)
(* event thread runs its exit path and the closing thread, blocked only   *)
(* in WaitForSingleObject(thread), resumes once the thread has exited.    *)
(* Caller requests, close and file system changes are never forced.       *)
Fairness ==
    /\ WF_vars(Dequeue)
    /\ WF_vars(HandleEntry)
    /\ WF_vars(ExitThread)
    /\ WF_vars(DequeueFails)
    /\ WF_vars(CloseJoin)
    /\ \A w \in Watches : WF_vars(OsComplete(w))
    /\ \A c \in Callers : WF_vars(AddReturn(c)) /\ WF_vars(PollReturn(c))
                          /\ WF_vars(RemoveReturn(c))

Spec == Init /\ [][Next]_vars /\ Fairness

-----------------------------------------------------------------------------
TypeOK ==
    /\ port \in Seq(Entries)
    /\ batch \in Seq(Entries)
    /\ addedWatches \subseteq Watches
    /\ toDeleteWatches \subseteq Watches
    /\ pollEventNotifies \subseteq Watches
    /\ addFileEvent \in BOOLEAN
    /\ alloc \in [Watches -> {"free", "live", "freed"}]
    /\ closed \in [Watches -> BOOLEAN]
    /\ armed \in [Watches -> BOOLEAN]
    /\ anyError \in [Watches -> BOOLEAN]
    /\ pollEvt \in [Watches -> BOOLEAN]
    /\ osBuf \in [Watches -> 0..MaxChanges]
    /\ everArmed \in [Watches -> BOOLEAN]
    /\ rootGone \in [Watches -> BOOLEAN]
    /\ assoc \in [Watches -> BOOLEAN]
    /\ pc \in [Callers -> {"idle", "add", "poll", "remove"}]
    /\ target \in [Callers -> Watches \cup {NoWatch}]
    /\ paramErr \in [Callers -> {"denied", "ok", "fail"}]
    /\ mark \in [Callers -> 0..MaxChanges]
    /\ owner \in [Watches -> Callers \cup {NoCaller}]
    /\ keyClosed \in [Watches -> BOOLEAN]
    /\ made \in [Watches -> 0..MaxChanges]
    /\ accounted \in [Watches -> 0..MaxChanges]
    /\ notified \in [Watches -> Nat]
    /\ overflowed \in [Watches -> BOOLEAN]
    /\ exitReq \in BOOLEAN
    /\ tstate \in {"running", "exited"}
    /\ portOpen \in BOOLEAN
    /\ spc \in {"open", "wait", "closed"}

(* poll is a barrier: when a poll whose COMMAND_KEY_POLL was posted       *)
(* returns, every change whose completion the kernel had queued before    *)
(* the call has been delivered to notifyEvent, one by one or through an   *)
(* overflow.  At risk: the reverse handling of a batch and the POLL_DONE  *)
(* marker re-posted behind it.  (A poll whose post fails returns FALSE at *)
(* once and claims no barrier.)                                            *)
PollBarrier ==
    [][\A c \in Callers :
         (pc[c] = "poll" /\ pc'[c] = "idle") => accounted[target[c]] >= mark[c]]_vars

(* No lost change: every change made under a registered watch is          *)
(* eventually reported, by its own event or by an overflow, unless the     *)
(* watch is removed or has gone into its error state (KeyIsValid false).   *)
Removed(w) == w \in toDeleteWatches \/ alloc[w] = "freed" \/ ~KeyIsValid(w)

EventuallyReported ==
    \A w \in Watches : \A k \in 1..MaxChanges :
        made[w] >= k ~> (accounted[w] >= k \/ Removed(w))

(* No caller blocks forever: addKey, poll and removeKey all return.       *)
CallerReturns ==
    \A c \in Callers : pc[c] # "idle" ~> pc[c] = "idle"

(* No notify after CloseKey: once removeKey has returned and the key's    *)
(* global reference is deleted, the event thread never calls notifyEvent  *)
(* for that key (spec: unregister(h) guarantees no further notify for h). *)
NoNotifyAfterClose ==
    [][\A w \in Watches : keyClosed[w] => notified'[w] = notified[w]]_vars

(* No dangling reference in the port: every queued entry that the event   *)
(* thread dereferences names a DirectoryWatch that is not yet deleted,    *)
(* and every queued COMMAND_KEY_ADD_FILE names the param of a caller that *)
(* is still blocked in that addKey.                                        *)
Queued == ToSet(port) \cup ToSet(batch)

NoDanglingReference ==
    \A e \in Queued :
        /\ e.op \in {"IO", "POLL", "REMOVE"} => alloc[e.w] # "freed"
        /\ e.op = "ADD" => pc[e.c] = "add" /\ target[e.c] = e.w

(* addKey reports its own outcome: a caller leaves addKey only after the  *)
(* event thread has handled that caller's COMMAND_KEY_ADD_FILE.           *)
AddReportsOwnOutcome ==
    [][\A c \in Callers :
         (pc[c] = "add" /\ pc'[c] = "idle") => Cmd("ADD", target[c], c) \notin Queued]_vars

(* CloseWatcher_native returns: once ~WatcherService has posted EXIT (or, *)
(* the post failing, closed the port), the event thread exits and the     *)
(* destructor finishes, whatever callers, completions and commands are    *)
(* in flight.                                                              *)
CloseReturns ==
    spc = "wait" ~> spc = "closed"

(* No DirectoryWatch outlives the service: after ~WatcherService every    *)
(* watch addKey allocated has been deleted, including removed watches     *)
(* whose COMMAND_KEY_DELETE_FILE was never handled.                       *)
NoLeakAfterClose ==
    spc = "closed" => \A w \in Watches : alloc[w] # "live"

(* A handle enters its error state only after an overflow was notified    *)
(* for it (spec: the engine must emit an overflow event before tearing    *)
(* the handle down).                                                       *)
OverflowBeforeInvalid ==
    \A w \in Watches : anyError[w] => overflowed[w]

-----------------------------------------------------------------------------
(* Refinement of the handle contract WatchHandles.  A watch is pending    *)
(* while its addKey blocks, registered once addKey returned it, being     *)
(* unregistered while removeKey blocks, unregistered once CloseKey_native *)
(* returned, failed when addKey deleted it.  The registry is addedWatches *)
(* while the event thread runs; the outcome is the blocked caller's       *)
(* param.err; validity is anyErrorCode.                                    *)
Adder(w) == {c \in Callers : pc[c] = "add" /\ target[c] = w}

HandleOf(w) ==
    CASE keyClosed[w] -> "unregistered"
      [] owner[w] # NoCaller /\ \E c \in Callers : pc[c] = "remove" /\ target[c] = w
            -> "unregistering"
      [] owner[w] # NoCaller -> "registered"
      [] Adder(w) # {} -> "pending"
      [] alloc[w] = "freed" -> "failed"
      [] OTHER -> "none"

OutcomeOf(w) ==
    IF \E c \in Adder(w) : paramErr[c] = "ok" THEN "ok"
    ELSE IF \E c \in Adder(w) : paramErr[c] = "fail" THEN "fail"
    ELSE "none"

Contract == INSTANCE WatchHandles WITH
    Handles <- Watches,
    engine  <- CASE spc = "open" -> "open" [] spc = "wait" -> "closing"
                 [] spc = "closed" -> "closed",
    serving <- tstate = "running",
    handle  <- [w \in Watches |-> HandleOf(w)],
    outcome <- [w \in Watches |-> OutcomeOf(w)],
    active  <- [w \in Watches |-> w \in addedWatches /\ tstate = "running"],
    valid   <- [w \in Watches |-> KeyIsValid(w)]

(* The completion-port engine implements the handle contract: addKey      *)
(* returns the outcome the event thread decided for that very watch,      *)
(* removeKey returns only after the watch left addedWatches, a watch in   *)
(* error never recovers, and close stops the thread before it returns.    *)
RefinesWatchHandles == Contract!Spec
=============================================================================

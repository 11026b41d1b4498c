-------------------------- MODULE MacEventTranslate --------------------------
(***************************************************************************)
(* The translation step of the FSEvents backend: the loop body of          *)
(* WatcherService::WatchKey::eventCallbackFunction in                      *)
(* src/native/macos/watcher/main.cpp, which maps one reported absolute     *)
(* path and its FSEventStreamEventFlags to a notifyEvent(kind, relative    *)
(* path) call, against the rules of the spec (section 4.4) as a reference. *)
(*                                                                         *)
(* A path is a sequence of UTF-16 code units (UniChar), given as numbers   *)
(* so that the byte-wise memcmp of the code can be evaluated.  The flag    *)
(* bits are grouped by the mask the code tests them with.                  *)
(***************************************************************************)
EXTENDS Naturals, SequencesExt

CONSTANTS
    Chars,      \* UniChar values paths are made of (must include Slash)
    MaxLen,     \* bound: longest path
    FlagSets    \* sets of flag groups an event may carry

Slash == 47     \* '/'

(* The masks of eventCallbackFunction, in the order it tests them.         *)
FlagGroups == {"Dropped",      \* UserDropped | KernelDropped | MustScanSubDirs
               "RootChanged",  \* RootChanged
               "Created",      \* ItemCreated
               "Modified",     \* InodeMetaMod | Modified | FinderInfoMod | ChangeOwner | XattrMod
               "Removed",      \* ItemRemoved | ItemRenamed
               "Other"}        \* any bit none of the masks above tests

ASSUME /\ Slash \in Chars
       /\ MaxLen \in Nat \ {0}
       /\ FlagSets \subseteq SUBSET FlagGroups

(* Canonical absolute paths, as FSEvents reports them: a leading         *)
(* separator, no empty component, no trailing separator but for the root.  *)
Canonical(p) ==
    /\ \A i \in 1..Len(p) - 1 : ~(p[i] = Slash /\ p[i + 1] = Slash)
    /\ Len(p) > 1 => p[Len(p)] # Slash

Paths == {p \in {<<Slash>> \o s : s \in BoundedSeq(Chars, MaxLen - 1)} : Canonical(p)}

Notify(kind, rel) == [kind |-> kind, rel |-> rel]
Overflow == Notify("Overflow", <<>>)

-----------------------------------------------------------------------------
(* memcmp(a, b, n) = 0: the first n BYTES agree.  A UniChar is two bytes,  *)
(* low byte first on the little-endian targets the library is built for.   *)
ByteAt(s, k) ==
    LET u == s[(k + 1) \div 2] IN IF k % 2 = 1 THEN u % 256 ELSE u \div 256

MemcmpEqual(a, b, n) == \A k \in 1..n : ByteAt(a, k) = ByteAt(b, k)

(* rootInstall: the key was created for the file system root "/".          *)
RootInstall(key) == key = <<Slash>>

(* The kind chosen by the flag tests: creation before modification before  *)
(* removal; Overflow for dropped events, a changed root, or unknown bits.  *)
KindOf(fl) ==
    CASE "Dropped" \in fl     -> "Overflow"
      [] "RootChanged" \in fl -> "Overflow"
      [] "Created" \in fl     -> "Create"
      [] "Modified" \in fl    -> "Modify"
      [] "Removed" \in fl     -> "Delete"
      [] OTHER                -> "Overflow"

(* One iteration of the event loop of eventCallbackFunction.               *)
Translate(key, ev, fl) ==
    LET pathLen == Len(key)
        len == Len(ev)
        rel == IF len = pathLen THEN <<>>
               ELSE IF RootInstall(key) THEN SubSeq(ev, 2, len)
               ELSE SubSeq(ev, pathLen + 2, len)
    IN
    IF len < pathLen THEN Overflow
    ELSE IF ~MemcmpEqual(key, ev, pathLen) THEN Overflow
    ELSE IF len > pathLen /\ ~RootInstall(key) /\ ev[pathLen + 1] # Slash THEN Overflow
    ELSE IF KindOf(fl) = "Overflow" THEN Overflow
    ELSE Notify(KindOf(fl), rel)

-----------------------------------------------------------------------------
(* The reference: spec section 4.4.  A path that does not have the watched *)
(* path as a literal prefix, followed by a separator unless the two are    *)
(* equal or the watched path is the root, is an Overflow; otherwise the    *)
(* relative path is what follows the prefix and its separator.             *)
UnderKey(key, ev) ==
    /\ IsPrefix(key, ev)
    /\ \/ Len(ev) = Len(key)
       \/ RootInstall(key)
       \/ ev[Len(key) + 1] = Slash

SpecRel(key, ev) ==
    IF Len(ev) = Len(key) THEN <<>>
    ELSE SubSeq(ev, Len(key) + IF RootInstall(key) THEN 1 ELSE 2, Len(ev))

SpecTranslate(key, ev, fl) ==
    IF KindOf(fl) = "Overflow" \/ ~UnderKey(key, ev) THEN Overflow
    ELSE Notify(KindOf(fl), SpecRel(key, ev))

-----------------------------------------------------------------------------
(* The inputs: a watched path, a reported path and its flags.              *)
VARIABLES key, ev, fl
vars == <<key, ev, fl>>

Init == key \in Paths /\ ev \in Paths /\ fl \in FlagSets
Next == UNCHANGED vars
Spec == Init /\ [][Next]_vars

(* The callback attributes an event to the watched key, with the relative  *)
(* path the spec prescribes, exactly when the reported path lies under the *)
(* watched one; any other path is reported as an Overflow.                  *)
TranslateMatchesSpec == Translate(key, ev, fl) = SpecTranslate(key, ev, fl)
=============================================================================

CONSTANTS
    c1 = c1
    c2 = c2
    k1 = k1
    k2 = k2
    NoCaller = NoCaller
    NoKey = NoKey
    Callers <- MCCallers1
    Keys <- MCKeys1
    MaxChanges = 1
    CallsBeforeClose = TRUE
SPECIFICATION Spec
CHECK_DEADLOCK FALSE
INVARIANT NoCallbackOnDeletedKey

CONSTANTS
    c1 = c1
    c2 = c2
    w1 = w1
    w2 = w2
    NoCaller = NoCaller
    NoWatch = NoWatch
    Callers <- MCCallers1
    Watches <- MCWatches1
    BufCap = 1
    MaxChanges = 1
    AddsSerialized = TRUE
    CallsBeforeClose = TRUE
    AssociationMayFail = TRUE
    DequeueMayFail = FALSE
    PostMayFail = FALSE
SPECIFICATION Spec
CHECK_DEADLOCK FALSE
PROPERTY EventuallyReported

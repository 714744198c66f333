\* Two calls of up to two attempts over a keyed command, an unkeyed mutation, a
\* read and a query that is refused locally.  One key: calls of different keys
\* share nothing that any of them reads.
SPECIFICATION FairSpec
CONSTANTS
    Calls = {c1, c2}
    Ops = {consume, addon, read, blank}
    Reads = {read, blank}
    Unkeyed = {addon}
    Invalid = {blank}
    Keys = {k1}
    Bodies = {b1}
    NoKey = NoKey
    NoBody = NoBody
    NoOp = NoOp
    MaxAttempts = 2
INVARIANTS
    TypeOK
    AtMostOnce
    FailureLeavesTheKey
    RefusalIsFinal
PROPERTIES
    KeepsThePromise
    ExpiredCallsReturn
CHECK_DEADLOCK FALSE

\* Two calls of up to three attempts, of one command or of two; no symmetry, which
\* TLC's liveness check does not support.  The proofs are for any number of calls.
SPECIFICATION FairSpec
CONSTANTS
    Calls = {c1, c2}
    Ops = {consume, read, blank}
    Reads = {read, blank}
    Invalid = {blank}
    Keys = {k1, k2}
    Bodies = {b1, b2}
    NoKey = NoKey
    NoBody = NoBody
    NoOp = NoOp
    MaxAttempts = 3
INVARIANTS
    TypeOK
    AtMostOnce
    SuccessIsApplied
    NoSelfConflict
    RefusalIsFinal
    FailureLeavesTheKey
PROPERTIES
    KeepsThePromise
    CallsReturn
CHECK_DEADLOCK FALSE

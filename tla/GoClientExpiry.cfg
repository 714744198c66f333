SPECIFICATION Spec
CONSTANTS
    Calls = {c1, c2}
    Ops = {consume, addon, read, blank}
    Reads = {read, blank}
    Unkeyed = {addon}
    Invalid = {blank}
    Keys = {k1, k2}
    Bodies = {b1}
    NoKey = NoKey
    NoBody = NoBody
    NoOp = NoOp
    MaxAttempts = 2
INVARIANT
    EveryFailureLeavesTheKey
CHECK_DEADLOCK FALSE

\* One call is enough: its only answer is cut off.
SPECIFICATION Spec
CONSTANTS
    Calls = {c1, c2}
    Ops = {consume, read}
    Reads = {read}
    Invalid = {}
    Keys = {k1, k2}
    Bodies = {b1, b2}
    NoKey = NoKey
    NoBody = NoBody
    NoOp = NoOp
    MaxAttempts = 2
INVARIANT
    EveryFailureLeavesTheKey
CHECK_DEADLOCK FALSE

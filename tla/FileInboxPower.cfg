\* Two requests at a time, each delivery sent up to twice.
SPECIFICATION Spec
CONSTANTS
    o1 = o1
    o2 = o2
    e1 = e1
    e2 = e2
    plain = plain
    spaced = spaced
    compact = compact
    Deliveries <- MCDeliveries
    Outbox <- MCOutbox
    Events <- MCEvents
    Bodies <- MCBodies
    NoBody = NoBody
    NoAlias = NoAlias
    Form <- MCForm
    Handlers = {h1, h2}
    Free = Free
    MaxSends = 2
    FaultModels <- MCKillAndPower
CHECK_DEADLOCK FALSE
INVARIANT
    AcknowledgedIsStored

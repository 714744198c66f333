\* Two processes, each delivery sent up to twice.
SPECIFICATION FairSpec
CONSTANTS
    o1 = o1
    o2 = o2
    e1 = e1
    e2 = e2
    b1 = b1
    b2 = b2
    Deliveries <- MCDeliveries
    Outbox <- MCOutbox
    Events <- MCEvents
    Bodies <- MCBodies
    NoBody = NoBody
    Workers = {w1, w2}
    Free = Free
    MaxSends = 2
INVARIANTS
    TypeOK
    RepeatsAreAccepted
PROPERTIES
    KeepsThePromise
    DeliveriesAreAnswered
CHECK_DEADLOCK FALSE
